---------------------- MODULE DashboardSession_proofs ----------------------
(***************************************************************************)
(* Proofs about DashboardSession, for any tabs, requests, retries and      *)
(* faults. IInv ties each refresh that is still waited for to the request  *)
(* that waits for it, and says that nobody but its answer can hand out the *)
(* session it made.                                                        *)
(***************************************************************************)
EXTENDS DashboardSession, SequenceTheorems, TLAPS

Calls == DOMAIN calls

Made(c) == c.st \in {"created", "ok"}

\* The browser knows only sessions that were made.
BrowserInv == token \in 0..last /\ cookie \in 1..last

\* What a call refers to was made, a new session lives or was ended on purpose,
\* and the browser learns of it by the call alone, which somebody waits for.
CallInv ==
    \A i \in Calls :
       /\ calls[i].old \in 0..last /\ calls[i].new \in 0..last
       /\ calls[i].st \in {"asked", "verified", "created", "ok"} => calls[i].old # 0
       /\ Made(calls[i]) <=> calls[i].new # 0
       /\ calls[i].by # None =>
             /\ req[calls[i].by].st = "refreshing"
             /\ calls[i].new # cookie
             /\ calls[i].new # 0 => calls[i].new \in alive \cup closed

\* No two calls make the same session or are waited for by the same request, and
\* no call renews a session that is not known yet.
PairInv ==
    \A i, j \in Calls :
       /\ i # j /\ calls[i].new = calls[j].new => calls[i].new = 0
       /\ i # j /\ calls[i].by = calls[j].by => calls[i].by = None
       /\ calls[i].by # None /\ calls[i].new # 0 => calls[j].old # calls[i].new

IInv ==
    /\ TypeOK
    /\ BrowserInv
    /\ CallInv
    /\ PairInv
    /\ OneRefreshPerTab
    /\ StoredTokenLives

-----------------------------------------------------------------------------
(* Sequences of calls. *)

\* RemoveAt leaves every element but the i-th, and nothing else.
LEMMA Removed ==
    ASSUME NEW S, NEW s \in Seq(S), NEW i \in 1..Len(s)
    PROVE  /\ RemoveAt(s, i) \in Seq(S)
           /\ DOMAIN RemoveAt(s, i) = 1..(Len(s) - 1)
           /\ \A j \in 1..(Len(s) - 1) : RemoveAt(s, i)[j] = IF j < i THEN s[j] ELSE s[j + 1]
  <1> DEFINE a == SubSeq(s, 1, i - 1)
             b == SubSeq(s, i + 1, Len(s))
  <1>0. Len(s) \in Nat /\ \A k \in 1..Len(s) : s[k] \in S
    BY LenProperties, ElementOfSeq
  <1>1. /\ a \in Seq(S) /\ Len(a) = i - 1
        /\ \A k \in 1..(i - 1) : a[k] = s[k]
    <2>1. \A k \in 1..(i - 1) : s[k] \in S
      BY <1>0
    <2> QED
      BY <1>0, <2>1, SubSeqProperties
  <1>2. /\ b \in Seq(S) /\ Len(b) = Len(s) - i
        /\ \A k \in 1..(Len(s) - i) : b[k] = s[i + k]
    <2>1. \A k \in (i + 1)..Len(s) : s[k] \in S
      BY <1>0
    <2> QED
      BY <1>0, <2>1, SubSeqProperties
  <1> HIDE DEF a, b
  <1>3. /\ a \o b \in Seq(S) /\ Len(a \o b) = Len(s) - 1
        /\ \A k \in 1..(Len(s) - 1) : (a \o b)[k] = IF k < i THEN s[k] ELSE s[k + 1]
    <2>1. /\ a \o b \in Seq(S) /\ Len(a \o b) = Len(a) + Len(b)
          /\ \A k \in 1..(Len(a) + Len(b)) : (a \o b)[k] = IF k <= Len(a) THEN a[k] ELSE b[k - Len(a)]
      BY <1>1, <1>2, ConcatProperties
    <2>2. Len(a) + Len(b) = Len(s) - 1 /\ i \in 1..Len(s)
      BY <1>0, <1>1, <1>2
    <2>3. ASSUME NEW k \in 1..(Len(s) - 1), k < i
          PROVE  (a \o b)[k] = s[k]
      <3>1. k \in 1..(i - 1) /\ k <= Len(a)
        BY <1>0, <1>1, <2>3
      <3> QED
        BY <1>1, <2>1, <2>2, <3>1
    <2>4. ASSUME NEW k \in 1..(Len(s) - 1), ~(k < i)
          PROVE  (a \o b)[k] = s[k + 1]
      <3>1. ~(k <= Len(a)) /\ k - Len(a) \in 1..(Len(s) - i) /\ i + (k - Len(a)) = k + 1
        BY <1>0, <1>1, <2>4
      <3>2. (a \o b)[k] = b[k - Len(a)]
        BY <2>1, <2>2, <3>1
      <3> QED
        BY <1>2, <3>1, <3>2
    <2> QED
      BY <2>1, <2>2, <2>3, <2>4
  <1>4. RemoveAt(s, i) = a \o b
    BY DEF RemoveAt, a, b
  <1> QED
    BY <1>3, <1>4, LenProperties

\* The calls cs are some of the calls there are: p says which.
Some(cs, p) ==
    /\ cs \in Seq(Call)
    /\ p \in [DOMAIN cs -> Calls]
    /\ \A j \in DOMAIN cs : cs[j] = calls[p[j]]
    /\ \A j, k \in DOMAIN cs : p[j] = p[k] => j = k

\* A call is a call.
LEMMA CallType ==
    ASSUME TypeOK
    PROVE  \A i \in Calls : calls[i] \in Call
  BY ElementOfSeq, LenProperties DEF TypeOK, Calls

\* A call removed, the others are left.
LEMMA RemovedCall ==
    ASSUME calls \in Seq(Call), NEW i \in Calls
    PROVE  \E p : /\ Some(RemoveAt(calls, i), p)
                  /\ \A j \in DOMAIN RemoveAt(calls, i) : p[j] # i
                  /\ \A k \in Calls : k # i => \E j \in DOMAIN RemoveAt(calls, i) : p[j] = k
  <1> DEFINE cs == RemoveAt(calls, i)
             p == [j \in DOMAIN cs |-> IF j < i THEN j ELSE j + 1]
  <1>0. Len(calls) \in Nat /\ Calls = 1..Len(calls) /\ i \in 1..Len(calls)
    BY LenProperties DEF Calls
  <1>1. /\ cs \in Seq(Call)
        /\ DOMAIN cs = 1..(Len(calls) - 1)
        /\ \A j \in DOMAIN cs : cs[j] = IF j < i THEN calls[j] ELSE calls[j + 1]
    BY <1>0, Removed
  <1> HIDE DEF cs
  <1>2. /\ p \in [DOMAIN cs -> Calls]
        /\ \A j \in DOMAIN cs : cs[j] = calls[p[j]]
        /\ \A j, k \in DOMAIN cs : p[j] = p[k] => j = k
        /\ \A j \in DOMAIN cs : p[j] # i
    BY <1>0, <1>1
  <1>3. ASSUME NEW k \in Calls, k # i
        PROVE  \E j \in DOMAIN cs : p[j] = k
    <2>1. CASE k < i
      <3>1. k \in DOMAIN cs
        BY <1>0, <1>1, <2>1
      <3> QED
        BY <2>1, <3>1
    <2>2. CASE k > i
      <3>1. k - 1 \in DOMAIN cs /\ ~(k - 1 < i) /\ (k - 1) + 1 = k
        BY <1>0, <1>1, <2>2
      <3> QED
        BY <3>1
    <2> QED
      BY <1>0, <1>3, <2>1, <2>2
  <1>4. Some(cs, p)
    BY <1>1, <1>2 DEF Some
  <1> HIDE DEF p
  <1> QED
    BY <1>2, <1>3, <1>4 DEF cs

\* A call changed, the others stay.
LEMMA ChangedCall ==
    ASSUME calls \in Seq(Call), NEW i \in Calls, NEW c \in Call
    PROVE  /\ [calls EXCEPT ![i] = c] \in Seq(Call)
           /\ DOMAIN [calls EXCEPT ![i] = c] = Calls
           /\ \A j \in Calls : [calls EXCEPT ![i] = c][j] = IF j = i THEN c ELSE calls[j]
  <1>1. Calls = 1..Len(calls)
    BY LenProperties DEF Calls
  <1> QED
    BY <1>1, ExceptSeq, LenProperties DEF Calls

\* A call more, the others stay.
LEMMA OneMoreCall ==
    ASSUME calls \in Seq(Call), NEW c \in Call
    PROVE  /\ Append(calls, c) \in Seq(Call)
           /\ \E n : /\ n \notin Calls
                     /\ DOMAIN Append(calls, c) = Calls \cup {n}
                     /\ Append(calls, c)[n] = c
                     /\ \A j \in Calls : Append(calls, c)[j] = calls[j]
  <1>1. Len(calls) \in Nat /\ Calls = 1..Len(calls)
    BY LenProperties DEF Calls
  <1>2. /\ Append(calls, c) \in Seq(Call)
        /\ Len(Append(calls, c)) = Len(calls) + 1
        /\ \A j \in 1..Len(calls) : Append(calls, c)[j] = calls[j]
        /\ Append(calls, c)[Len(calls) + 1] = c
    BY <1>1, AppendProperties
  <1>3. DOMAIN Append(calls, c) = 1..(Len(calls) + 1)
    BY <1>2, LenProperties
  <1>4. Len(calls) + 1 \notin Calls /\ 1..(Len(calls) + 1) = Calls \cup {Len(calls) + 1}
    BY <1>1
  <1> QED
    BY <1>1, <1>2, <1>3, <1>4

-----------------------------------------------------------------------------
(* What steps share. *)

\* A step that leaves the calls and the queues' runners alone, forgets no session
\* and hands out only a new one.
LEMMA SteadyKeeps ==
    ASSUME IInv, UNCHANGED <<calls, isOpen>>,
           last' \in Nat, last <= last', cookie' = cookie \/ cookie' > last,
           alive \cup closed \subseteq alive' \cup closed',
           \A r \in Req : /\ req'[r].st = "refreshing" <=> req[r].st = "refreshing"
                          /\ req'[r].st = "queued" => req[r].st = "queued"
    PROVE  CallInv' /\ PairInv' /\ OneRefreshPerTab'
  <1> USE DEF IInv, Calls
  <1>0. \A i \in Calls : calls[i] \in Call
    BY CallType
  <1>1. CallInv'
    <2>1. last \in Nat
      BY DEF TypeOK
    <2>2. ASSUME NEW i \in Calls
          PROVE  /\ calls[i].old \in 0..last' /\ calls[i].new \in 0..last'
                 /\ calls[i].new # cookie => calls[i].new # cookie'
      BY <2>1 DEF CallInv
    <2>3. ASSUME NEW i \in Calls, calls[i].by # None
          PROVE  /\ req'[calls[i].by].st = "refreshing"
                 /\ calls[i].new # 0 => calls[i].new \in alive' \cup closed'
      BY <1>0, <2>3 DEF CallInv, Call
    <2> QED
      BY <2>2, <2>3 DEF CallInv, Made
  <1>2. PairInv'
    BY DEF PairInv
  <1>3. OneRefreshPerTab'
    BY DEF OneRefreshPerTab, Queue, OfTab
  <1> QED
    BY <1>1, <1>2, <1>3

\* A request that asks is the only one to wait for its call.
LEMMA AskKeeps ==
    ASSUME IInv, NEW r \in Req, calls' = Append(calls, Asked(r)),
           req'[r].st = "refreshing",
           \A i \in Calls : calls[i].by # r,
           \A q \in Req : req[q].st = "refreshing" => req'[q].st = "refreshing",
           UNCHANGED <<browser, sessions, history>>
    PROVE  /\ calls' \in Seq(Call)
           /\ CallInv' /\ PairInv' /\ StoredTokenLives'
  <1> USE DEF IInv, browser, sessions, history
  <1>1. Asked(r) \in Call /\ cookie \in Nat /\ cookie # 0
    BY DEF TypeOK, Asked, Call, BrowserInv
  <1>2. PICK n : /\ n \notin Calls
                 /\ DOMAIN calls' = Calls \cup {n}
                 /\ calls'[n] = Asked(r)
                 /\ \A j \in Calls : calls'[j] = calls[j]
    BY <1>1, OneMoreCall DEF TypeOK
  <1>3. calls' \in Seq(Call)
    BY <1>1, OneMoreCall DEF TypeOK
  <1>4. \A i \in Calls : calls[i] \in Call
    BY CallType
  <1>5. CallInv'
    <2>1. ASSUME NEW i \in Calls'
          PROVE  (/\ calls[i].old \in 0..last /\ calls[i].new \in 0..last
                  /\ calls[i].st \in {"asked", "verified", "created", "ok"} => calls[i].old # 0
                  /\ Made(calls[i]) <=> calls[i].new # 0
                  /\ calls[i].by # None =>
                        /\ req[calls[i].by].st = "refreshing"
                        /\ calls[i].new # cookie
                        /\ calls[i].new # 0 => calls[i].new \in alive \cup closed)'
      <3>1. CASE i \in Calls
        BY <1>2, <1>4, <3>1 DEF CallInv, Call, Made
      <3>2. CASE i = n
        BY <1>1, <1>2, <3>2 DEF Asked, Made, BrowserInv, TypeOK
      <3> QED
        BY <1>2, <3>1, <3>2 DEF Calls
    <2> QED
      BY <2>1 DEF CallInv
  <1>6. PairInv'
    BY <1>1, <1>2 DEF PairInv, CallInv, Calls, Asked
  <1>7. StoredTokenLives'
    BY <1>2 DEF StoredTokenLives, Calls
  <1> QED
    BY <1>3, <1>5, <1>6, <1>7

\* Calls that go, and a session of one of them the browser learns of, leave the
\* others' facts true.
LEMMA FewerCallsKeep ==
    ASSUME IInv, NEW p, Some(calls', p),
           UNCHANGED sessions, closed' = closed,
           \/ cookie' = cookie
           \/ \E k \in Calls : /\ calls[k].by # None /\ Made(calls[k]) /\ cookie' = calls[k].new
                               /\ \A j \in Calls' : p[j] # k,
           \A j \in Calls' : calls'[j].by # None => req'[calls'[j].by].st = "refreshing"
    PROVE  CallInv' /\ PairInv' /\ cookie' \in 1..last
  <1> USE DEF IInv, sessions
  <1>0. /\ \A j \in Calls' : p[j] \in Calls /\ calls'[j] = calls[p[j]]
        /\ \A j, k \in Calls' : p[j] = p[k] => j = k
    BY DEF Some, Calls
  <1>1. cookie' \in 1..last
    BY DEF BrowserInv, CallInv, Made, TypeOK
  <1>2. \A j \in Calls' : calls'[j].by # None => calls'[j].new # cookie'
    BY <1>0 DEF CallInv, PairInv
  <1>3. CallInv'
    BY <1>0, <1>2 DEF CallInv, Made
  <1>4. PairInv'
    BY <1>0 DEF PairInv
  <1> QED
    BY <1>1, <1>3, <1>4

\* A refresh that ends closes its tab's queue and empties it.
LEMMA ClosedKeeps ==
    ASSUME IInv, NEW r \in Req, req[r].st = "refreshing",
           isOpen' = [isOpen EXCEPT ![TabOf[r]] = FALSE],
           \A q \in Req : IF q \in Queue(TabOf[r]) \cup {r}
                          THEN req'[q].st \in {"sent", "settled"}
                          ELSE req'[q] = req[q]
    PROVE  OneRefreshPerTab'
  <1> USE DEF IInv
  <1>1. ASSUME NEW t \in Tab, t # TabOf[r]
        PROVE  (LET Refreshing == {q \in OfTab(t) : req[q].st = "refreshing"}
                IN  IF isOpen[t]
                    THEN \E q \in Refreshing : Refreshing = {q}
                    ELSE Refreshing = {} /\ Queue(t) = {})'
    <2>1. \A q \in OfTab(t) : req'[q] = req[q]
      BY <1>1 DEF OfTab, Queue
    <2>2. /\ {q \in OfTab(t) : req'[q].st = "refreshing"} = {q \in OfTab(t) : req[q].st = "refreshing"}
          /\ Queue(t)' = Queue(t)
      BY <2>1 DEF Queue, OfTab
    <2>3. isOpen'[t] = isOpen[t]
      BY <1>1 DEF TypeOK
    <2> QED
      BY <2>2, <2>3 DEF OneRefreshPerTab, OfTab
  <1>2. LET t == TabOf[r]
        IN  isOpen'[t] = FALSE /\ Queue(t)' = {}
            /\ {q \in OfTab(t) : req'[q].st = "refreshing"} = {}
    <2> DEFINE t == TabOf[r]
               Refreshing == {q \in OfTab(t) : req[q].st = "refreshing"}
    <2>1. t \in Tab /\ r \in Refreshing
      BY SessionAssumption DEF OfTab
    <2>2. Refreshing = {r}
      BY <2>1 DEF OneRefreshPerTab
    <2>3. \A q \in OfTab(t) : req'[q].st \notin {"refreshing", "queued"}
      BY <2>2 DEF Queue, OfTab
    <2> QED
      BY <2>1, <2>3 DEF Queue, OfTab, TypeOK
  <1> QED
    BY <1>1, <1>2 DEF OneRefreshPerTab, OfTab

\* A step that leaves nothing of the calls' and the browser's alone but where one
\* request stands, which neither runs a refresh nor comes to wait for one.
LEMMA RequestKeeps ==
    ASSUME IInv, NEW r \in Req, NEW q, req' = [req EXCEPT ![r] = q],
           q.st \notin {"queued", "refreshing"}, req[r].st # "refreshing"
    PROVE  \A s \in Req : /\ req'[s].st = "refreshing" <=> req[s].st = "refreshing"
                          /\ req'[s].st = "queued" => req[s].st = "queued"
  BY DEF IInv, TypeOK

\* What is counted stays within its bound.
LEMMA CountedType ==
    ASSUME TypeOK, Counted
    PROVE  events' \in 0..MaxEvents
  BY SessionAssumption DEF TypeOK, Counted

Places == {"new", "queued", "refreshing", "sent", "answered", "settled", "gone"}

\* Where a request can be put, and with what.
LEMMA AtType ==
    ASSUME NEW st \in Places
    PROVE  At(st) \in Request /\ At(st).st = st /\ At(st).tries = 0
  BY DEF At, Request, Places

\* The same, with its side.
LEMMA AtSideType ==
    ASSUME NEW st \in Places, NEW side \in {"before", "after"}
    PROVE  LET q == [At(st) EXCEPT !.side = side]
           IN  q \in Request /\ q.st = st /\ q.tries = 0
  BY DEF At, Request, Places

\* The same, answered.
LEMMA AnsweredType ==
    ASSUME NEW ans \in {"ok", "expired", "invalid", "error"}
    PROVE  LET q == [At("answered") EXCEPT !.ans = ans]
           IN  q \in Request /\ q.st = "answered" /\ q.tries = 0
  BY DEF At, Request

\* The same, sent with a token.
LEMMA SentType ==
    ASSUME NEW tok \in Nat
    PROVE  LET q == [At("sent") EXCEPT !.tok = tok]
           IN  q \in Request /\ q.st = "sent" /\ q.tries = 0
  BY DEF At, Request

\* One request put where it can be leaves the requests of their type.
LEMMA PutType ==
    ASSUME TypeOK, NEW r \in Req, NEW q \in Request, q.tries = 0,
           req' = [req EXCEPT ![r] = q]
    PROVE  req' \in [Req -> Request] /\ \A s \in Req : req'[s].tries <= Retries
  <1>1. \A s \in Req : req'[s] = IF s = r THEN q ELSE req[s]
    BY DEF TypeOK
  <1> QED
    BY <1>1, SessionAssumption DEF TypeOK

-----------------------------------------------------------------------------
(* Every step keeps IInv: first the requests'. *)

\* A session ended by a request was ended on purpose.
LEMMA ServeKeeps ==
    ASSUME IInv, NEW r \in Req, Serve(r) \/ ServeFails(r) \/ Unanswered(r)
    PROVE  IInv'
  <1> USE DEF browser, clocks, server, sessions, history
  <1>1. PICK a \in {"ok", "expired", "invalid", "error"} :
             req' = [req EXCEPT ![r] = [At("answered") EXCEPT !.ans = a]]
    BY DEF Serve, ServeFails, Unanswered
  <1>2. /\ UNCHANGED <<token, cookie, page, isOpen, calls, last, expired, seen, over, unheard, up>>
        /\ alive' \cup closed' = alive \cup closed
        /\ alive' \subseteq alive
        /\ events' \in 0..MaxEvents
    <2>1. CASE Serve(r)
      BY <2>1 DEF Serve, IInv, TypeOK
    <2>2. CASE Unanswered(r)
      BY <2>2 DEF Unanswered, IInv, TypeOK
    <2>3. CASE ServeFails(r)
      BY <2>3, CountedType DEF ServeFails, IInv
    <2> QED
      BY <2>1, <2>2, <2>3
  <1>3. req[r].st = "sent"
    BY DEF Serve, ServeFails, Unanswered
  <1>4. TypeOK'
    <2>1. req' \in [Req -> Request] /\ \A s \in Req : req'[s].tries <= Retries
      BY <1>1, AnsweredType, PutType DEF IInv
    <2> QED
      BY <1>2, <2>1 DEF IInv, TypeOK
  <1>5. CallInv' /\ PairInv' /\ OneRefreshPerTab'
    <2>1. \A s \in Req : /\ req'[s].st = "refreshing" <=> req[s].st = "refreshing"
                         /\ req'[s].st = "queued" => req[s].st = "queued"
      BY <1>1, <1>3, AnsweredType, RequestKeeps
    <2>2. last' \in Nat /\ last <= last'
      BY <1>2 DEF IInv, TypeOK
    <2> QED
      BY <1>2, <2>1, <2>2, SteadyKeeps
  <1>6. BrowserInv' /\ StoredTokenLives'
    BY <1>2 DEF IInv, BrowserInv, StoredTokenLives
  <1> QED
    BY <1>4, <1>5, <1>6 DEF IInv

\* An answer taken up, which is not "expired".
LEMMA ReceiveAnswerKeeps ==
    ASSUME IInv, NEW r \in Req, ReceiveAnswer(r)
    PROVE  IInv'
  <1> USE DEF browser, clocks, server, sessions, history
  <1>1. /\ UNCHANGED <<cookie, isOpen, calls, alive, last, expired, seen, up, over, events, closed, unheard>>
        /\ req[r].st = "answered"
        /\ req' = [req EXCEPT ![r] = At("settled")]
        /\ token' \in {0, token}
    BY DEF ReceiveAnswer
  <1>2. TypeOK'
    <2>1. req' \in [Req -> Request] /\ \A s \in Req : req'[s].tries <= Retries
      BY <1>1, AtType, PutType DEF IInv, Places
    <2>2. page' \in [Tab -> {"dashboard", "signedOut", "loggedOut"}]
      BY DEF ReceiveAnswer, IInv, TypeOK
    <2> QED
      BY <1>1, <2>1, <2>2 DEF IInv, TypeOK
  <1>3. CallInv' /\ PairInv' /\ OneRefreshPerTab'
    <2>1. \A s \in Req : /\ req'[s].st = "refreshing" <=> req[s].st = "refreshing"
                         /\ req'[s].st = "queued" => req[s].st = "queued"
      BY <1>1, AtType, RequestKeeps DEF Places
    <2>2. last' \in Nat /\ last <= last'
      BY <1>1 DEF IInv, TypeOK
    <2> QED
      BY <1>1, <2>1, <2>2, SteadyKeeps
  <1>4. BrowserInv' /\ StoredTokenLives'
    BY <1>1 DEF IInv, BrowserInv, StoredTokenLives, TypeOK
  <1> QED
    BY <1>2, <1>3, <1>4 DEF IInv

\* A request comes to wait, in the queue or for the call it makes.
LEMMA WaitKeeps ==
    ASSUME IInv, NEW r \in Req, NEW side \in {"before", "after"},
           req[r].st \in {"new", "answered"}, WaitForToken(r, side),
           UNCHANGED <<browser, server, clocks, over, events, history>>
    PROVE  IInv'
  <1> USE DEF browser, clocks, server, sessions, history
  <1> DEFINE t == TabOf[r]
             Refreshing == {q \in OfTab(t) : req[q].st = "refreshing"}
  <1>0. t \in Tab /\ r \in OfTab(t)
    BY SessionAssumption DEF OfTab
  <1>1. PICK st \in {"queued", "refreshing"} : req' = [req EXCEPT ![r] = [At(st) EXCEPT !.side = side]]
    BY DEF WaitForToken
  <1>2. req' \in [Req -> Request] /\ \A s \in Req : req'[s].tries <= Retries
    <2>1. LET q == [At(st) EXCEPT !.side = side]
          IN  q \in Request /\ q.tries = 0
      BY AtSideType DEF Places
    <2> QED
      BY <1>1, <2>1, PutType DEF IInv
  <1>3. BrowserInv'
    BY DEF IInv, BrowserInv
  <1>4. \A s \in Req \ {r} : req'[s] = req[s]
    BY <1>1 DEF IInv, TypeOK
  <1>5. \A i \in Calls : calls[i] \in Call
    BY CallType DEF IInv
  <1>6. CASE isOpen[t]
    <2>1. req'[r].st = "queued" /\ UNCHANGED <<isOpen, calls>>
      <3>1. /\ req' = [req EXCEPT ![r] = [At("queued") EXCEPT !.side = side]]
            /\ UNCHANGED <<isOpen, calls>>
        BY <1>6 DEF WaitForToken
      <3>2. req \in [Req -> Request]
        BY DEF IInv, TypeOK
      <3> QED
        BY <3>1, <3>2, AtSideType DEF Places
    <2>2. TypeOK'
      BY <1>2, <2>1 DEF IInv, TypeOK
    <2>3. CallInv'
      BY <1>4, <1>5, <2>1 DEF IInv, CallInv, Calls, Made, Call
    <2>4. PairInv'
      BY <2>1 DEF IInv, PairInv, Calls
    <2>5. OneRefreshPerTab'
      <3>1. \A u \in Tab : {q \in OfTab(u) : req'[q].st = "refreshing"} = {q \in OfTab(u) : req[q].st = "refreshing"}
        BY <1>4, <2>1 DEF OfTab
      <3>2. \A u \in Tab \ {t} : Queue(u)' = Queue(u)
        BY <1>4 DEF Queue, OfTab
      <3> QED
        BY <1>6, <2>1, <3>1, <3>2 DEF IInv, OneRefreshPerTab, OfTab
    <2>6. StoredTokenLives'
      BY <2>1 DEF IInv, StoredTokenLives
    <2> QED
      BY <1>3, <2>2, <2>3, <2>4, <2>5, <2>6 DEF IInv
  <1>7. CASE ~isOpen[t]
    <2>1. /\ req'[r].st = "refreshing"
          /\ isOpen' = [isOpen EXCEPT ![t] = TRUE]
          /\ calls' = Append(calls, Asked(r))
      <3>1. /\ req' = [req EXCEPT ![r] = [At("refreshing") EXCEPT !.side = side]]
            /\ isOpen' = [isOpen EXCEPT ![t] = TRUE]
            /\ calls' = Append(calls, Asked(r))
        BY <1>7 DEF WaitForToken
      <3>2. req \in [Req -> Request]
        BY DEF IInv, TypeOK
      <3> QED
        BY <3>1, <3>2, AtSideType DEF Places
    <2>2. \A i \in Calls : calls[i].by # r
      BY SessionAssumption DEF IInv, CallInv
    <2>3. calls' \in Seq(Call) /\ CallInv' /\ PairInv' /\ StoredTokenLives'
      BY <1>4, <2>1, <2>2, AskKeeps
    <2>4. TypeOK'
      BY <1>2, <2>1, <2>3 DEF IInv, TypeOK
    <2>5. OneRefreshPerTab'
      <3>1. Refreshing = {} /\ Queue(t) = {}
        BY <1>0, <1>7 DEF IInv, OneRefreshPerTab
      <3>2. {q \in OfTab(t) : req'[q].st = "refreshing"} = {r} /\ isOpen'[t]
        BY <1>0, <1>4, <2>1, <3>1 DEF OfTab, IInv, TypeOK
      <3>3. ASSUME NEW u \in Tab \ {t}
            PROVE  /\ {q \in OfTab(u) : req'[q].st = "refreshing"} = {q \in OfTab(u) : req[q].st = "refreshing"}
                   /\ Queue(u)' = Queue(u)
                   /\ isOpen'[u] = isOpen[u]
        BY <1>4, <2>1 DEF Queue, OfTab, IInv, TypeOK
      <3> QED
        BY <3>2, <3>3 DEF IInv, OneRefreshPerTab, OfTab
    <2> QED
      BY <1>3, <2>3, <2>4, <2>5 DEF IInv
  <1> QED
    BY <1>6, <1>7

\* A request is sent with the token there is, or waits for another.
LEMMA SendKeeps ==
    ASSUME IInv, NEW r \in Req, Send(r)
    PROVE  IInv'
  <1>1. CASE WaitForToken(r, "before")
    BY <1>1, WaitKeeps DEF Send
  <1>2. CASE req' = SentWith({r}, token) /\ UNCHANGED <<isOpen, calls>>
    <2> USE DEF browser, clocks, server, sessions, history
    <2>1. /\ req' = [req EXCEPT ![r] = [At("sent") EXCEPT !.tok = token]]
          /\ req[r].st = "new" /\ token \in Nat
      BY <1>2 DEF Send, SentWith, IInv, TypeOK
    <2>2. UNCHANGED <<browser, isOpen, calls, server, clocks, over, events, history>>
      BY <1>2 DEF Send
    <2>3. TypeOK'
      <3>1. req' \in [Req -> Request] /\ \A s \in Req : req'[s].tries <= Retries
        BY <2>1, SentType, PutType DEF IInv
      <3> QED
        BY <2>2, <3>1 DEF IInv, TypeOK
    <2>4. CallInv' /\ PairInv' /\ OneRefreshPerTab'
      <3>1. \A s \in Req : /\ req'[s].st = "refreshing" <=> req[s].st = "refreshing"
                           /\ req'[s].st = "queued" => req[s].st = "queued"
        BY <2>1, SentType, RequestKeeps
      <3>2. last' \in Nat /\ last <= last'
        BY <2>2 DEF IInv, TypeOK
      <3> QED
        BY <2>2, <3>1, <3>2, SteadyKeeps
    <2>5. BrowserInv' /\ StoredTokenLives'
      BY <2>2 DEF IInv, BrowserInv, StoredTokenLives
    <2> QED
      BY <2>3, <2>4, <2>5 DEF IInv
  <1> QED
    BY <1>1, <1>2 DEF Send

\* An answer "expired" taken up: the request waits.
LEMMA ReceiveExpiredKeeps ==
    ASSUME IInv, NEW r \in Req, ReceiveExpired(r)
    PROVE  IInv'
  BY WaitKeeps DEF ReceiveExpired

\* A refresh tried again: nobody else makes its call.
LEMMA RetryRefreshKeeps ==
    ASSUME IInv, NEW r \in Req, RetryRefresh(r)
    PROVE  IInv'
  <1> USE DEF browser, clocks, server, sessions, history
  <1>1. calls' \in Seq(Call) /\ CallInv' /\ PairInv' /\ StoredTokenLives'
    BY AskKeeps DEF RetryRefresh, Calls
  <1>2. TypeOK' /\ BrowserInv'
    BY <1>1 DEF RetryRefresh, IInv, TypeOK, BrowserInv
  <1>3. OneRefreshPerTab'
    BY DEF RetryRefresh, IInv, OneRefreshPerTab, Queue, OfTab
  <1> QED
    BY <1>1, <1>2, <1>3 DEF IInv

-----------------------------------------------------------------------------
(* Then those nobody's request is in. *)

\* Signed in with a session made for it, that no call knows.
LEMMA SignInKeeps ==
    ASSUME IInv, NEW t \in Tab, SignIn(t)
    PROVE  IInv'
  <1>1. /\ last' = last + 1 /\ token' = last + 1 /\ cookie' = last + 1
        /\ alive' = alive \cup {last + 1}
        /\ UNCHANGED <<isOpen, req, calls, up, expired, seen, over, closed, unheard>>
        /\ last \in Nat
    BY DEF SignIn, clocks, history, IInv, TypeOK
  <1>2. events' \in 0..MaxEvents
    BY CountedType DEF SignIn, IInv
  <1>3. TypeOK'
    <2>1. 1..last \subseteq 1..last' /\ last + 1 \in 1..last'
      BY <1>1
    <2>2. page' \in [Tab -> {"dashboard", "signedOut", "loggedOut"}]
      BY DEF SignIn, IInv, TypeOK
    <2> QED
      BY <1>1, <1>2, <2>1, <2>2 DEF IInv, TypeOK
  <1>4. CallInv' /\ PairInv' /\ OneRefreshPerTab'
    BY <1>1, SteadyKeeps
  <1>5. BrowserInv' /\ StoredTokenLives'
    BY <1>1 DEF BrowserInv, StoredTokenLives
  <1> QED
    BY <1>3, <1>4, <1>5 DEF IInv

\* Time, an outage, and sessions ended on purpose.
LEMMA WorldKeeps ==
    ASSUME IInv, TokenExpires \/ EndSessions \/ Outage
    PROVE  IInv'
  <1> USE DEF browser, clocks, server, sessions, history
  <1>1. /\ UNCHANGED <<token, cookie, page, isOpen, req, calls, last, unheard>>
        /\ alive' \subseteq alive /\ alive' \cup closed' = alive \cup closed
    BY DEF TokenExpires, EndSessions, Outage
  <1>2. /\ expired' \subseteq 1..last /\ seen' \subseteq 1..last
        /\ up' \in BOOLEAN /\ over' \in BOOLEAN /\ events' \in 0..MaxEvents
    <2>1. CASE TokenExpires
      BY <2>1 DEF TokenExpires, IInv, TypeOK
    <2>2. CASE EndSessions
      BY <2>2, CountedType DEF EndSessions, IInv, TypeOK
    <2>3. CASE Outage
      BY <2>3, CountedType DEF Outage, IInv, TypeOK
    <2> QED
      BY <2>1, <2>2, <2>3
  <1>3. TypeOK'
    BY <1>1, <1>2 DEF IInv, TypeOK
  <1>4. CallInv' /\ PairInv' /\ OneRefreshPerTab'
    BY <1>1, SteadyKeeps DEF IInv, TypeOK
  <1>5. BrowserInv' /\ StoredTokenLives'
    BY <1>1 DEF IInv, BrowserInv, StoredTokenLives
  <1> QED
    BY <1>3, <1>4, <1>5 DEF IInv

-----------------------------------------------------------------------------
(* The end of a refresh, in the browser. *)

\* Tried again, or given up.
LEMMA NotAnsweredKeeps ==
    ASSUME IInv, NEW r \in Req, req[r].st = "refreshing", RefreshNotAnswered(r)
    PROVE  /\ req' \in [Req -> Request] /\ \A s \in Req : req'[s].tries <= Retries
           /\ isOpen' \in [Tab -> BOOLEAN]
           /\ OneRefreshPerTab'
           /\ \A s \in Req : s # r /\ req[s].st = "refreshing" => req'[s].st = "refreshing"
  <1>1. CASE req[r].tries < Retries
    <2>1. req' = [req EXCEPT ![r].tries = @ + 1] /\ UNCHANGED isOpen
      BY <1>1 DEF RefreshNotAnswered
    <2>2. \A s \in Req : /\ req'[s] \in Request /\ req'[s].tries <= Retries
                         /\ req'[s].st = req[s].st
      <3>1. req[r] \in Request /\ req[r].tries \in Nat /\ req[r].tries + 1 <= Retries
        BY <1>1, SessionAssumption DEF IInv, TypeOK, Request
      <3>2. LET q == [req[r] EXCEPT !.tries = req[r].tries + 1]
            IN  q \in Request /\ q.tries = req[r].tries + 1 /\ q.st = req[r].st
        BY <3>1 DEF Request
      <3>3. \A s \in Req : req'[s] = IF s = r THEN [req[r] EXCEPT !.tries = req[r].tries + 1]
                                             ELSE req[s]
        BY <2>1 DEF IInv, TypeOK
      <3> QED
        BY <3>1, <3>2, <3>3 DEF IInv, TypeOK
    <2>3. req' \in [Req -> Request]
      BY <2>1, <2>2 DEF IInv, TypeOK
    <2>4. OneRefreshPerTab'
      BY <2>1, <2>2 DEF IInv, OneRefreshPerTab, Queue, OfTab
    <2> QED
      BY <2>1, <2>2, <2>3, <2>4 DEF IInv, TypeOK
  <1>2. CASE ~(req[r].tries < Retries)
    <2> DEFINE R == Queue(TabOf[r]) \cup {r}
    <2>1. req' = WithoutRefresh(R) /\ isOpen' = [isOpen EXCEPT ![TabOf[r]] = FALSE]
      BY <1>2 DEF RefreshNotAnswered, QueueFailed
    <2>2. \A s \in Req : IF s \in R
                         THEN /\ req'[s] \in Request /\ req'[s].tries = 0
                              /\ req'[s].st \in {"sent", "settled"}
                         ELSE req'[s] = req[s]
      BY <2>1, AtType DEF WithoutRefresh, Places
    <2>3. req' \in [Req -> Request] /\ \A s \in Req : req'[s].tries <= Retries
      BY <2>1, <2>2, SessionAssumption DEF IInv, TypeOK, WithoutRefresh
    <2>4. OneRefreshPerTab'
      BY <2>1, <2>2, ClosedKeeps
    <2>5. \A s \in Req : s # r /\ req[s].st = "refreshing" => req'[s].st = "refreshing"
      BY <2>2 DEF Queue, OfTab
    <2> QED
      BY <2>1, <2>3, <2>4, <2>5 DEF IInv, TypeOK
  <1> QED
    BY <1>1, <1>2

\* When a call ends, so does nobody's wait but that of the request that made it.
LEMMA OthersWait ==
    ASSUME IInv, NEW i \in Calls, NEW p, Some(calls', p), \A j \in Calls' : p[j] # i,
           \A s \in Req : s # calls[i].by /\ req[s].st = "refreshing" => req'[s].st = "refreshing"
    PROVE  \A j \in Calls' : calls'[j].by # None => req'[calls'[j].by].st = "refreshing"
  <1>1. ASSUME NEW j \in Calls', calls'[j].by # None
        PROVE  req'[calls'[j].by].st = "refreshing"
    <2>1. p[j] \in Calls /\ calls'[j] = calls[p[j]] /\ p[j] # i
      BY DEF Some, Calls
    <2>2. calls[p[j]] \in Call
      BY <2>1, CallType DEF IInv
    <2>3. calls[p[j]].by # calls[i].by
      BY <1>1, <2>1 DEF IInv, PairInv
    <2>4. calls[p[j]].by \in Req /\ req[calls[p[j]].by].st = "refreshing"
      BY <1>1, <2>1, <2>2 DEF IInv, CallInv, Call
    <2> QED
      BY <2>1, <2>3, <2>4
  <1> QED
    BY <1>1

\* The new session is the browser's, and the calls left know nothing of it.
LEMMA RefreshOkKeeps ==
    ASSUME IInv, NEW i \in Calls, RefreshOk(i)
    PROVE  IInv'
  <1> USE DEF browser, clocks, server, sessions, history
  <1> DEFINE r == calls[i].by
             R == Queue(TabOf[r]) \cup {r}
  <1>0. calls[i] \in Call
    BY CallType DEF IInv
  <1>1. r \in Req /\ req[r].st = "refreshing" /\ calls[i].st = "ok"
    BY <1>0 DEF RefreshOk, IInv, CallInv, Call
  <1>2. PICK p : Some(calls', p) /\ \A j \in Calls' : p[j] # i
    BY RemovedCall DEF RefreshOk, IInv, TypeOK, Calls
  <1>3. \A s \in Req : IF s \in R
                       THEN /\ req'[s] \in Request /\ req'[s].tries = 0 /\ req'[s].st = "sent"
                       ELSE req'[s] = req[s]
    BY <1>0, SentType DEF RefreshOk, SentWith, Call
  <1>4. TypeOK'
    <2>1. req' \in [Req -> Request] /\ \A s \in Req : req'[s].tries <= Retries
      BY <1>3, SessionAssumption DEF RefreshOk, SentWith, IInv, TypeOK
    <2>2. {token', cookie'} \subseteq Nat /\ calls' \in Seq(Call) /\ isOpen' \in [Tab -> BOOLEAN]
      BY <1>0, <1>2 DEF RefreshOk, Some, Call, IInv, TypeOK
    <2> QED
      BY <2>1, <2>2 DEF RefreshOk, IInv, TypeOK
  <1>5. CallInv' /\ PairInv' /\ cookie' \in 1..last
    <2>1. \A s \in Req : s # r /\ req[s].st = "refreshing" => req'[s].st = "refreshing"
      BY <1>3 DEF Queue
    <2>2. Made(calls[i]) /\ calls[i].by # None /\ cookie' = calls[i].new
      BY <1>1 DEF RefreshOk, Made
    <2>3. UNCHANGED sessions /\ closed' = closed
      BY DEF RefreshOk
    <2> QED
      BY <1>2, <2>1, <2>2, <2>3, OthersWait, FewerCallsKeep
  <1>6. OneRefreshPerTab'
    BY <1>1, <1>3, ClosedKeeps DEF RefreshOk
  <1>7. BrowserInv' /\ StoredTokenLives'
    BY <1>1, <1>5 DEF RefreshOk, BrowserInv, StoredTokenLives, IInv, CallInv, Made, TypeOK
  <1> QED
    BY <1>4, <1>5, <1>6, <1>7 DEF IInv

\* Answered by nobody, the call goes and its answer replaces no token.
LEMMA RefreshTransientKeeps ==
    ASSUME IInv, NEW i \in Calls, RefreshTransient(i)
    PROVE  IInv'
  <1> USE DEF browser, clocks, server, sessions, history
  <1> DEFINE r == calls[i].by
  <1>1. /\ r \in Req /\ req[r].st = "refreshing" /\ calls[i].st = "transient"
        /\ RefreshNotAnswered(r) /\ calls' = RemoveAt(calls, i)
        /\ UNCHANGED <<token, cookie, page, alive, last, expired, seen, up, over, events, closed, unheard>>
    BY CallType DEF RefreshTransient, RefreshNotAnswered, IInv, CallInv, Call
  <1>2. PICK p : /\ Some(calls', p) /\ \A j \in Calls' : p[j] # i
                 /\ \A k \in Calls : k # i => \E j \in Calls' : p[j] = k
    BY <1>1, RemovedCall DEF IInv, TypeOK, Calls
  <1>3. /\ req' \in [Req -> Request] /\ \A s \in Req : req'[s].tries <= Retries
        /\ isOpen' \in [Tab -> BOOLEAN]
        /\ OneRefreshPerTab'
        /\ \A s \in Req : s # r /\ req[s].st = "refreshing" => req'[s].st = "refreshing"
    BY <1>1, NotAnsweredKeeps
  <1>4. TypeOK'
    BY <1>1, <1>2, <1>3 DEF IInv, TypeOK, Some
  <1>5. CallInv' /\ PairInv' /\ cookie' \in 1..last
    BY <1>1, <1>2, <1>3, OthersWait, FewerCallsKeep
  <1>6. StoredTokenLives'
    BY <1>1, <1>2 DEF IInv, StoredTokenLives, Some, Calls
  <1> QED
    BY <1>1, <1>3, <1>4, <1>5, <1>6 DEF IInv, BrowserInv

\* An answer to nobody goes.
LEMMA DroppedKeeps ==
    ASSUME IInv, NEW i \in Calls, Dropped(i)
    PROVE  IInv'
  <1> USE DEF browser, clocks, server, sessions, history
  <1>1. /\ calls[i].by = None /\ calls' = RemoveAt(calls, i)
        /\ UNCHANGED <<token, cookie, page, isOpen, req, alive, last, expired, seen, up, over, events,
                       closed, unheard>>
    BY DEF Dropped
  <1>2. PICK p : /\ Some(calls', p) /\ \A j \in Calls' : p[j] # i
                 /\ \A k \in Calls : k # i => \E j \in Calls' : p[j] = k
    BY <1>1, RemovedCall DEF IInv, TypeOK, Calls
  <1>3. TypeOK'
    BY <1>1, <1>2 DEF IInv, TypeOK, Some
  <1>4. CallInv' /\ PairInv' /\ cookie' \in 1..last
    BY <1>1, <1>2, OthersWait, FewerCallsKeep
  <1>5. StoredTokenLives'
    BY <1>1, <1>2 DEF IInv, StoredTokenLives, Some, Calls
  <1>6. OneRefreshPerTab' /\ BrowserInv'
    BY <1>1 DEF IInv, OneRefreshPerTab, Queue, OfTab, BrowserInv
  <1> QED
    BY <1>3, <1>4, <1>5, <1>6 DEF IInv

\* The answer lost is of a call nobody waits for any more, and its request tries
\* again or gives up.
LEMMA LoseAnswerKeeps ==
    ASSUME IInv, NEW i \in Calls, LoseAnswer(i)
    PROVE  IInv'
  <1> USE DEF browser, clocks, server, sessions, history
  <1> DEFINE r == calls[i].by
             c == [calls[i] EXCEPT !.by = None]
  <1>0. /\ calls[i] \in Call /\ r \in Req /\ req[r].st = "refreshing"
        /\ c \in Call /\ c.by = None /\ c.old = calls[i].old /\ c.new = calls[i].new /\ c.st = calls[i].st
    <2>1. calls[i] \in Call
      BY CallType DEF IInv
    <2> QED
      BY <2>1 DEF LoseAnswer, IInv, CallInv, Call
  <1>1. /\ RefreshNotAnswered(r) /\ calls' = [calls EXCEPT ![i] = c]
        /\ UNCHANGED <<token, cookie, page, alive, last, expired, seen, up, over, closed>>
        /\ unheard' = IF calls[i].st = "ok" THEN unheard \cup {calls[i].old} ELSE unheard
    BY DEF LoseAnswer, RefreshNotAnswered
  <1>2. /\ calls' \in Seq(Call) /\ Calls' = Calls
        /\ \A j \in Calls : calls'[j] = IF j = i THEN c ELSE calls[j]
    BY <1>0, <1>1, ChangedCall DEF IInv, TypeOK, Calls
  <1>3. /\ req' \in [Req -> Request] /\ \A s \in Req : req'[s].tries <= Retries
        /\ isOpen' \in [Tab -> BOOLEAN]
        /\ OneRefreshPerTab'
        /\ \A s \in Req : s # r /\ req[s].st = "refreshing" => req'[s].st = "refreshing"
    BY <1>0, <1>1, NotAnsweredKeeps
  <1>4. TypeOK'
    <2>1. events' \in 0..MaxEvents
      BY CountedType DEF LoseAnswer, IInv
    <2>2. unheard' \subseteq 1..last
      BY <1>0, <1>1 DEF IInv, TypeOK, CallInv, Call
    <2> QED
      BY <1>1, <1>2, <1>3, <2>1, <2>2 DEF IInv, TypeOK
  <1>5. CallInv'
    <2>1. ASSUME NEW j \in Calls, j # i, calls[j].by # None
          PROVE  req'[calls[j].by].st = "refreshing"
      <3>1. calls[j].by \in Req /\ calls[j].by # r /\ req[calls[j].by].st = "refreshing"
        BY <2>1, CallType DEF IInv, CallInv, PairInv, Call
      <3> QED
        BY <1>3, <3>1
    <2> QED
      BY <1>0, <1>1, <1>2, <2>1 DEF IInv, CallInv, Made
  <1>6. PairInv'
    <2>1. \A j \in Calls : /\ calls'[j].new = calls[j].new /\ calls'[j].old = calls[j].old
                          /\ calls'[j].by \in {None, calls[j].by}
      BY <1>0, <1>2
    <2> QED
      BY <1>2, <2>1 DEF IInv, PairInv
  <1>7. StoredTokenLives'
    BY <1>0, <1>1, <1>2 DEF IInv, StoredTokenLives, Calls
  <1> QED
    BY <1>1, <1>3, <1>4, <1>5, <1>6, <1>7 DEF IInv, BrowserInv

-----------------------------------------------------------------------------
(* A page is left. *)

\* Of those calls of the page that go on, nobody waits for one.
LEMMA LeaveKeeps ==
    ASSUME IInv, NEW t \in Tab, NEW cs, NEW p, Some(cs, p), Leave(t, cs),
           UNCHANGED sessions, closed' = closed,
           \A j \in DOMAIN cs : cs[j].by # None => req[cs[j].by].st = "refreshing"
    PROVE  /\ req' \in [Req -> Request] /\ \A s \in Req : req'[s].tries <= Retries
           /\ isOpen' \in [Tab -> BOOLEAN] /\ calls' \in Seq(Call)
           /\ cookie' \in 1..last /\ unheard' \subseteq 1..last
           /\ CallInv' /\ PairInv' /\ OneRefreshPerTab'
           /\ Calls' = DOMAIN cs
           /\ \A j \in Calls' : calls'[j] = IF cs[j].by \in OfTab(t) THEN [cs[j] EXCEPT !.by = None] ELSE cs[j]
  <1> USE DEF sessions
  <1> DEFINE Mine == {j \in DOMAIN cs : cs[j].by \in OfTab(t)}
             Done == {j \in Mine : cs[j].st = "ok"}
  <1>0. /\ \A j \in DOMAIN cs : p[j] \in Calls /\ cs[j] = calls[p[j]] /\ cs[j] \in Call
        /\ \A j, k \in DOMAIN cs : p[j] = p[k] => j = k
    BY CallType DEF IInv, Some
  <1>1. /\ Calls' = DOMAIN cs
        /\ \A j \in DOMAIN cs : calls'[j] = IF j \in Mine THEN [cs[j] EXCEPT !.by = None] ELSE cs[j]
        /\ cookie' \in {cookie} \cup {cs[j].new : j \in Done}
        /\ unheard' = unheard \cup {cs[j].old : j \in Done}
    BY DEF Leave, Calls
  <1>2. \A j \in DOMAIN cs : /\ calls'[j] \in Call
                             /\ calls'[j].new = cs[j].new /\ calls'[j].old = cs[j].old
                             /\ calls'[j].st = cs[j].st
                             /\ calls'[j].by = IF j \in Mine THEN None ELSE cs[j].by
    <2> HIDE DEF Mine
    <2>1. ASSUME NEW j \in DOMAIN cs
          PROVE  LET d == [cs[j] EXCEPT !.by = None]
                 IN  /\ d \in Call /\ d.by = None /\ d.new = cs[j].new
                     /\ d.old = cs[j].old /\ d.st = cs[j].st
      BY <1>0 DEF Call
    <2> QED
      BY <1>0, <1>1, <2>1
  <1>3. calls' \in Seq(Call)
    <2>1. Len(cs) \in Nat /\ DOMAIN cs = 1..Len(cs)
      BY LenProperties DEF Some
    <2>2. calls' \in [1..Len(cs) -> Call]
      BY <1>2, <2>1 DEF Leave
    <2> QED
      BY <2>1, <2>2, SeqDef
  <1>4. /\ req' \in [Req -> Request] /\ \A s \in Req : req'[s].tries <= Retries
        /\ isOpen' \in [Tab -> BOOLEAN]
    <2>1. \A s \in Req : req'[s] \in Request /\ req'[s].tries <= Retries
      BY AtType, SessionAssumption DEF Leave, Places, IInv, TypeOK
    <2> QED
      BY <2>1 DEF Leave, IInv, TypeOK
  <1>5. unheard' \subseteq 1..last
    BY <1>0, <1>1 DEF IInv, CallInv, TypeOK
  <1>6. cookie' \in 1..last
    BY <1>0, <1>1 DEF IInv, CallInv, BrowserInv, Made, TypeOK
  <1>7. ASSUME NEW j \in DOMAIN cs, j \notin Mine, cs[j].by # None
        PROVE  /\ req'[cs[j].by].st = "refreshing"
               /\ cs[j].new # cookie'
    <2>1. cs[j].by \in Req /\ cs[j].by \notin OfTab(t)
      BY <1>0, <1>7 DEF Call
    <2>2. req'[cs[j].by] = req[cs[j].by]
      BY <2>1 DEF Leave
    <2>3. cs[j].new # cookie
      BY <1>0, <1>7 DEF IInv, CallInv
    <2>4. ASSUME NEW k \in Done
          PROVE  cs[j].new # cs[k].new
      <3>1. cs[k].new # 0 /\ p[k] # p[j]
        BY <1>0, <1>7, <2>4 DEF IInv, CallInv, Made
      <3> QED
        BY <1>0, <3>1 DEF IInv, PairInv
    <2> QED
      BY <1>1, <1>7, <2>2, <2>3, <2>4
  <1>8. CallInv'
    <2>1. ASSUME NEW j \in DOMAIN cs
          PROVE  (/\ calls[j].old \in 0..last /\ calls[j].new \in 0..last
                  /\ calls[j].st \in {"asked", "verified", "created", "ok"} => calls[j].old # 0
                  /\ Made(calls[j]) <=> calls[j].new # 0
                  /\ calls[j].by # None =>
                        /\ req[calls[j].by].st = "refreshing"
                        /\ calls[j].new # cookie
                        /\ calls[j].new # 0 => calls[j].new \in alive \cup closed)'
      BY <1>0, <1>2, <1>7 DEF IInv, CallInv, Made
    <2> QED
      BY <1>1, <2>1 DEF CallInv
  <1>9. PairInv'
    BY <1>0, <1>1, <1>2 DEF IInv, PairInv
  <1>10. OneRefreshPerTab'
    <2>1. isOpen' = [isOpen EXCEPT ![t] = FALSE]
      BY DEF Leave
    <2>2. \A s \in Req : IF s \in OfTab(t) THEN req'[s].st \in {"new", "settled", "gone"}
                                           ELSE req'[s] = req[s]
      BY AtType DEF Leave, Places
    <2>3. /\ {q \in OfTab(t) : req'[q].st = "refreshing"} = {}
          /\ Queue(t)' = {} /\ ~isOpen'[t]
      BY <2>1, <2>2 DEF Queue, OfTab, IInv, TypeOK
    <2>4. ASSUME NEW u \in Tab \ {t}
          PROVE  /\ {q \in OfTab(u) : req'[q].st = "refreshing"} = {q \in OfTab(u) : req[q].st = "refreshing"}
                 /\ Queue(u)' = Queue(u)
                 /\ isOpen'[u] = isOpen[u]
      BY <2>1, <2>2 DEF Queue, OfTab, IInv, TypeOK
    <2> QED
      BY <2>3, <2>4 DEF IInv, OneRefreshPerTab, OfTab
  <1> QED
    BY <1>1, <1>3, <1>4, <1>5, <1>6, <1>8, <1>9, <1>10

\* A reload: what it leaves unheard may have replaced the token.
LEMMA ReloadKeeps ==
    ASSUME IInv, NEW t \in Tab, Reload(t)
    PROVE  IInv'
  <1> USE DEF browser, clocks, server, sessions, history
  <1> DEFINE p == [j \in Calls |-> j]
  <1>1. Some(calls, p)
    BY DEF Some, IInv, TypeOK, Calls
  <1>2. \A j \in DOMAIN calls : calls[j].by # None => req[calls[j].by].st = "refreshing"
    BY DEF IInv, CallInv, Calls
  <1> HIDE DEF p
  <1>3. /\ Leave(t, calls)
        /\ UNCHANGED <<token, page, alive, last, expired, seen, up, over, closed>>
        /\ events' \in 0..MaxEvents
    BY CountedType DEF Reload, IInv
  <1>4. /\ req' \in [Req -> Request] /\ \A s \in Req : req'[s].tries <= Retries
        /\ isOpen' \in [Tab -> BOOLEAN] /\ calls' \in Seq(Call)
        /\ cookie' \in 1..last /\ unheard' \subseteq 1..last
        /\ CallInv' /\ PairInv' /\ OneRefreshPerTab'
        /\ Calls' = DOMAIN calls
        /\ \A j \in Calls' : calls'[j] = IF calls[j].by \in OfTab(t) THEN [calls[j] EXCEPT !.by = None] ELSE calls[j]
    BY <1>1, <1>2, <1>3, LeaveKeeps
  <1>5. TypeOK' /\ BrowserInv'
    BY <1>3, <1>4 DEF IInv, TypeOK, BrowserInv
  <1>6. StoredTokenLives'
    <2>1. ASSUME NEW i \in DOMAIN calls, calls[i].by # None, calls[i].st = "ok", calls[i].old = token
          PROVE  StoredTokenLives'
      <3>1. CASE calls[i].by \in OfTab(t)
        <4>1. token \in unheard'
          BY <1>3, <2>1, <3>1 DEF Leave
        <4> QED
          BY <1>3, <4>1 DEF StoredTokenLives
      <3>2. CASE calls[i].by \notin OfTab(t)
        <4>1. i \in DOMAIN calls' /\ calls'[i] = calls[i]
          BY <1>4, <3>2 DEF Calls
        <4> QED
          BY <1>3, <2>1, <4>1 DEF StoredTokenLives
      <3> QED
        BY <3>1, <3>2
    <2>2. CASE token = 0 \/ token \in alive \cup closed \cup unheard
      BY <1>3, <2>2 DEF StoredTokenLives, Leave
    <2> QED
      BY <2>1, <2>2 DEF IInv, StoredTokenLives
  <1> QED
    BY <1>4, <1>5, <1>6 DEF IInv

\* The session is over: the page is left, or goes on without a token.
LEMMA RefreshOverKeeps ==
    ASSUME IInv, NEW i \in Calls, RefreshOver(i)
    PROVE  IInv'
  <1> USE DEF browser, clocks, server, sessions, history
  <1> DEFINE r == calls[i].by
             t == TabOf[r]
             R == Queue(t) \cup {r}
             cs == RemoveAt(calls, i)
  <1>1. /\ r \in Req /\ req[r].st = "refreshing" /\ t \in Tab
        /\ UNCHANGED <<alive, last, expired, seen, up, over, events, closed>>
        /\ token' = 0
    BY CallType, SessionAssumption DEF RefreshOver, RedirectToSignIn, IInv, CallInv, Call
  <1>2. PICK p : Some(cs, p) /\ \A j \in DOMAIN cs : p[j] # i
    BY RemovedCall DEF IInv, TypeOK, Calls
  <1>3. CASE AtSignIn(t)
    <2>1. /\ req' = WithoutRefresh(R) /\ isOpen' = [isOpen EXCEPT ![t] = FALSE] /\ calls' = cs
          /\ UNCHANGED <<cookie, page, unheard>>
      BY <1>3 DEF RefreshOver, RedirectToSignIn
    <2>2. \A s \in Req : IF s \in R
                         THEN /\ req'[s] \in Request /\ req'[s].tries = 0
                              /\ req'[s].st \in {"sent", "settled"}
                         ELSE req'[s] = req[s]
      BY <2>1, AtType DEF WithoutRefresh, Places
    <2>3. TypeOK'
      <3>1. req' \in [Req -> Request] /\ \A s \in Req : req'[s].tries <= Retries
        BY <2>1, <2>2, SessionAssumption DEF IInv, TypeOK, WithoutRefresh
      <3>2. calls' \in Seq(Call) /\ isOpen' \in [Tab -> BOOLEAN]
        BY <1>2, <2>1 DEF Some, IInv, TypeOK
      <3>3. {token', cookie', last'} \subseteq Nat /\ page' = page
        BY <1>1, <2>1 DEF IInv, TypeOK
      <3>4. {alive', expired', seen', closed', unheard'} \subseteq SUBSET (1..last')
        BY <1>1, <2>1 DEF IInv, TypeOK
      <3> HIDE DEF cs
      <3> QED
        BY <1>1, <3>1, <3>2, <3>3, <3>4 DEF IInv, TypeOK
    <2>4. CallInv' /\ PairInv'
      <3>1. \A s \in Req : s # r /\ req[s].st = "refreshing" => req'[s].st = "refreshing"
        BY <2>2 DEF Queue
      <3>2. Some(calls', p) /\ \A j \in Calls' : p[j] # i
        BY <1>2, <2>1 DEF Calls
      <3> QED
        BY <1>1, <2>1, <3>1, <3>2, OthersWait, FewerCallsKeep
    <2>5. OneRefreshPerTab'
      BY <1>1, <2>1, <2>2, ClosedKeeps
    <2>6. BrowserInv' /\ StoredTokenLives'
      BY <1>1, <2>1 DEF IInv, BrowserInv, StoredTokenLives, TypeOK
    <2> QED
      BY <2>3, <2>4, <2>5, <2>6 DEF IInv
  <1>4. CASE ~AtSignIn(t)
    <2>1. page' = [page EXCEPT ![t] = "signedOut"] /\ Leave(t, cs)
      BY <1>4 DEF RefreshOver, RedirectToSignIn
    <2>2. \A j \in DOMAIN cs : cs[j].by # None => req[cs[j].by].st = "refreshing"
      BY <1>2 DEF Some, IInv, CallInv
    <2>3. /\ req' \in [Req -> Request] /\ \A s \in Req : req'[s].tries <= Retries
          /\ isOpen' \in [Tab -> BOOLEAN] /\ calls' \in Seq(Call)
          /\ cookie' \in 1..last /\ unheard' \subseteq 1..last
          /\ CallInv' /\ PairInv' /\ OneRefreshPerTab'
      BY <1>1, <1>2, <2>1, <2>2, LeaveKeeps
    <2>4. page' \in [Tab -> {"dashboard", "signedOut", "loggedOut"}]
      BY <2>1 DEF IInv, TypeOK
    <2>5. {token', cookie', last'} \subseteq Nat
      BY <1>1, <2>3 DEF IInv, TypeOK
    <2>6. TypeOK'
      BY <1>1, <2>3, <2>4, <2>5 DEF IInv, TypeOK
    <2>7. BrowserInv' /\ StoredTokenLives'
      BY <1>1, <2>3 DEF IInv, TypeOK, BrowserInv, StoredTokenLives
    <2> QED
      BY <2>3, <2>6, <2>7 DEF IInv
  <1> QED
    BY <1>3, <1>4

\* A request is answered that its session is over: the same, for its page.
LEMMA ReceiveInvalidKeeps ==
    ASSUME IInv, NEW r \in Req, ReceiveInvalid(r)
    PROVE  IInv'
  <1> USE DEF browser, clocks, server, sessions, history
  <1> DEFINE t == TabOf[r]
  <1>1. /\ req[r].st = "answered" /\ t \in Tab
        /\ UNCHANGED <<alive, last, expired, seen, up, over, events, closed>>
        /\ token' = 0
    BY SessionAssumption DEF ReceiveInvalid, RedirectToSignIn
  <1>2. CASE AtSignIn(t)
    <2>1. /\ req' = [req EXCEPT ![r] = At("settled")]
          /\ UNCHANGED <<isOpen, calls, cookie, page, unheard>>
      BY <1>2 DEF ReceiveInvalid, RedirectToSignIn
    <2>2. TypeOK'
      <3>1. req' \in [Req -> Request] /\ \A s \in Req : req'[s].tries <= Retries
        BY <2>1, AtType, PutType DEF IInv, Places
      <3> QED
        BY <1>1, <2>1, <3>1 DEF IInv, TypeOK
    <2>3. CallInv' /\ PairInv' /\ OneRefreshPerTab'
      <3>1. \A s \in Req : /\ req'[s].st = "refreshing" <=> req[s].st = "refreshing"
                           /\ req'[s].st = "queued" => req[s].st = "queued"
        BY <1>1, <2>1, AtType, RequestKeeps DEF Places
      <3>2. last' \in Nat /\ last <= last'
        BY <1>1 DEF IInv, TypeOK
      <3> QED
        BY <1>1, <2>1, <3>1, <3>2, SteadyKeeps
    <2>4. BrowserInv' /\ StoredTokenLives'
      BY <1>1, <2>1 DEF IInv, BrowserInv, StoredTokenLives, TypeOK
    <2> QED
      BY <2>2, <2>3, <2>4 DEF IInv
  <1>3. CASE ~AtSignIn(t)
    <2> DEFINE p == [j \in Calls |-> j]
    <2>1. Some(calls, p)
      BY DEF Some, IInv, TypeOK, Calls
    <2>2. \A j \in DOMAIN calls : calls[j].by # None => req[calls[j].by].st = "refreshing"
      BY DEF IInv, CallInv, Calls
    <2> HIDE DEF p
    <2>3. page' = [page EXCEPT ![t] = "signedOut"] /\ Leave(t, calls)
      BY <1>3 DEF ReceiveInvalid, RedirectToSignIn
    <2>4. /\ req' \in [Req -> Request] /\ \A s \in Req : req'[s].tries <= Retries
          /\ isOpen' \in [Tab -> BOOLEAN] /\ calls' \in Seq(Call)
          /\ cookie' \in 1..last /\ unheard' \subseteq 1..last
          /\ CallInv' /\ PairInv' /\ OneRefreshPerTab'
      BY <1>1, <2>1, <2>2, <2>3, LeaveKeeps
    <2>5. page' \in [Tab -> {"dashboard", "signedOut", "loggedOut"}]
      BY <2>3 DEF IInv, TypeOK
    <2>6. {token', cookie', last'} \subseteq Nat
      BY <1>1, <2>4 DEF IInv, TypeOK
    <2>7. TypeOK'
      BY <1>1, <2>4, <2>5, <2>6 DEF IInv, TypeOK
    <2>8. BrowserInv' /\ StoredTokenLives'
      BY <1>1, <2>4 DEF IInv, TypeOK, BrowserInv, StoredTokenLives
    <2> QED
      BY <2>4, <2>7, <2>8 DEF IInv
  <1> QED
    BY <1>2, <1>3

-----------------------------------------------------------------------------
(* The refresh, in the server. *)

\* A step of the server leaves the call i as c, which stays whose it is; a session
\* it deletes is the one that c has replaced.
ServerStep(i, c) ==
    /\ c \in Call /\ calls' = [calls EXCEPT ![i] = c]
    /\ UNCHANGED <<browser, isOpen, req, up, clocks, over, closed>>
    /\ events' \in 0..MaxEvents /\ last' \in Nat /\ last <= last'
    /\ alive' \subseteq 1..last' /\ unheard' \subseteq 1..last' /\ unheard \subseteq unheard'
    /\ c.by = calls[i].by /\ calls[i].st \notin {"ok", "over", "transient"}
    /\ c.old \in {0, calls[i].old} /\ c.new \in {0, calls[i].new, last + 1}
    /\ c.new \in 0..last'
    /\ c.st \in {"asked", "verified", "created", "ok"} => c.old # 0
    /\ Made(c) <=> c.new # 0
    /\ c.by # None /\ c.new # 0 => c.new \in alive' \cup closed
    /\ \A s \in alive : \/ s \in alive'
                        \/ /\ s = calls[i].old /\ s = c.old /\ c.st = "ok"
                           /\ c.by = None => s \in unheard'

\* Such a step keeps the invariant, whatever the step.
LEMMA ServerKeeps ==
    ASSUME IInv, NEW i \in Calls, NEW c, ServerStep(i, c)
    PROVE  IInv'
  <1> USE DEF browser, clocks, ServerStep
  <1>0. /\ calls[i] \in Call /\ last \in Nat
        /\ \A j \in Calls : calls[j].old <= last /\ calls[j].new <= last /\ calls[j] \in Call
        /\ cookie \in 1..last
    <2>1. \A j \in Calls : calls[j] \in Call
      BY CallType DEF IInv
    <2>2. \A j \in Calls : calls[j].old <= last /\ calls[j].new <= last
      BY DEF IInv, CallInv
    <2>3. last \in Nat /\ cookie \in 1..last
      BY DEF IInv, TypeOK, BrowserInv
    <2> QED
      BY <2>1, <2>2, <2>3
  <1>1. /\ calls' \in Seq(Call) /\ Calls' = Calls
        /\ \A j \in Calls : calls'[j] = IF j = i THEN c ELSE calls[j]
    BY ChangedCall DEF IInv, TypeOK, Calls
  <1>2. TypeOK'
    <2>1. 1..last \subseteq 1..last'
      BY <1>0
    <2> QED
      BY <1>1, <2>1 DEF IInv, TypeOK
  <1>3. BrowserInv'
    BY DEF IInv, TypeOK, BrowserInv
  <1>4. ASSUME NEW j \in Calls, j # i, calls[j].by # None, calls[j].new # 0
        PROVE  calls[j].new \in alive' \cup closed
    <2>1. calls[j].new \in alive \cup closed
      BY <1>4 DEF IInv, CallInv
    <2>2. calls[j].new # calls[i].old
      BY <1>4 DEF IInv, PairInv
    <2> QED
      BY <2>1, <2>2
  <1>5. CallInv'
    <2>1. ASSUME NEW j \in Calls, j # i
          PROVE  (/\ calls[j].old \in 0..last /\ calls[j].new \in 0..last
                  /\ calls[j].st \in {"asked", "verified", "created", "ok"} => calls[j].old # 0
                  /\ Made(calls[j]) <=> calls[j].new # 0
                  /\ calls[j].by # None =>
                        /\ req[calls[j].by].st = "refreshing"
                        /\ calls[j].new # cookie
                        /\ calls[j].new # 0 => calls[j].new \in alive \cup closed)'
      BY <1>0, <1>1, <1>4, <2>1 DEF IInv, CallInv, Made
    <2>2. (/\ calls[i].old \in 0..last /\ calls[i].new \in 0..last
           /\ calls[i].st \in {"asked", "verified", "created", "ok"} => calls[i].old # 0
           /\ Made(calls[i]) <=> calls[i].new # 0
           /\ calls[i].by # None =>
                 /\ req[calls[i].by].st = "refreshing"
                 /\ calls[i].new # cookie
                 /\ calls[i].new # 0 => calls[i].new \in alive \cup closed)'
      <3>1. calls'[i] = c
        BY <1>1
      <3>2. c.new # cookie \/ c.by = None
        BY <1>0 DEF IInv, CallInv
      <3>3. c.old \in 0..last'
        BY <1>0 DEF IInv, CallInv
      <3>4. c.by # None => req[c.by].st = "refreshing"
        BY DEF IInv, CallInv
      <3> QED
        BY <3>1, <3>2, <3>3, <3>4 DEF Made
    <2> QED
      BY <1>1, <2>1, <2>2 DEF CallInv
  <1>6. PairInv'
    <2>1. \A j \in Calls : j # i => calls[j].new # last + 1 /\ calls[j].old # last + 1
      BY <1>0
    <2>2. ASSUME NEW j \in Calls, NEW k \in Calls
          PROVE  (/\ j # k /\ calls[j].new = calls[k].new => calls[j].new = 0
                  /\ j # k /\ calls[j].by = calls[k].by => calls[j].by = None
                  /\ calls[j].by # None /\ calls[j].new # 0 => calls[k].old # calls[j].new)'
      <3>1. CASE j = i /\ k = i
        BY <1>0, <1>1, <3>1 DEF IInv, PairInv
      <3>2. CASE j = i /\ k # i
        BY <1>1, <2>1, <3>2 DEF IInv, PairInv
      <3>3. CASE j # i /\ k = i
        BY <1>1, <2>1, <3>3 DEF IInv, PairInv
      <3>4. CASE j # i /\ k # i
        BY <1>1, <3>4 DEF IInv, PairInv
      <3> QED
        BY <3>1, <3>2, <3>3, <3>4
    <2> QED
      BY <1>1, <2>2 DEF PairInv
  <1>7. OneRefreshPerTab'
    BY DEF IInv, OneRefreshPerTab, Queue, OfTab
  <1>8. StoredTokenLives'
    <2>1. CASE token \in alive \ alive'
      <3>1. c.old = token /\ c.st = "ok" /\ (c.by = None => token \in unheard')
        BY <2>1
      <3> QED
        BY <1>1, <3>1 DEF StoredTokenLives, Calls
    <2>2. ASSUME NEW j \in Calls, calls[j].by # None, calls[j].st = "ok", calls[j].old = token
          PROVE  StoredTokenLives'
      BY <1>1, <2>2 DEF StoredTokenLives, Calls
    <2>3. CASE token = 0 \/ token \in alive' \cup closed \cup unheard
      BY <2>3 DEF StoredTokenLives
    <2> QED
      BY <2>1, <2>2, <2>3 DEF IInv, StoredTokenLives, Calls
  <1> QED
    BY <1>2, <1>3, <1>5, <1>6, <1>7, <1>8 DEF IInv

\* The server asks nothing of a session but that it is there, makes the new one
\* before it deletes the old, and its failures leave the old one.
LEMMA HandleRefreshKeeps ==
    ASSUME IInv, NEW i \in Calls, HandleRefresh(i)
    PROVE  IInv'
  <1> USE DEF browser, clocks, server, sessions, history
  <1> DEFINE by == calls[i].by
  <1>0. /\ calls[i] \in Call /\ last \in Nat /\ alive \subseteq 1..last /\ unheard \subseteq 1..last
        /\ 1..last \subseteq 1..(last + 1)
        /\ calls[i].old \in 0..last /\ calls[i].new \in 0..last
        /\ events \in 0..MaxEvents
    BY CallType DEF IInv, TypeOK, CallInv
  <1>1. UNCHANGED <<browser, isOpen, req, up, clocks, over, closed, events>>
    BY DEF HandleRefresh
  <1>2. ASSUME NEW st \in {"over", "transient"}, Refuse(i, st), calls[i].st \in {"asked", "verified"},
               UNCHANGED <<alive, last, unheard>>
        PROVE  IInv'
    <2> DEFINE c == [by |-> by, old |-> 0, new |-> 0, st |-> st]
    <2>1. c \in Call /\ calls' = [calls EXCEPT ![i] = c]
      BY <1>0, <1>2 DEF Refuse, Call
    <2>2. /\ c.by = by /\ c.old = 0 /\ c.new = 0 /\ c.st = st
      OBVIOUS
    <2> HIDE DEF c
    <2>3. ServerStep(i, c)
      BY <1>0, <1>1, <1>2, <2>1, <2>2 DEF ServerStep, Made
    <2> QED
      BY <2>3, ServerKeeps
  <1>3. CASE NotReached(i)
    BY <1>2, <1>3 DEF NotReached
  <1>4. CASE Verify(i)
    <2>1. CASE calls[i].old \in alive
      <3> DEFINE c == [calls[i] EXCEPT !.st = "verified"]
      <3>1. /\ c \in Call /\ calls' = [calls EXCEPT ![i] = c]
            /\ c.by = by /\ c.old = calls[i].old /\ c.new = calls[i].new /\ c.st = "verified"
        BY <1>0, <1>4, <2>1 DEF Verify, CallAt, Call
      <3>2. c.old # 0 /\ c.new = 0 /\ calls[i].st = "asked"
        BY <1>0, <1>4, <2>1, <3>1 DEF Verify, IInv, CallInv, Made
      <3> HIDE DEF c
      <3>3. UNCHANGED <<alive, last, unheard>>
        BY <1>4 DEF Verify
      <3>4. c.new \in {0, calls[i].new, last + 1} /\ ~Made(c)
        BY <3>1 DEF Made
      <3>5. ServerStep(i, c)
        BY <1>0, <1>1, <3>1, <3>2, <3>3, <3>4 DEF ServerStep
      <3> QED
        BY <3>5, ServerKeeps
    <2>2. CASE calls[i].old \notin alive
      BY <1>2, <1>4, <2>2 DEF Verify
    <2> QED
      BY <2>1, <2>2
  <1>5. CASE CreateSession(i)
    <2> DEFINE c == [calls[i] EXCEPT !.st = "created", !.new = last + 1]
    <2>0. calls' = [calls EXCEPT ![i] = c]
      BY <1>5 DEF CreateSession
    <2>1. /\ c \in Call /\ calls' = [calls EXCEPT ![i] = c]
          /\ c.by = by /\ c.old = calls[i].old /\ c.new = last + 1 /\ c.st = "created"
      <3>1. last + 1 \in Nat
        BY <1>0
      <3> QED
        BY <1>0, <2>0, <3>1 DEF Call
    <2>2. c.old # 0 /\ calls[i].st = "verified"
      BY <1>5, <2>1 DEF CreateSession, IInv, CallInv
    <2>3. /\ last' = last + 1 /\ alive' = alive \cup {last + 1} /\ unheard' = unheard
      BY <1>5 DEF CreateSession, StoreSession
    <2> HIDE DEF c
    <2>4. ServerStep(i, c)
      BY <1>0, <1>1, <2>1, <2>2, <2>3 DEF ServerStep, Made
    <2> QED
      BY <2>4, ServerKeeps
  <1>6. CASE RefuseSession(i)
    BY <1>2, <1>6 DEF RefuseSession
  <1>7. CASE InvalidateOld(i)
    <2> DEFINE c == [calls[i] EXCEPT !.st = "ok"]
    <2>1. /\ c \in Call /\ calls' = [calls EXCEPT ![i] = c]
          /\ c.by = by /\ c.old = calls[i].old /\ c.new = calls[i].new /\ c.st = "ok"
      BY <1>0, <1>7 DEF InvalidateOld, CallAt, Call
    <2>2. /\ c.old # 0 /\ c.new # 0 /\ calls[i].st = "created"
      BY <1>7, <2>1 DEF InvalidateOld, IInv, CallInv, Made
    <2>3. /\ last' = last /\ alive' = alive \ {c.old}
          /\ unheard' = IF c.by = None THEN unheard \cup {c.old} ELSE unheard
      BY <1>7, <2>1 DEF InvalidateOld
    <2>4. c.by # None => c.new \in alive' \cup closed
      BY <1>7, <2>1, <2>2, <2>3 DEF IInv, CallInv, PairInv
    <2>5. c.old \in 1..last
      BY <1>0, <2>1, <2>2
    <2> HIDE DEF c
    <2>6. Made(c) /\ c.new \in 0..last'
      BY <1>0, <2>1, <2>3 DEF Made
    <2>7. /\ last' \in Nat /\ last <= last' /\ alive' \subseteq 1..last' /\ unheard' \subseteq 1..last'
          /\ unheard \subseteq unheard'
      <3>1. unheard' \in {unheard, unheard \cup {c.old}}
        BY <2>3
      <3>2. alive' \subseteq alive /\ last' = last
        BY <2>3
      <3> QED
        BY <1>0, <2>5, <3>1, <3>2
    <2>8. \A s \in alive : s \in alive' \/ (s = c.old /\ (c.by = None => s \in unheard'))
      BY <2>3
    <2>9. ServerStep(i, c)
      BY <1>0, <1>1, <2>1, <2>2, <2>4, <2>6, <2>7, <2>8 DEF ServerStep
    <2> QED
      BY <2>9, ServerKeeps
  <1> QED
    BY <1>3, <1>4, <1>5, <1>6, <1>7 DEF HandleRefresh, RefreshSession

\* A step of the server that fails may leave a session more, and deletes none.
LEMMA HandleFailsKeeps ==
    ASSUME IInv, NEW i \in Calls, HandleFails(i)
    PROVE  IInv'
  <1> USE DEF browser, clocks, server, sessions, history
  <1>0. /\ calls[i] \in Call /\ last \in Nat /\ alive \subseteq 1..last /\ unheard \subseteq 1..last
        /\ 1..last \subseteq 1..(last + 1)
        /\ events' \in 0..MaxEvents
    BY CallType, CountedType DEF HandleFails, IInv, TypeOK
  <1>1. UNCHANGED <<browser, isOpen, req, up, clocks, over, closed, unheard>>
    BY DEF HandleFails
  <1>2. PICK st \in {"over", "transient"} : Refuse(i, st)
    BY DEF HandleFails
  <1>3. /\ calls[i].st \in {"asked", "verified", "created"}
        /\ \/ UNCHANGED <<alive, last>>
           \/ last' = last + 1 /\ alive' = alive \cup {last + 1}
    BY DEF HandleFails, StoreSession
  <1> DEFINE c == [by |-> calls[i].by, old |-> 0, new |-> 0, st |-> st]
  <1>4. /\ c \in Call /\ calls' = [calls EXCEPT ![i] = c]
        /\ c.by = calls[i].by /\ c.old = 0 /\ c.new = 0 /\ c.st = st
    BY <1>0, <1>2 DEF Refuse, Call
  <1> HIDE DEF c
  <1>5. ~Made(c) /\ c.st \notin {"asked", "verified", "created", "ok"}
    BY <1>4 DEF Made
  <1>6. /\ last' \in Nat /\ last <= last' /\ alive' \subseteq 1..last' /\ unheard' \subseteq 1..last'
        /\ alive \subseteq alive' /\ 0 \in 0..last'
    <2>1. CASE UNCHANGED <<alive, last>>
      BY <1>0, <1>1, <2>1
    <2>2. CASE last' = last + 1 /\ alive' = alive \cup {last + 1}
      BY <1>0, <1>1, <2>2
    <2> QED
      BY <1>3, <2>1, <2>2
  <1>7. ServerStep(i, c)
    BY <1>0, <1>1, <1>3, <1>4, <1>5, <1>6 DEF ServerStep
  <1> QED
    BY <1>7, ServerKeeps

-----------------------------------------------------------------------------
LEMMA InitIInv ==
    Init => IInv
  <1> SUFFICES ASSUME Init PROVE IInv
    OBVIOUS
  <1>1. calls \in Seq(Call) /\ Calls = {}
    BY EmptySeq, LenProperties DEF Init, Calls
  <1>2. TypeOK
    <2>1. req \in [Req -> Request] /\ \A r \in Req : req[r].tries <= Retries
      BY AtType, SessionAssumption DEF Init, Places
    <2>2. /\ {token, cookie, last} \subseteq Nat
          /\ {alive, expired, seen, closed, unheard} \subseteq SUBSET (1..last)
          /\ events \in 0..MaxEvents
      BY SessionAssumption DEF Init
    <2> QED
      BY <1>1, <2>1, <2>2 DEF Init, TypeOK
  <1>3. BrowserInv /\ CallInv /\ PairInv
    BY <1>1 DEF Init, BrowserInv, CallInv, PairInv
  <1>4. OneRefreshPerTab
    BY AtType DEF Init, OneRefreshPerTab, Queue, OfTab, Places
  <1>5. StoredTokenLives
    BY DEF Init, StoredTokenLives
  <1> QED
    BY <1>2, <1>3, <1>4, <1>5 DEF IInv

\* Every step keeps the invariant.
LEMMA StepIInv ==
    IInv /\ [Next]_vars => IInv'
  <1> SUFFICES ASSUME IInv, [Next]_vars PROVE IInv'
    OBVIOUS
  <1>1. ASSUME NEW r \in Req, Send(r) \/ RequestStep(r) \/ ServeFails(r)
        PROVE  IInv'
    BY <1>1, SendKeeps, ServeKeeps, ReceiveAnswerKeeps, ReceiveInvalidKeeps, ReceiveExpiredKeeps,
       RetryRefreshKeeps DEF RequestStep, Receive
  <1>2. ASSUME NEW i \in Calls,
               \/ HandleRefresh(i) \/ RefreshAnswered(i) \/ Dropped(i)
               \/ HandleFails(i) \/ LoseAnswer(i)
        PROVE  IInv'
    BY <1>2, HandleRefreshKeeps, RefreshOkKeeps, RefreshOverKeeps, RefreshTransientKeeps, DroppedKeeps,
       HandleFailsKeeps, LoseAnswerKeeps DEF RefreshAnswered
  <1>3. ASSUME NEW t \in Tab, SignIn(t) \/ Reload(t)
        PROVE  IInv'
    BY <1>3, SignInKeeps, ReloadKeeps
  <1>4. CASE Outage \/ TokenExpires \/ EndSessions
    BY <1>4, WorldKeeps
  <1>5. CASE UNCHANGED vars
    <2> USE DEF vars, browser, server, sessions, clocks, history
    <2>1. TypeOK' /\ BrowserInv'
      BY <1>5 DEF IInv, TypeOK, BrowserInv
    <2>2. CallInv' /\ PairInv'
      BY <1>5 DEF IInv, CallInv, PairInv, Calls
    <2>3. OneRefreshPerTab' /\ StoredTokenLives'
      BY <1>5 DEF IInv, OneRefreshPerTab, Queue, OfTab, StoredTokenLives
    <2> QED
      BY <2>1, <2>2, <2>3 DEF IInv
  <1> QED
    BY <1>1, <1>2, <1>3, <1>4, <1>5 DEF Next, CallStep, Fault, Calls

\* The invariant holds throughout: of every tab, call and session, however the
\* steps interleave and fail.
THEOREM Invariance == Spec => []IInv
  BY InitIInv, StepIInv, PTL DEF Spec

\* Every variable keeps to its type: no session is known that was not made.
THEOREM TypeCorrect == Spec => []TypeOK
  <1>1. IInv => TypeOK
    BY DEF IInv
  <1> QED
    BY <1>1, Invariance, PTL

\* Each tab runs one refresh at most, and keeps a request waiting only for one
\* that runs (refresh.queue.ts): whoever opened the queue closes it.
THEOREM OneRefresh == Spec => []OneRefreshPerTab
  <1>1. IInv => OneRefreshPerTab
    BY DEF IInv
  <1> QED
    BY <1>1, Invariance, PTL

\* The stored token's session is there, or was ended on purpose, or replaced in
\* an answer on its way or lost (refresh.go: the old session is deleted last).
THEOREM TokenLives == Spec => []StoredTokenLives
  <1>1. IInv => StoredTokenLives
    BY DEF IInv
  <1> QED
    BY <1>1, Invariance, PTL
=============================================================================
