------------------------- MODULE AuthSessionProofs -------------------------
(***************************************************************************)
(* Proofs about AuthSession, for any set of tabs, any number of logins,    *)
(* failures, reloads and abandoned requests, with and without Web Locks.   *)
(*                                                                         *)
(* Why a refresh never costs the session: the lock leaves one refresh      *)
(* exchange under way in the whole browser (LockInv and ExchangeInv), the  *)
(* cookie is attached when its request leaves, and the cookie of its       *)
(* answer is stored before the lock is released (Fresh).  A rotation makes *)
(* every copy of the token older, and the only copies are the request that *)
(* was served and the jar, which the answer replaces.  The token of a      *)
(* sign-in has to be nowhere else until its answer arrives (LoginInv), or  *)
(* it could age on the way.  What breaks the argument is a request whose   *)
(* client is gone, which is what astray records.                           *)
(*                                                                         *)
(* The actions do only a few things to the exchanges: the forms of a step  *)
(* (Step) say which, the actions are unfolded once to show that each has   *)
(* one of them, and each part of the invariant is shown to survive each    *)
(* form.                                                                   *)
(***************************************************************************)
EXTENDS AuthSession, TLAPS

-----------------------------------------------------------------------------
(* The inductive invariant.                                                *)

\* A refresh that a page waits for: on its way to the server, or answered.
RefreshAsked(m)  == m.kind = "refresh" /\ m.live
RefreshAnswer(a) == a.kind = "refresh"

\* A token is that of a session the server has created.
Known(token) == IF token.sid = NoSid THEN token = NoToken
                ELSE sess[token.sid].status # "unused"

\* Only a sign-in and an accepted refresh bring a token.
TokenInv ==
    /\ Known(jar)
    /\ \A m \in requests : Known(m.token)
    /\ \A a \in answers :
         /\ Known(a.cookie)
         /\ a.cookie.sid # NoSid =>
              a.set /\ a.status = "ok" /\ a.kind \in {"refresh", "login"}

\* A tab that waits for a refresh has one exchange under way, a tab that does
\* not has none.
ExchangeInv ==
    /\ \A m \in requests : RefreshAsked(m) => runner[m.from].pc = "http"
    /\ \A a \in answers : RefreshAnswer(a) => runner[a.from].pc = "http"
    /\ \A m, n \in requests :
          RefreshAsked(m) /\ RefreshAsked(n) /\ m.from = n.from => m = n
    /\ \A a, b \in answers :
          RefreshAnswer(a) /\ RefreshAnswer(b) /\ a.from = b.from => a = b
    /\ \A m \in requests, a \in answers :
          ~(RefreshAsked(m) /\ RefreshAnswer(a) /\ m.from = a.from)

\* The tab of a refresh that was not superseded shows the session the request
\* named, or none.
TabInv ==
    /\ \A m \in requests : RefreshAsked(m) /\ runner[m.from].current =>
          store[m.from].sid \in {NoSid, m.expected}
    /\ \A a \in answers :
          RefreshAnswer(a) /\ a.status = "ok" /\ runner[a.from].current =>
             store[a.from].sid \in {NoSid, a.sid}

\* With Web Locks, a tab that refreshes is in the queue, and at its head when
\* its request has left.
LockInv ==
    webLocks => \A t \in Tabs :
        /\ runner[t].pc # "off" => \E i \in DOMAIN locks : locks[i] = t
        /\ runner[t].pc = "http" => Head(locks) = t

\* The token of a sign-in whose answer travels is nowhere else in the browser.
LoginInv ==
    \A a \in answers : a.kind = "login" /\ a.cookie.sid # NoSid =>
       /\ jar.sid # a.cookie.sid
       /\ \A m \in requests : m.kind = "refresh" => m.token.sid # a.cookie.sid
       /\ \A b \in answers : b.cookie.sid = a.cookie.sid => b = a

\* An active session none of whose refreshes went astray: every copy of its
\* token that will be presented or stored is the current one, and so is the
\* jar's unless the answer that replaces it is on its way.
Fresh(s) ==
    webLocks /\ sess[s].status = "active" /\ s \notin astray =>
       /\ \A m \in requests : m.kind = "refresh" /\ m.token.sid = s =>
             m.live /\ m.token.age = 0
       /\ jar.sid = s => \/ jar.age = 0
                         \/ \E a \in answers : RefreshAnswer(a) /\ a.cookie.sid = s
       /\ \A a \in answers : a.cookie.sid = s => a.cookie.age = 0

FreshInv == \A s \in Sids : Fresh(s)

IInv == /\ TypeOK /\ TokenInv /\ ExchangeInv /\ TabInv /\ LockInv /\ LoginInv
        /\ FreshInv /\ ActiveSessionsAreNotRefused

-----------------------------------------------------------------------------
(* The pieces the handlers are made of.                                    *)

\* The queue without t: still a queue of tabs, with every other tab in it, and
\* with the same head unless that was t.
LEMMA UnqueuedIs ==
    ASSUME locks \in Seq(Tabs), NEW t \in Tabs
    PROVE  /\ Unqueued(t) \in Seq(Tabs)
           /\ \A u \in Tabs \ {t} :
                 (\E i \in DOMAIN locks : locks[i] = u) =>
                    \E i \in DOMAIN Unqueued(t) : Unqueued(t)[i] = u
           /\ \A u \in Tabs \ {t} :
                 locks # <<>> /\ Head(locks) = u =>
                    Unqueued(t) # <<>> /\ Head(Unqueued(t)) = u
<1>1. CASE \A i \in DOMAIN locks : locks[i] # t
  BY <1>1 DEF Unqueued
<1>2. CASE ~\A i \in DOMAIN locks : locks[i] # t
  <2> DEFINE i == CHOOSE i \in DOMAIN locks : locks[i] = t
             q == [j \in 1 .. Len(locks) - 1 |->
                      locks[IF j < i THEN j ELSE j + 1]]
  <2>1. Unqueued(t) = q
    BY <1>2 DEF Unqueued
  <2>2. i \in 1 .. Len(locks) /\ locks[i] = t
    BY <1>2
  <2> HIDE DEF i
  <2>3. Len(locks) - 1 \in Nat
    BY <2>2
  <2>4. \A j \in 1 .. Len(locks) - 1 : q[j] \in Tabs
    BY <2>2
  <2>5. q \in Seq(Tabs) /\ Len(q) = Len(locks) - 1
    BY <2>3, <2>4
  <2>6. ASSUME NEW u \in Tabs \ {t}, NEW k \in DOMAIN locks, locks[k] = u
        PROVE  \E j \in 1 .. Len(locks) - 1 : q[j] = u
    <3>1. k # i /\ k \in 1 .. Len(locks)
      BY <2>2, <2>6
    <3>2. CASE k < i
      <4>1. k \in 1 .. Len(locks) - 1 /\ q[k] = u
        BY <2>2, <2>6, <3>1, <3>2
      <4> QED BY <4>1
    <3>3. CASE k > i
      <4>1. k - 1 \in 1 .. Len(locks) - 1 /\ q[k - 1] = u
        BY <2>2, <2>6, <3>1, <3>3
      <4> QED BY <4>1
    <3> QED BY <2>2, <3>1, <3>2, <3>3
  <2>7. ASSUME NEW u \in Tabs \ {t}, locks # <<>>, Head(locks) = u
        PROVE  q # <<>> /\ Head(q) = u
    <3>1. locks[1] = u /\ 1 \in DOMAIN locks
      BY <2>7
    <3>2. i > 1 /\ Len(locks) - 1 >= 1
      BY <2>2, <2>7, <3>1
    <3>3. q[1] = u
      BY <2>2, <3>1, <3>2
    <3> HIDE DEF q
    <3> QED BY <2>5, <3>2, <3>3
  <2>8. DOMAIN q = 1 .. Len(locks) - 1
    OBVIOUS
  <2> HIDE DEF q
  <2> QED BY <2>1, <2>5, <2>6, <2>7, <2>8
<1> QED BY <1>1, <1>2

-----------------------------------------------------------------------------
(* Types.                                                                  *)

\* The number that stands for no session is not one of the sessions.
LEMMA SidTypes ==
    /\ 1 \in Sids /\ NoSid \in SomeSid /\ NoSid \notin Sids
    /\ Sids \subseteq SomeSid /\ \A s \in SomeSid : s # NoSid => s \in Sids
BY AuthAssumption DEF Sids, NoSid, SomeSid

\* What the handlers write to the auth store, and the session it shows.
LEMMA StoreTypes ==
    /\ \A x \in {"idle", "checking", "complete"} :
          EmptyStore(x) \in Store /\ EmptyStore(x).sid = NoSid
    /\ \A s \in SomeSid : BundleStore(s) \in Store /\ BundleStore(s).sid = s
    /\ \A x \in Store :
          /\ x.sid \in SomeSid
          /\ \A y \in {"idle", "checking", "complete"} :
                /\ [x EXCEPT !.boot = y] \in Store
                /\ [x EXCEPT !.boot = y].sid = x.sid
          /\ [x EXCEPT !.access = "expired"] \in Store
          /\ [x EXCEPT !.access = "expired"].sid = x.sid
BY SidTypes DEF Store, EmptyStore, BundleStore

\* The states of a refresh, and what supersede, send and retry keep of them.
LEMMA RunnerTypes ==
    /\ Off \in Runner /\ Off.pc = "off" /\ Off.current
    /\ Started \in Runner /\ Started.current
    /\ Started.pc = IF webLocks THEN "queued" ELSE "http"
    /\ \A r \in Runner :
          /\ r.pc \in {"off", "queued", "http"} /\ r.current \in BOOLEAN
          /\ Superseded(r) \in Runner /\ Superseded(r).pc = r.pc
          /\ r.pc # "off" => ~Superseded(r).current
          /\ [r EXCEPT !.pc = "http"] \in Runner
          /\ [r EXCEPT !.pc = "http"].pc = "http"
          /\ [r EXCEPT !.pc = "http"].current = r.current
          /\ [r EXCEPT !.retry = FALSE] \in Runner
          /\ [r EXCEPT !.retry = FALSE].pc = r.pc
          /\ [r EXCEPT !.retry = FALSE].current = r.current
BY DEF Runner, Off, Started, Superseded

\* The states of what the user waits for.
LEMMA OpTypes ==
    /\ NoOp \in Op
    /\ \A k \in {"api", "login", "logout"}, g \in {"sent", "resent"} :
          [NoOp EXCEPT !.kind = k, !.stage = g] \in Op
    /\ \A k \in {"api"}, g \in {"sent", "resent"}, s \in SomeSid :
          [NoOp EXCEPT !.kind = k, !.stage = g, !.bearer = s] \in Op
    /\ \A x \in Op : [x EXCEPT !.stage = "refreshing"] \in Op
    /\ \A x \in Op, y \in Outcomes :
          [x EXCEPT !.stage = "resume", !.outcome = y] \in Op
BY SidTypes DEF Op, NoOp, Outcomes

\* A refresh request is a request.
LEMMA RefreshRequestType ==
    ASSUME TypeOK, NEW t \in Tabs, NEW s \in SomeSid
    PROVE  RefreshRequest(t, s) \in Request
BY SidTypes DEF TypeOK, RefreshRequest, Request

\* refreshAuthentication keeps the types of what it touches.
LEMMA RefreshAuthenticationType ==
    ASSUME TypeOK, NEW t \in Tabs, RefreshAuthentication(t)
    PROVE  /\ runner' \in [Tabs -> Runner] /\ locks' \in Seq(Tabs)
           /\ requests' \subseteq Request
<1>1. RefreshRequest(t, store[t].sid) \in Request
  BY RefreshRequestType, StoreTypes DEF TypeOK
<1>2. runner' \in [Tabs -> Runner]
  <2>1. runner' = runner \/ runner' = [runner EXCEPT ![t] = Started]
    BY DEF RefreshAuthentication
  <2>2. Started \in Runner /\ runner \in [Tabs -> Runner]
    BY RunnerTypes DEF TypeOK
  <2> QED BY <2>1, <2>2
<1>3. locks' \in Seq(Tabs)
  <2>1. locks' = locks \/ locks' = Append(locks, t)
    BY DEF RefreshAuthentication
  <2>2. locks \in Seq(Tabs)
    BY DEF TypeOK
  <2>3. Append(locks, t) \in Seq(Tabs)
    BY <2>2
  <2> QED BY <2>1, <2>2, <2>3
<1>4. requests' \subseteq Request
  BY <1>1 DEF TypeOK, RefreshAuthentication
<1> QED BY <1>2, <1>3, <1>4

\* So does the end of a refresh, whatever its outcome.
LEMMA SettleType ==
    ASSUME TypeOK, NEW t \in Tabs, NEW outcome \in Outcomes,
           Settle(t, outcome)
    PROVE  /\ runner' \in [Tabs -> Runner] /\ locks' \in Seq(Tabs)
           /\ op' \in [Tabs -> Op]
<1>1. runner' \in [Tabs -> Runner]
  BY RunnerTypes DEF TypeOK, Settle
<1>2. locks' \in Seq(Tabs)
  BY UnqueuedIs DEF TypeOK, Settle
<1>3. op' \in [Tabs -> Op]
  BY OpTypes DEF TypeOK, Settle
<1> QED BY <1>1, <1>2, <1>3

\* And a session event to the other tabs.
LEMMA PublishedType ==
    ASSUME TypeOK, NEW t \in Tabs, NEW kind \in {"authenticated", "signed_out"},
           NEW s \in SomeSid
    PROVE  Published(t, kind, s) \in [Tabs -> Seq(Event)]
<1>1. s # NoSid => [kind |-> kind, sid |-> s] \in Event
  BY SidTypes DEF Event
<1>2. \A u \in Tabs : events[u] \in Seq(Event)
  BY DEF TypeOK
<1>3. ASSUME NEW u \in Tabs
      PROVE  (IF u = t \/ s = NoSid THEN events[u]
              ELSE Append(events[u], [kind |-> kind, sid |-> s])) \in Seq(Event)
  <2>1. CASE u = t \/ s = NoSid
    BY <1>2, <2>1
  <2>2. CASE ~(u = t \/ s = NoSid)
    <3> DEFINE e == [kind |-> kind, sid |-> s]
    <3>1. e \in Event /\ events[u] \in Seq(Event)
      BY <1>1, <1>2, <2>2
    <3> HIDE DEF e
    <3>2. Append(events[u], e) \in Seq(Event)
      BY <3>1
    <3> QED BY <2>2, <3>2 DEF e
  <2> QED BY <2>1, <2>2
<1> QED BY <1>3 DEF Published

\* clearAuthentication keeps the types of what it touches.
LEMMA ClearType ==
    ASSUME TypeOK, NEW t \in Tabs, NEW synchronize \in BOOLEAN,
           ClearAuthentication(t, synchronize)
    PROVE  /\ store' \in [Tabs -> Store] /\ runner' \in [Tabs -> Runner]
           /\ events' \in [Tabs -> Seq(Event)]
<1>1. Published(t, "signed_out", store[t].sid) \in [Tabs -> Seq(Event)]
  BY PublishedType, StoreTypes DEF TypeOK
<1> QED BY <1>1, StoreTypes, RunnerTypes DEF TypeOK, ClearAuthentication

\* A page that loads shows no session yet.
LEMMA PageLoadStore ==
    ASSUME TypeOK, NEW t \in Tabs, PageLoad(t)
    PROVE  /\ store' \in [Tabs -> Store] /\ store'[t].sid = NoSid
           /\ \A u \in Tabs \ {t} : store'[u] = store[u]
<1>1. PICK y \in {"checking", "idle"} :
        store' = [store EXCEPT ![t] = EmptyStore(y)]
  BY DEF PageLoad
<1>2. EmptyStore(y) \in Store /\ EmptyStore(y).sid = NoSid
  BY StoreTypes
<1>3. store \in [Tabs -> Store]
  BY DEF TypeOK
<1> QED BY <1>1, <1>2, <1>3

\* A page load keeps every type, and marks only sessions as gone astray.
LEMMA PageLoadType ==
    ASSUME TypeOK, NEW t \in Tabs, PageLoad(t)
    PROVE  /\ store' \in [Tabs -> Store] /\ runner' \in [Tabs -> Runner]
           /\ op' \in [Tabs -> Op] /\ events' \in [Tabs -> Seq(Event)]
           /\ locks' \in Seq(Tabs) /\ requests' \subseteq Request
           /\ answers' \subseteq Answer /\ astray' \subseteq Sids
<1>1. RefreshRequest(t, NoSid) \in Request
  BY RefreshRequestType, SidTypes
<1>2. Unqueued(t) \in Seq(Tabs)
  BY UnqueuedIs DEF TypeOK
<1>3. \A m \in requests : [m EXCEPT !.live = FALSE] \in Request
  BY DEF TypeOK, Request
<1>4. requests' \subseteq Request
  BY <1>1, <1>3 DEF TypeOK, PageLoad
<1>5. locks' \in Seq(Tabs)
  BY <1>2 DEF PageLoad
<1>6. astray' \subseteq Sids
  <2>1. \A m \in requests : m.token.sid \in SomeSid
    BY DEF TypeOK, Request, Token
  <2>2. \A a \in answers : a.cookie.sid \in SomeSid
    BY DEF TypeOK, Answer, Token
  <2> QED BY <2>1, <2>2, SidTypes DEF TypeOK, PageLoad
<1>7. answers' \subseteq Answer
  BY DEF TypeOK, PageLoad
<1>8. store' \in [Tabs -> Store] /\ runner' \in [Tabs -> Runner]
      /\ op' \in [Tabs -> Op]
  <2>1. store' \in [Tabs -> Store]
    BY PageLoadStore
  <2>2. runner' \in [Tabs -> Runner]
    BY RunnerTypes DEF TypeOK, PageLoad
  <2>3. op' \in [Tabs -> Op]
    BY OpTypes DEF TypeOK, PageLoad
  <2> QED BY <2>1, <2>2, <2>3
<1>9. events' \in [Tabs -> Seq(Event)]
  BY DEF TypeOK, PageLoad
<1> QED BY <1>4, <1>5, <1>6, <1>7, <1>8, <1>9

\* Tokens, and that growing older keeps one a token of its session.
LEMMA TokenTypes ==
    /\ NoToken \in Token /\ NoToken.sid = NoSid
    /\ \A s \in Sids : [sid |-> s, age |-> 0] \in Token
    /\ \A k \in Token, s \in Sids : /\ Older(k, s) \in Token
                                   /\ Older(k, s).sid = k.sid
    /\ \A k \in Token : k.sid \in SomeSid /\ k.age \in 0 .. 2
BY SidTypes DEF Token, NoToken, Older

\* The fields of a request, and that abandoning or ageing it keeps it one.
LEMMA RequestTypes ==
    /\ \A m \in Request :
          /\ m.from \in Tabs /\ m.token \in Token /\ m.live \in BOOLEAN
          /\ m.expected \in SomeSid /\ m.bearer \in SomeSid
          /\ m.kind \in {"refresh", "login", "logout"}
          /\ [m EXCEPT !.live = FALSE] \in Request
          /\ \A s \in Sids : [m EXCEPT !.token = Older(@, s)] \in Request
BY TokenTypes DEF Request

\* The same for an answer, which may also be lost.
LEMMA AnswerTypes ==
    /\ \A a \in Answer :
          /\ a.from \in Tabs /\ a.cookie \in Token /\ a.set \in BOOLEAN
          /\ a.sid \in SomeSid /\ a.status \in Statuses
          /\ a.kind \in {"refresh", "login", "logout"}
          /\ \A s \in Sids : [a EXCEPT !.cookie = Older(@, s)] \in Answer
          /\ [a EXCEPT !.status = "failed", !.sid = NoSid, !.set = FALSE,
                       !.cookie = NoToken] \in Answer
BY TokenTypes, SidTypes DEF Answer, Statuses

\* An answer of the server is an answer.
LEMMA ReplyType ==
    ASSUME NEW m \in Request, NEW status \in Statuses, NEW s \in SomeSid,
           NEW set \in BOOLEAN, NEW cookie \in Token
    PROVE  Reply(m, status, s, set, cookie) \subseteq Answer
<1>1. m.from \in Tabs /\ m.kind \in {"refresh", "login", "logout"}
  BY RequestTypes
<1>2. [from |-> m.from, kind |-> m.kind, status |-> status, sid |-> s,
       set |-> set, cookie |-> cookie] \in Answer
  BY <1>1 DEF Answer
<1> QED BY <1>2 DEF Reply

\* Revoking a session keeps the rows what they are.
LEMMA RevokedType ==
    ASSUME TypeOK, NEW s \in Sids
    PROVE  Revoked(s) \in [Sids -> Row]
BY DEF TypeOK, Revoked, Row

\* The bound on what the user starts.
LEMMA ActType ==
    ASSUME TypeOK
    PROVE  Act => acts' \in 0 .. MaxActs[webLocks]
BY AuthAssumption DEF TypeOK, Act

\* Both initial states have the types.
LEMMA TypeInit == Init => TypeOK
<1> SUFFICES ASSUME Init PROVE TypeOK
  OBVIOUS
<1>1. store \in [Tabs -> Store]
  BY SidTypes, StoreTypes DEF Init
<1>2. jar \in Token
  BY SidTypes, TokenTypes DEF Init
<1>3. sess \in [Sids -> Row]
  <2>1. UnusedRow \in Row /\ [UnusedRow EXCEPT !.status = "active"] \in Row
    BY DEF UnusedRow, Row
  <2> QED BY <2>1 DEF Init
<1>4. /\ runner \in [Tabs -> Runner] /\ op \in [Tabs -> Op]
      /\ events \in [Tabs -> Seq(Event)] /\ locks \in Seq(Tabs)
  <2>1. runner \in [Tabs -> Runner]
    BY RunnerTypes DEF Init
  <2>2. op \in [Tabs -> Op]
    BY OpTypes DEF Init
  <2>3. <<>> \in Seq(Event) /\ <<>> \in Seq(Tabs)
    OBVIOUS
  <2> QED BY <2>1, <2>2, <2>3 DEF Init
<1>5. /\ webLocks \in BOOLEAN /\ acts \in 0 .. MaxActs[webLocks]
      /\ faults \in 0 .. MaxFaults
  BY AuthAssumption DEF Init
<1> QED BY <1>1, <1>2, <1>3, <1>4, <1>5 DEF Init, TypeOK

\* What the user and the timers start keeps the types.
LEMMA UserType ==
    ASSUME TypeOK, NEW t \in Tabs,
           User(t) \/ AccessExpires(t) \/ Reload(t)
    PROVE  TypeOK'
<1>1. store[t] \in Store /\ store[t].sid \in SomeSid /\ Bearer(t) \in SomeSid
  BY StoreTypes, SidTypes DEF TypeOK, Bearer
<1>2. CASE Resolve(t)
  <2>1. store' \in [Tabs -> Store]
    <3>1. PICK y \in {"checking", "complete"} :
            store' = [store EXCEPT ![t] = [store[t] EXCEPT !.boot = y]]
      BY <1>2 DEF Resolve
    <3>2. [store[t] EXCEPT !.boot = y] \in Store /\ store \in [Tabs -> Store]
      BY <1>1, StoreTypes DEF TypeOK
    <3> QED BY <3>1, <3>2
  <2>2. /\ runner' \in [Tabs -> Runner] /\ locks' \in Seq(Tabs)
        /\ requests' \subseteq Request
    BY <1>2, RefreshAuthenticationType DEF Resolve, TypeOK
  <2> QED BY <1>2, <2>1, <2>2, ActType DEF Resolve, TypeOK, histVars
<1>3. CASE FreshAuthHeaders(t)
  BY <1>3, RefreshAuthenticationType, ActType
  DEF FreshAuthHeaders, TypeOK, histVars
<1>4. CASE ApiCall(t)
  BY <1>1, <1>4, OpTypes, ActType DEF ApiCall, TypeOK, histVars, netVars
<1>5. CASE Login(t)
  <2>1. [from |-> t, kind |-> "login", live |-> TRUE, token |-> NoToken,
         expected |-> NoSid, bearer |-> NoSid] \in Request
    BY TokenTypes, SidTypes DEF Request
  <2> QED BY <1>5, <2>1, OpTypes, ActType DEF Login, TypeOK, histVars
<1>6. CASE SignOut(t)
  <2>1. LogoutRequest(t) \in Request
    BY <1>1 DEF TypeOK, LogoutRequest, Request
  <2> QED BY <1>6, <2>1, OpTypes, ActType DEF SignOut, TypeOK, histVars
<1>7. CASE AccessExpires(t)
  BY <1>1, <1>7, StoreTypes, ActType DEF AccessExpires, TypeOK, histVars, netVars
<1>8. CASE Reload(t)
  <2>1. faults' \in 0 .. MaxFaults
    BY <1>8, AuthAssumption DEF Reload, TypeOK
  <2> QED BY <1>8, <2>1, PageLoadType DEF Reload, TypeOK
<1> QED BY <1>2, <1>3, <1>4, <1>5, <1>6, <1>7, <1>8 DEF User

\* What the event loop of a tab runs keeps the types.
LEMMA TabType ==
    ASSUME TypeOK, NEW t \in Tabs, Tab(t)
    PROVE  TypeOK'
<1>1. store[t] \in Store /\ store[t].sid \in SomeSid /\ Bearer(t) \in SomeSid
  BY StoreTypes, SidTypes DEF TypeOK, Bearer
<1>2. CASE RunRefresh(t)
  <2>1. CASE Settle(t, "transient") /\ UNCHANGED requests
    BY <1>2, <2>1, SettleType
    DEF RunRefresh, TypeOK, histVars, boundVars, Outcomes
  <2>2. CASE /\ runner' = [runner EXCEPT ![t].pc = "http"]
             /\ requests' = requests \cup {RefreshRequest(t, store[t].sid)}
             /\ UNCHANGED <<locks, op>>
    <3>1. runner' \in [Tabs -> Runner]
      BY <2>2, RunnerTypes DEF TypeOK
    <3>2. requests' \subseteq Request
      BY <1>1, <2>2, RefreshRequestType DEF TypeOK
    <3> QED BY <1>2, <2>2, <3>1, <3>2 DEF RunRefresh, TypeOK, histVars, boundVars
  <2> QED BY <1>2, <2>1, <2>2 DEF RunRefresh
<1>3. CASE ApiAnswered(t)
  <2>1. op' \in [Tabs -> Op]
    <3>1. op[t] \in Op /\ [op[t] EXCEPT !.stage = "refreshing"] \in Op
      BY OpTypes DEF TypeOK
    <3>2. \/ op' = [op EXCEPT ![t] = NoOp]
          \/ op' = [op EXCEPT ![t] = [op[t] EXCEPT !.stage = "refreshing"]]
      BY <1>3 DEF ApiAnswered
    <3> QED BY <3>1, <3>2, OpTypes DEF TypeOK
  <2>2. /\ runner' \in [Tabs -> Runner] /\ locks' \in Seq(Tabs)
        /\ requests' \subseteq Request
    BY <1>3, RefreshAuthenticationType DEF ApiAnswered, TypeOK
  <2> QED BY <1>3, <2>1, <2>2 DEF ApiAnswered, TypeOK, histVars, boundVars
<1>4. CASE ApiResume(t)
  <2>1. CASE PageLoad(t)
    BY <1>4, <2>1, PageLoadType DEF ApiResume, TypeOK, boundVars
  <2>2. CASE ~PageLoad(t)
    <3>1. op' \in [Tabs -> Op]
      BY <1>1, <1>4, <2>2, OpTypes DEF ApiResume, TypeOK
    <3> QED BY <1>4, <2>2, <3>1 DEF ApiResume, TypeOK, boundVars
  <2> QED BY <2>1, <2>2
<1>5. CASE ApiAnsweredAgain(t)
  <2>1. CASE PageLoad(t)
    BY <1>5, <2>1, PageLoadType DEF ApiAnsweredAgain, TypeOK, boundVars
  <2>2. CASE ~PageLoad(t)
    <3>1. op' \in [Tabs -> Op]
      BY <1>5, <2>2, OpTypes DEF ApiAnsweredAgain, TypeOK
    <3>2. /\ store' \in [Tabs -> Store] /\ runner' \in [Tabs -> Runner]
          /\ events' \in [Tabs -> Seq(Event)]
      BY <1>5, <2>2, ClearType DEF ApiAnsweredAgain, TypeOK
    <3> QED BY <1>5, <2>2, <3>1, <3>2 DEF ApiAnsweredAgain, TypeOK, boundVars
  <2> QED BY <2>1, <2>2
<1>6. CASE LogoutResume(t)
  <2>1. op' \in [Tabs -> Op]
    BY <1>6, OpTypes DEF LogoutResume, TypeOK
  <2>2. /\ store' \in [Tabs -> Store] /\ runner' \in [Tabs -> Runner]
        /\ events' \in [Tabs -> Seq(Event)]
    BY <1>6, ClearType DEF LogoutResume, TypeOK
  <2>3. requests' \subseteq Request
    <3>1. LogoutRequest(t) \in Request
      BY <1>1 DEF TypeOK, LogoutRequest, Request
    <3> QED BY <1>6, <3>1 DEF LogoutResume, TypeOK
  <2> QED BY <1>6, <2>1, <2>2, <2>3 DEF LogoutResume, TypeOK, histVars, boundVars
<1>7. CASE HandleEvent(t)
  <2>1. CASE PageLoad(t)
    BY <1>7, <2>1, PageLoadType DEF HandleEvent, TypeOK, boundVars
  <2>2. CASE ~PageLoad(t)
    <3>1. events' \in [Tabs -> Seq(Event)]
      <4>1. events[t] \in Seq(Event) /\ events[t] # <<>>
        BY <1>7 DEF HandleEvent, TypeOK
      <4>2. Tail(events[t]) \in Seq(Event)
        BY <4>1
      <4>3. events' = [events EXCEPT ![t] = Tail(events[t])]
        BY <1>7, <2>2 DEF HandleEvent
      <4> QED BY <4>2, <4>3 DEF TypeOK
    <3>2. store' \in [Tabs -> Store] /\ runner' \in [Tabs -> Runner]
      <4>1. \/ UNCHANGED <<store, runner>>
            \/ /\ store' = [store EXCEPT ![t] = EmptyStore("complete")]
               /\ runner' = [runner EXCEPT ![t] = Superseded(runner[t])]
        BY <1>7, <2>2 DEF HandleEvent
      <4>2. EmptyStore("complete") \in Store /\ Superseded(runner[t]) \in Runner
        BY StoreTypes, RunnerTypes DEF TypeOK
      <4> QED BY <4>1, <4>2 DEF TypeOK
    <3> QED BY <1>7, <2>2, <3>1, <3>2 DEF HandleEvent, TypeOK, boundVars
  <2> QED BY <2>1, <2>2
<1> QED BY <1>2, <1>3, <1>4, <1>5, <1>6, <1>7 DEF Tab

\* An answer that arrives leaves answers, and a token in the jar.
LEMMA ArrivesType ==
    ASSUME TypeOK, NEW a \in answers, Arrives(a)
    PROVE  answers' \subseteq Answer /\ jar' \in Token
BY AnswerTypes DEF TypeOK, Arrives

\* Every handler of an answer keeps the types.
LEMMA DeliverType ==
    ASSUME TypeOK, NEW a \in answers, Deliver(a)
    PROVE  TypeOK'
<1> DEFINE t == a.from
<1>1. a \in Answer /\ t \in Tabs /\ a.sid \in SomeSid
      /\ store[t] \in Store /\ store[t].sid \in SomeSid
  BY AnswerTypes, StoreTypes DEF TypeOK
<1>2. answers' \subseteq Answer /\ jar' \in Token
  BY ArrivesType DEF Deliver, RefreshSuperseded, RefreshAccepted,
     RefreshMismatch, RefreshUnauthorized, RefreshFailed, RefreshOutOfSync,
     LoginDone, LogoutDone, LogoutMismatch, OpFailed
<1>3. CASE RefreshSuperseded(a)
  BY <1>1, <1>2, <1>3, SettleType
  DEF RefreshSuperseded, TypeOK, histVars, boundVars, Outcomes
<1>4. CASE RefreshAccepted(a)
  <2>1. store' \in [Tabs -> Store]
    BY <1>1, <1>4, StoreTypes DEF RefreshAccepted, TypeOK
  <2> QED BY <1>1, <1>2, <1>4, <2>1, SettleType
          DEF RefreshAccepted, TypeOK, histVars, boundVars, Outcomes
<1>5. CASE RefreshMismatch(a)
  <2>1. store' \in [Tabs -> Store] /\ runner' \in [Tabs -> Runner]
    BY <1>1, <1>5, StoreTypes, RunnerTypes DEF RefreshMismatch, TypeOK
  <2>2. requests' \subseteq Request
    BY <1>1, <1>5, RefreshRequestType, SidTypes DEF RefreshMismatch, TypeOK
  <2> QED BY <1>2, <1>5, <2>1, <2>2 DEF RefreshMismatch, TypeOK, histVars, boundVars
<1>6. CASE RefreshUnauthorized(a)
  <2>1. store' \in [Tabs -> Store]
    BY <1>1, <1>6, StoreTypes DEF RefreshUnauthorized, TypeOK
  <2>2. events' \in [Tabs -> Seq(Event)]
    BY <1>1, <1>6, PublishedType DEF RefreshUnauthorized
  <2> QED BY <1>1, <1>2, <1>6, <2>1, <2>2, SettleType
          DEF RefreshUnauthorized, TypeOK, histVars, boundVars, Outcomes
<1>7. CASE RefreshFailed(a)
  <2>1. store' \in [Tabs -> Store]
    BY <1>1, <1>7, StoreTypes DEF RefreshFailed, TypeOK
  <2> QED BY <1>1, <1>2, <1>7, <2>1, SettleType
          DEF RefreshFailed, TypeOK, histVars, boundVars, Outcomes
<1>8. CASE RefreshOutOfSync(a)
  <2>1. store' \in [Tabs -> Store]
    BY <1>1, <1>8, StoreTypes DEF RefreshOutOfSync, TypeOK
  <2> QED BY <1>1, <1>2, <1>8, <2>1, SettleType
          DEF RefreshOutOfSync, TypeOK, histVars, boundVars, Outcomes
<1>9. CASE LoginDone(a)
  <2>1. store' \in [Tabs -> Store] /\ runner' \in [Tabs -> Runner]
    <3>1. BundleStore(a.sid) \in Store /\ Superseded(runner[t]) \in Runner
      BY <1>1, StoreTypes, RunnerTypes DEF TypeOK
    <3>2. \/ UNCHANGED <<store, runner>>
          \/ /\ store' = [store EXCEPT ![t] = BundleStore(a.sid)]
             /\ runner' = [runner EXCEPT ![t] = Superseded(runner[t])]
      BY <1>9 DEF LoginDone
    <3> QED BY <3>1, <3>2 DEF TypeOK
  <2>2. events' \in [Tabs -> Seq(Event)]
    BY <1>1, <1>9, PublishedType DEF LoginDone, TypeOK
  <2>3. op' \in [Tabs -> Op]
    BY <1>1, <1>9, OpTypes DEF LoginDone, TypeOK
  <2> QED BY <1>2, <1>9, <2>1, <2>2, <2>3 DEF LoginDone, TypeOK, histVars, boundVars
<1>10. CASE LogoutDone(a)
  <2>1. op' \in [Tabs -> Op]
    BY <1>1, <1>10, OpTypes DEF LogoutDone, TypeOK
  <2> QED BY <1>1, <1>2, <1>10, <2>1, ClearType
          DEF LogoutDone, TypeOK, histVars, boundVars
<1>11. CASE LogoutMismatch(a)
  <2>1. op' \in [Tabs -> Op]
    BY <1>1, <1>11, OpTypes DEF LogoutMismatch, TypeOK
  <2> QED BY <1>1, <1>2, <1>11, <2>1, RefreshAuthenticationType
          DEF LogoutMismatch, TypeOK, histVars, boundVars
<1>12. CASE OpFailed(a)
  <2>1. op' \in [Tabs -> Op]
    BY <1>1, <1>12, OpTypes DEF OpFailed, TypeOK
  <2> QED BY <1>2, <1>12, <2>1 DEF OpFailed, TypeOK, histVars, boundVars
<1> QED BY <1>3, <1>4, <1>5, <1>6, <1>7, <1>8, <1>9, <1>10, <1>11, <1>12
        DEF Deliver

\* The server, and a request that fails, keep the types; that the token of
\* a request is of a session, or none at all, is needed for the history.
LEMMA ServeType ==
    ASSUME TypeOK, TokenInv, NEW m \in requests, Serve(m) \/ RequestFails(m)
    PROVE  TypeOK'
<1>1. m \in Request /\ m.token \in Token /\ m.token.sid \in SomeSid
      /\ m.expected \in SomeSid
  BY RequestTypes, TokenTypes DEF TypeOK
<1>2. \A s \in SomeSid : Active(s) => s \in Sids
  BY SidTypes DEF Active
<1>3. NoSid \in SomeSid /\ NoToken \in Token
  BY SidTypes, TokenTypes
<1> DEFINE s == m.token.sid
<1>4. CASE RefuseRefresh(m)
  <2>1. answers' \subseteq Answer
    BY <1>1, <1>3, <1>4, ReplyType DEF RefuseRefresh, TypeOK, Statuses
  <2>2. sess' \in [Sids -> Row]
    BY <1>1, <1>2, <1>4, RevokedType DEF RefuseRefresh, TypeOK
  <2>3. refused' \subseteq Sids
    BY <1>1, <1>2, <1>4 DEF RefuseRefresh, TypeOK
  <2> QED BY <1>4, <2>1, <2>2, <2>3 DEF RefuseRefresh, TypeOK, tabVars, boundVars
<1>5. CASE MismatchRefresh(m)
  <2>1. answers' \subseteq Answer
    BY <1>1, <1>3, <1>5, ReplyType DEF MismatchRefresh, TypeOK, Statuses
  <2> QED BY <1>5, <2>1 DEF MismatchRefresh, TypeOK, tabVars, boundVars, histVars
<1>6. CASE RotateRefresh(m)
  <2>1. s \in Sids /\ [sid |-> s, age |-> 0] \in Token
    BY <1>1, <1>2, <1>6, TokenTypes DEF RotateRefresh
  <2>2. answers' \subseteq Answer
    <3>1. Reply(m, "ok", s, TRUE, [sid |-> s, age |-> 0]) \subseteq Answer
      BY <1>1, <2>1, ReplyType DEF Statuses
    <3>2. \A a \in answers : [a EXCEPT !.cookie = Older(@, s)] \in Answer
      BY <2>1, AnswerTypes DEF TypeOK
    <3> QED BY <1>6, <3>1, <3>2 DEF RotateRefresh
  <2>3. requests' \subseteq Request
    <3>1. \A n \in requests : [n EXCEPT !.token = Older(@, s)] \in Request
      BY <2>1, RequestTypes DEF TypeOK
    <3> QED BY <1>6, <3>1 DEF RotateRefresh
  <2>4. sess' \in [Sids -> Row]
    BY <1>6 DEF RotateRefresh, TypeOK, Row
  <2>5. jar' \in Token
    BY <1>6, <2>1, TokenTypes DEF RotateRefresh, TypeOK
  <2> QED BY <1>6, <2>2, <2>3, <2>4, <2>5
          DEF RotateRefresh, TypeOK, tabVars, boundVars, histVars
<1>7. CASE ReissueRefresh(m)
  <2>1. s \in Sids /\ [sid |-> s, age |-> 0] \in Token
    BY <1>1, <1>2, <1>7, TokenTypes DEF ReissueRefresh
  <2>2. answers' \subseteq Answer
    <3>1. Reply(m, "ok", s, TRUE, [sid |-> s, age |-> 0]) \subseteq Answer
      BY <1>1, <2>1, ReplyType DEF Statuses
    <3> QED BY <1>7, <3>1 DEF ReissueRefresh, TypeOK
  <2> QED BY <1>7, <2>2 DEF ReissueRefresh, TypeOK, tabVars, boundVars, histVars
<1>8. CASE ServeLogin(m)
  <2>1. PICK q \in Sids :
          /\ sess' = [sess EXCEPT ![q].status = "active"]
          /\ requests' = requests \ {m}
          /\ answers' = answers \cup
               Reply(m, "ok", q, TRUE, [sid |-> q, age |-> 0])
          /\ UNCHANGED <<tabVars, webLocks, jar, boundVars, histVars>>
    BY <1>8 DEF ServeLogin
  <2>2. answers' \subseteq Answer
    <3>1. Reply(m, "ok", q, TRUE, [sid |-> q, age |-> 0]) \subseteq Answer
      BY <1>1, TokenTypes, SidTypes, ReplyType DEF Statuses
    <3> QED BY <2>1, <3>1 DEF TypeOK
  <2>3. sess' \in [Sids -> Row]
    BY <2>1 DEF TypeOK, Row
  <2> QED BY <2>1, <2>2, <2>3 DEF TypeOK, tabVars, boundVars, histVars
<1>9. CASE ServeLogout(m)
  <2>1. answers' \subseteq Answer
    BY <1>1, <1>3, <1>9, ReplyType DEF ServeLogout, TypeOK, Statuses
  <2>2. sess' \in [Sids -> Row]
    <3>1. m.bearer \in SomeSid
      BY <1>1, RequestTypes
    <3> QED BY <1>1, <1>2, <1>9, <3>1, RevokedType DEF ServeLogout, TypeOK
  <2> QED BY <1>9, <2>1, <2>2 DEF ServeLogout, TypeOK, tabVars, boundVars, histVars
<1>10. CASE RequestFails(m)
  <2>1. faults' \in 0 .. MaxFaults
    BY <1>10, AuthAssumption DEF RequestFails, TypeOK
  <2>2. answers' \subseteq Answer
    BY <1>1, <1>3, <1>10, ReplyType DEF RequestFails, TypeOK, Statuses
  <2>3. requests' \subseteq Request
    BY <1>1, <1>10, RequestTypes DEF RequestFails, TypeOK
  <2>4. m.token # NoToken => m.token.sid \in Sids
    BY <1>1, SidTypes DEF TokenInv, Known
  <2>5. astray' \subseteq Sids
    BY <1>10, <2>4 DEF RequestFails, TypeOK
  <2> QED BY <1>10, <2>1, <2>2, <2>3, <2>5 DEF RequestFails, TypeOK, tabVars
<1> QED BY <1>4, <1>5, <1>6, <1>7, <1>8, <1>9, <1>10 DEF Serve
LEMMA LostType ==
    ASSUME TypeOK, NEW a \in answers, AnswerLost(a)
    PROVE  TypeOK'
<1>1. a \in Answer /\ a.cookie \in Token /\ a.cookie.sid \in SomeSid
  BY AnswerTypes, TokenTypes DEF TypeOK
<1>2. faults' \in 0 .. MaxFaults
  BY AuthAssumption DEF AnswerLost, TypeOK
<1>3. answers' \subseteq Answer
  BY <1>1, AnswerTypes DEF AnswerLost, TypeOK
<1>4. astray' \subseteq Sids
  BY <1>1, SidTypes DEF AnswerLost, TypeOK
<1> QED BY <1>2, <1>3, <1>4 DEF AnswerLost, TypeOK, tabVars

\* The end of a grace window, and another device, keep the types.
LEMMA ElsewhereType ==
    ASSUME TypeOK, NEW s \in Sids, GraceEnds(s) \/ RevokedElsewhere(s)
    PROVE  TypeOK'
<1>1. CASE GraceEnds(s)
  <2>1. sess' \in [Sids -> Row]
    BY <1>1 DEF GraceEnds, TypeOK, Row
  <2> QED BY <1>1, <2>1
          DEF GraceEnds, TypeOK, tabVars, netVars, boundVars, histVars
<1>2. CASE RevokedElsewhere(s)
  BY <1>2, RevokedType, ActType
  DEF RevokedElsewhere, TypeOK, tabVars, netVars, histVars
<1> QED BY <1>1, <1>2

\* Every step keeps the types.
LEMMA TypeNext == TypeOK /\ TokenInv /\ [Next]_vars => TypeOK'
<1> SUFFICES ASSUME TypeOK, TokenInv, [Next]_vars PROVE TypeOK'
  OBVIOUS
<1>1. CASE UNCHANGED vars
  BY <1>1 DEF TypeOK, vars, tabVars, netVars, boundVars, histVars
<1>2. CASE Next
  BY <1>2, UserType, TabType, DeliverType, ServeType, LostType, ElsewhereType
  DEF Next
<1> QED BY <1>1, <1>2

-----------------------------------------------------------------------------
(* What a step does to the exchanges, in a few forms.                      *)

\* No answer arrives, or one that is not a refresh's.
Delivery == \/ UNCHANGED <<jar, answers>>
            \/ \E a \in answers : a.kind # "refresh" /\ Arrives(a)

\* A tab gives up its session or keeps it; it takes another only from none,
\* and then no refresh that is still awaited counts.
StoreKept(u) ==
    \/ store'[u].sid \in {NoSid, store[u].sid}
    \/ store[u].sid = NoSid /\ (runner'[u].pc = "off" \/ ~runner'[u].current)

\* Nothing happens to a refresh.
LocalStep ==
    /\ UNCHANGED <<locks, webLocks, sess, histVars>>
    /\ Delivery
    /\ \A u \in Tabs : /\ runner'[u].pc = runner[u].pc
                       /\ runner'[u].current => runner[u].current
                       /\ StoreKept(u)
    /\ requests \subseteq requests'
    /\ \A m \in requests' \ requests :
          m.kind # "refresh" /\ m.token \in {jar, NoToken}

\* A refresh starts.
StartStep(t) ==
    /\ runner[t].pc = "off"
    /\ RefreshAuthentication(t)
    /\ Delivery
    /\ \A u \in Tabs : store'[u].sid = store[u].sid
    /\ UNCHANGED <<webLocks, sess, histVars>>

\* A refresh that has the lock sends its request.
RunStep(t) ==
    /\ runner[t].pc = "queued" /\ Head(locks) = t
    /\ runner' = [runner EXCEPT ![t].pc = "http"]
    /\ requests' = requests \cup {RefreshRequest(t, store[t].sid)}
    /\ UNCHANGED <<store, locks, webLocks, jar, answers, sess, histVars>>

\* The tab of a refresh that ends keeps its session, gives it up, or takes the
\* one the answer names.
SettledStore(t) ==
    \/ store'[t].sid \in {NoSid, store[t].sid}
    \/ \E a \in answers : /\ RefreshAnswer(a) /\ a.from = t /\ a.status = "ok"
                          /\ runner[t].current /\ store'[t].sid = a.sid

\* A refresh ends, with its answer or while it waits for the lock.
SettleStep(t) ==
    /\ runner' = [runner EXCEPT ![t] = Off]
    /\ locks' = Unqueued(t)
    /\ SettledStore(t) /\ \A u \in Tabs \ {t} : store'[u] = store[u]
    /\ \/ runner[t].pc = "queued" /\ UNCHANGED <<jar, answers>>
       \/ \E a \in answers : RefreshAnswer(a) /\ a.from = t /\ Arrives(a)
    /\ UNCHANGED <<webLocks, requests, sess, histVars>>

LoadStep(t) == PageLoad(t) /\ UNCHANGED <<webLocks, jar, sess, refused>>

\* The request m is answered with r, unless its page is gone.
Answered(m, r) ==
    /\ r.from = m.from /\ r.kind = m.kind
    /\ answers' = answers \cup (IF m.live THEN {r} ELSE {})

\* No session becomes active, none is created.
SessionsEnd ==
    \A s \in Sids : /\ sess[s].status = "unused" <=> sess'[s].status = "unused"
                    /\ sess'[s].status = "active" => sess[s].status = "active"

\* The server answers without a token.
RefuseStep(m) ==
    /\ requests' = requests \ {m}
    /\ \E r \in Answer : /\ Answered(m, r) /\ r.cookie = NoToken
                         /\ r.kind = "refresh" => r.status # "ok"
    /\ SessionsEnd
    /\ refused' = refused \/ RefuseRefresh(m)
    /\ UNCHANGED <<tabVars, webLocks, jar, astray>>

\* The answer that gives the tab the current token of its session.
Granted(m, r) ==
    /\ m.kind = "refresh" /\ m.expected \in {NoSid, m.token.sid}
    /\ m.token.sid \in Sids /\ sess[m.token.sid].status = "active"
    /\ r.status = "ok" /\ r.set /\ r.sid = m.token.sid
    /\ r.cookie = [sid |-> m.token.sid, age |-> 0]

ReissueStep(m) ==
    /\ m.token.age = 1
    /\ requests' = requests \ {m}
    /\ \E r \in Answer : Answered(m, r) /\ Granted(m, r)
    /\ UNCHANGED <<tabVars, webLocks, jar, sess, histVars>>

AgedRequest(m, s) == [m EXCEPT !.token = Older(@, s)]
AgedAnswer(a, s)  == [a EXCEPT !.cookie = Older(@, s)]

RotateStep(m) ==
    /\ m.token.age = 0
    /\ jar' = Older(jar, m.token.sid)
    /\ requests' = {AgedRequest(n, m.token.sid) : n \in requests \ {m}}
    /\ \E r \in Answer :
          /\ Granted(m, r) /\ r.from = m.from /\ r.kind = m.kind
          /\ answers' = {AgedAnswer(a, m.token.sid) : a \in answers}
                          \cup (IF m.live THEN {r} ELSE {})
    /\ \A s \in Sids : sess'[s].status = sess[s].status
    /\ UNCHANGED <<tabVars, webLocks, histVars>>

LoginStep(m) ==
    /\ requests' = requests \ {m}
    /\ \E s \in Sids, r \in Answer :
          /\ sess[s].status = "unused"
          /\ \A q \in Sids \ {s} : sess'[q].status = sess[q].status
          /\ sess'[s].status = "active"
          /\ Answered(m, r) /\ r.kind = "login" /\ r.status = "ok" /\ r.set
          /\ r.cookie = [sid |-> s, age |-> 0]
    /\ UNCHANGED <<tabVars, webLocks, jar, histVars>>

FailStep(m) ==
    /\ m.live
    /\ \E r \in Answer : /\ Answered(m, r) /\ r.cookie = NoToken
                         /\ r.status # "ok"
    /\ \/ requests' = requests \ {m} /\ UNCHANGED astray
       \/ /\ requests' = (requests \ {m}) \cup {[m EXCEPT !.live = FALSE]}
          /\ astray' = IF m.kind = "refresh" /\ m.token # NoToken
                       THEN astray \cup {m.token.sid} ELSE astray
    /\ UNCHANGED <<tabVars, webLocks, jar, sess, refused>>

ElsewhereStep ==
    /\ SessionsEnd
    /\ UNCHANGED <<tabVars, webLocks, netVars, histVars>>

Step ==
    \/ LocalStep
    \/ \E t \in Tabs : StartStep(t) \/ RunStep(t) \/ SettleStep(t) \/ LoadStep(t)
    \/ \E a \in answers : RefreshMismatch(a) \/ AnswerLost(a)
    \/ \E m \in requests : \/ RefuseStep(m) \/ ReissueStep(m) \/ RotateStep(m)
                           \/ LoginStep(m) \/ FailStep(m)
    \/ ElsewhereStep

\* A tab joins the refresh under way, or starts one.
LEMMA RefreshForms ==
    ASSUME TypeOK, NEW t \in Tabs, RefreshAuthentication(t), Delivery,
           \A u \in Tabs : store'[u].sid = store[u].sid,
           UNCHANGED <<webLocks, sess, histVars>>
    PROVE  LocalStep \/ StartStep(t)
<1>1. CASE runner[t].pc = "off"
  BY <1>1 DEF StartStep
<1>2. CASE runner[t].pc # "off"
  <2>1. UNCHANGED <<runner, locks, requests>>
    BY <1>2 DEF RefreshAuthentication
  <2> QED BY <2>1 DEF LocalStep, StoreKept
<1> QED BY <1>1, <1>2

\* clearAuthentication touches no refresh but to supersede it.
LEMMA ClearForms ==
    ASSUME TypeOK, NEW t \in Tabs,
           store' = [store EXCEPT ![t] = EmptyStore("complete")],
           runner' = [runner EXCEPT ![t] = Superseded(@)]
    PROVE  \A u \in Tabs : /\ runner'[u].pc = runner[u].pc
                           /\ runner'[u].current => runner[u].current
                           /\ StoreKept(u)
<1>1. /\ Superseded(runner[t]).pc = runner[t].pc
      /\ Superseded(runner[t]).current => runner[t].current
  BY DEF TypeOK, Superseded, Runner
<1>2. EmptyStore("complete").sid = NoSid
  BY StoreTypes
<1> QED BY <1>1, <1>2 DEF TypeOK, StoreKept

\* The form of what the user and the timers start.
LEMMA UserForms ==
    ASSUME TypeOK, NEW t \in Tabs,
           User(t) \/ AccessExpires(t) \/ Reload(t)
    PROVE  LocalStep \/ StartStep(t) \/ LoadStep(t)
<1>1. CASE Resolve(t)
  <2>1. \A u \in Tabs : store'[u].sid = store[u].sid
    <3>1. PICK y \in {"checking", "complete"} :
            store' = [store EXCEPT ![t] = [store[t] EXCEPT !.boot = y]]
      BY <1>1 DEF Resolve
    <3>2. store[t] \in Store /\ [store[t] EXCEPT !.boot = y].sid = store[t].sid
      BY StoreTypes DEF TypeOK
    <3> QED BY <3>1, <3>2 DEF TypeOK
  <2>2. CASE UNCHANGED <<runner, locks, requests>>
    BY <1>1, <2>1, <2>2 DEF Resolve, LocalStep, StoreKept, Delivery
  <2>3. CASE RefreshAuthentication(t)
    BY <1>1, <2>1, <2>3, RefreshForms DEF Resolve, Delivery
  <2> QED BY <1>1, <2>2, <2>3 DEF Resolve
<1>2. CASE FreshAuthHeaders(t)
  BY <1>2, RefreshForms DEF FreshAuthHeaders, Delivery
<1>3. CASE ApiCall(t)
  BY <1>3 DEF ApiCall, LocalStep, StoreKept, Delivery, netVars
<1>4. CASE Login(t)
  BY <1>4 DEF Login, LocalStep, StoreKept, Delivery
<1>5. CASE SignOut(t)
  BY <1>5 DEF SignOut, LocalStep, StoreKept, Delivery, LogoutRequest
<1>6. CASE AccessExpires(t)
  <2>1. \A u \in Tabs : store'[u].sid = store[u].sid
    BY <1>6, StoreTypes DEF AccessExpires, TypeOK
  <2> QED BY <1>6, <2>1 DEF AccessExpires, LocalStep, StoreKept, Delivery, netVars
<1>7. CASE Reload(t)
  BY <1>7 DEF Reload, LoadStep
<1> QED BY <1>1, <1>2, <1>3, <1>4, <1>5, <1>6, <1>7 DEF User

\* The form of what the event loop of a tab runs.
LEMMA TabForms ==
    ASSUME TypeOK, NEW t \in Tabs, Tab(t)
    PROVE  LocalStep \/ StartStep(t) \/ RunStep(t) \/ SettleStep(t) \/ LoadStep(t)
<1>1. CASE RunRefresh(t)
  BY <1>1 DEF RunRefresh, RunStep, SettleStep, SettledStore, Settle
<1>2. CASE ApiAnswered(t)
  <2>1. CASE UNCHANGED <<runner, locks, requests>>
    BY <1>2, <2>1 DEF ApiAnswered, LocalStep, StoreKept, Delivery
  <2>2. CASE RefreshAuthentication(t)
    BY <1>2, <2>2, RefreshForms DEF ApiAnswered, Delivery
  <2> QED BY <1>2, <2>1, <2>2 DEF ApiAnswered
<1>3. CASE ApiResume(t)
  BY <1>3 DEF ApiResume, LoadStep, LocalStep, StoreKept, Delivery, histVars
<1>4. CASE ApiAnsweredAgain(t)
  <2>1. CASE PageLoad(t)
    BY <1>4, <2>1 DEF ApiAnsweredAgain, LoadStep
  <2>2. CASE ClearAuthentication(t, FALSE) /\ ~PageLoad(t)
    BY <1>4, <2>2, ClearForms
    DEF ApiAnsweredAgain, ClearAuthentication, LocalStep, Delivery, histVars
  <2>3. CASE ~ClearAuthentication(t, FALSE) /\ ~PageLoad(t)
    BY <1>4, <2>3 DEF ApiAnsweredAgain, LocalStep, StoreKept, Delivery, histVars
  <2> QED BY <2>1, <2>2, <2>3
<1>5. CASE LogoutResume(t)
  <2>1. CASE ClearAuthentication(t, TRUE) /\ UNCHANGED requests
    BY <1>5, <2>1, ClearForms
    DEF LogoutResume, ClearAuthentication, LocalStep, Delivery
  <2>2. CASE UNCHANGED <<store, runner, events>>
    <3>1. requests' = requests \/ requests' = requests \cup {LogoutRequest(t)}
      BY <1>5 DEF LogoutResume
    <3>2. LogoutRequest(t).kind = "logout" /\ LogoutRequest(t).token = jar
      BY DEF LogoutRequest
    <3>3. UNCHANGED <<locks, webLocks, jar, answers, sess, histVars>>
      BY <1>5 DEF LogoutResume
    <3> QED BY <2>2, <3>1, <3>2, <3>3 DEF LocalStep, StoreKept, Delivery
  <2> QED BY <1>5, <2>1, <2>2 DEF LogoutResume
<1>6. CASE HandleEvent(t)
  <2>1. CASE PageLoad(t)
    BY <1>6, <2>1 DEF HandleEvent, LoadStep
  <2>2. CASE ~PageLoad(t)
    <3>1. /\ UNCHANGED <<locks, requests, answers, astray, webLocks, jar, sess,
                         refused>>
          /\ \/ UNCHANGED <<store, runner>>
             \/ /\ store' = [store EXCEPT ![t] = EmptyStore("complete")]
                /\ runner' = [runner EXCEPT ![t] = Superseded(@)]
      BY <1>6, <2>2 DEF HandleEvent
    <3> QED BY <3>1, ClearForms DEF LocalStep, StoreKept, Delivery, histVars
  <2> QED BY <2>1, <2>2
<1> QED BY <1>1, <1>2, <1>3, <1>4, <1>5, <1>6 DEF Tab

\* The form of every handler of an answer.
LEMMA DeliverForms ==
    ASSUME TypeOK, NEW a \in answers, Deliver(a)
    PROVE  LocalStep \/ StartStep(a.from) \/ SettleStep(a.from)
             \/ RefreshMismatch(a)
<1> DEFINE t == a.from
<1>1. t \in Tabs
  BY AnswerTypes DEF TypeOK
<1>2. ASSUME RefreshAnswer(a), Arrives(a), NEW outcome, Settle(t, outcome),
             SettledStore(t), \A u \in Tabs \ {t} : store'[u] = store[u],
             UNCHANGED <<webLocks, requests, sess, histVars>>
      PROVE  SettleStep(t)
  BY <1>2 DEF SettleStep, Settle
<1>3. CASE RefreshSuperseded(a)
  BY <1>2, <1>3 DEF RefreshSuperseded, RefreshAnswer, SettledStore
<1>4. CASE RefreshAccepted(a)
  <2>1. SettledStore(t)
    BY <1>1, <1>4, StoreTypes, AnswerTypes
    DEF RefreshAccepted, RefreshAnswer, SettledStore, TypeOK
  <2> QED BY <1>2, <1>4, <2>1 DEF RefreshAccepted, RefreshAnswer, TypeOK
<1>5. CASE RefreshUnauthorized(a)
  <2>1. SettledStore(t)
    BY <1>1, <1>5, StoreTypes, AnswerTypes
    DEF RefreshUnauthorized, RefreshAnswer, SettledStore, TypeOK
  <2> QED BY <1>2, <1>5, <2>1 DEF RefreshUnauthorized, RefreshAnswer, TypeOK
<1>6. CASE RefreshFailed(a)
  <2>1. SettledStore(t)
    BY <1>1, <1>6, StoreTypes, AnswerTypes
    DEF RefreshFailed, RefreshAnswer, SettledStore, TypeOK
  <2> QED BY <1>2, <1>6, <2>1 DEF RefreshFailed, RefreshAnswer, TypeOK
<1>7. CASE RefreshOutOfSync(a)
  <2>1. SettledStore(t)
    BY <1>1, <1>7, StoreTypes, AnswerTypes
    DEF RefreshOutOfSync, RefreshAnswer, SettledStore, TypeOK
  <2> QED BY <1>2, <1>7, <2>1 DEF RefreshOutOfSync, RefreshAnswer, TypeOK
<1>8. CASE LoginDone(a)
  <2>1. Delivery /\ UNCHANGED <<locks, webLocks, requests, sess, histVars>>
    BY <1>8 DEF LoginDone, Delivery
  <2>2. CASE UNCHANGED <<store, runner>>
    BY <2>1, <2>2 DEF LocalStep, StoreKept
  <2>3. CASE /\ store[t].sid = NoSid
             /\ store' = [store EXCEPT ![t] = BundleStore(a.sid)]
             /\ runner' = [runner EXCEPT ![t] = Superseded(runner[t])]
    <3>1. /\ Superseded(runner[t]).pc = runner[t].pc
          /\ Superseded(runner[t]).current => runner[t].current
          /\ Superseded(runner[t]).pc = "off" \/ ~Superseded(runner[t]).current
      BY <1>1 DEF TypeOK, Superseded, Runner
    <3>2. \A u \in Tabs : /\ runner'[u].pc = runner[u].pc
                          /\ runner'[u].current => runner[u].current
                          /\ StoreKept(u)
      BY <1>1, <2>3, <3>1 DEF TypeOK, StoreKept
    <3> QED BY <2>1, <3>2 DEF LocalStep
  <2> QED BY <1>8, <2>2, <2>3 DEF LoginDone
<1>9. CASE LogoutDone(a)
  <2>1. Delivery /\ UNCHANGED <<locks, webLocks, requests, sess, histVars>>
    BY <1>9 DEF LogoutDone, Delivery
  <2> QED BY <1>1, <1>9, <2>1, ClearForms
          DEF LogoutDone, ClearAuthentication, LocalStep
<1>10. CASE LogoutMismatch(a)
  <2>1. Delivery
    BY <1>10 DEF LogoutMismatch, Delivery
  <2> QED BY <1>1, <1>10, <2>1, RefreshForms DEF LogoutMismatch
<1>11. CASE OpFailed(a)
  BY <1>11 DEF OpFailed, LocalStep, StoreKept, Delivery
<1> QED BY <1>3, <1>4, <1>5, <1>6, <1>7, <1>8, <1>9, <1>10, <1>11 DEF Deliver

\* An answer of the server.
LEMMA ReplyForms ==
    ASSUME NEW m \in Request, NEW status \in Statuses, NEW s \in SomeSid,
           NEW set \in BOOLEAN, NEW cookie \in Token,
           answers' = answers \cup Reply(m, status, s, set, cookie)
    PROVE  \E r \in Answer :
              /\ Answered(m, r) /\ r.status = status /\ r.sid = s
              /\ r.set = set /\ r.cookie = cookie
<1> DEFINE r == [from |-> m.from, kind |-> m.kind, status |-> status, sid |-> s,
                 set |-> set, cookie |-> cookie]
<1>1. r \in Answer
  BY RequestTypes DEF Answer
<1>2. Answered(m, r)
  BY DEF Answered, Reply
<1> QED BY <1>1, <1>2

\* Revoking a session ends it and touches no other.
LEMMA RevokedForms ==
    ASSUME TypeOK, NEW s \in Sids, sess' = Revoked(s), Active(s)
    PROVE  SessionsEnd
BY DEF TypeOK, SessionsEnd, Revoked, Active, Row

\* The form of what the server does with a request, and of its failure.
LEMMA ServeForms ==
    ASSUME TypeOK, NEW m \in requests, Serve(m) \/ RequestFails(m)
    PROVE  RefuseStep(m) \/ ReissueStep(m) \/ RotateStep(m) \/ LoginStep(m)
             \/ FailStep(m)
<1>1. m \in Request /\ m.token \in Token /\ m.token.sid \in SomeSid
      /\ m.expected \in SomeSid /\ m.bearer \in SomeSid
  BY RequestTypes, TokenTypes DEF TypeOK
<1>2. \A s \in SomeSid : Active(s) => s \in Sids /\ sess[s].status = "active"
  BY SidTypes DEF Active
<1>3. NoSid \in SomeSid /\ NoToken \in Token
  BY SidTypes, TokenTypes
<1>4. UNCHANGED sess => SessionsEnd
  BY DEF SessionsEnd
<1> DEFINE s == m.token.sid
<1>5. CASE RefuseRefresh(m)
  <2>1. \E r \in Answer : /\ Answered(m, r) /\ r.cookie = NoToken
                          /\ r.kind = "refresh" => r.status # "ok"
    <3>1. PICK x \in Statuses \ {"ok"}, set \in BOOLEAN :
            answers' = answers \cup Reply(m, x, NoSid, set, NoToken)
      BY <1>5 DEF RefuseRefresh, Statuses
    <3> QED BY <1>1, <1>3, <3>1, ReplyForms
  <2>2. SessionsEnd
    BY <1>1, <1>2, <1>4, <1>5, RevokedForms DEF RefuseRefresh
  <2> QED BY <1>5, <2>1, <2>2 DEF RefuseRefresh, RefuseStep
<1>6. CASE MismatchRefresh(m)
  <2>1. \E r \in Answer : /\ Answered(m, r) /\ r.cookie = NoToken
                          /\ r.kind = "refresh" => r.status # "ok"
    <3>1. PICK x \in Statuses \ {"ok"}, set \in BOOLEAN :
            answers' = answers \cup Reply(m, x, NoSid, set, NoToken)
      BY <1>6 DEF MismatchRefresh, Statuses
    <3> QED BY <1>1, <1>3, <3>1, ReplyForms
  <2> QED BY <1>4, <1>6, <2>1 DEF MismatchRefresh, RefuseStep, histVars
<1>7. CASE RotateRefresh(m)
  <2>1. s \in Sids /\ [sid |-> s, age |-> 0] \in Token
        /\ sess[s].status = "active"
    BY <1>1, <1>2, <1>7, TokenTypes DEF RotateRefresh
  <2> DEFINE r == [from |-> m.from, kind |-> m.kind, status |-> "ok",
                   sid |-> s, set |-> TRUE, cookie |-> [sid |-> s, age |-> 0]]
  <2>2. r \in Answer
    BY <1>1, <2>1, RequestTypes DEF Answer, Statuses
  <2>3. Granted(m, r)
    BY <1>7, <2>1 DEF RotateRefresh, Granted
  <2>4. answers' = {AgedAnswer(a, s) : a \in answers}
                     \cup (IF m.live THEN {r} ELSE {})
    BY <1>7 DEF RotateRefresh, Reply, AgedAnswer
  <2>5. \A q \in Sids : sess'[q].status = sess[q].status
    BY <1>7 DEF RotateRefresh, TypeOK, Row
  <2>6. requests' = {AgedRequest(n, s) : n \in requests \ {m}}
    BY <1>7 DEF RotateRefresh, AgedRequest
  <2>7. m.token.age = 0 /\ jar' = Older(jar, s)
        /\ UNCHANGED <<tabVars, webLocks, histVars>>
    BY <1>7 DEF RotateRefresh
  <2>8. r.from = m.from /\ r.kind = m.kind
    OBVIOUS
  <2> HIDE DEF r
  <2> QED BY <2>2, <2>3, <2>4, <2>5, <2>6, <2>7, <2>8 DEF RotateStep
<1>8. CASE ReissueRefresh(m)
  <2>1. s \in Sids /\ [sid |-> s, age |-> 0] \in Token
        /\ sess[s].status = "active"
    BY <1>1, <1>2, <1>8, TokenTypes DEF ReissueRefresh
  <2>2. \E r \in Answer :
           /\ Answered(m, r) /\ r.status = "ok" /\ r.sid = s /\ r.set
           /\ r.cookie = [sid |-> s, age |-> 0]
    <3> DEFINE c == [sid |-> s, age |-> 0]
    <3>1. PICK set \in BOOLEAN :
            set /\ answers' = answers \cup Reply(m, "ok", s, set, c)
      BY <1>8 DEF ReissueRefresh
    <3>2. c \in Token /\ "ok" \in Statuses
      BY <2>1 DEF Statuses
    <3>3. answers' = answers \cup Reply(m, "ok", s, set, c)
      BY <3>1
    <3> HIDE DEF c
    <3>4. \E r \in Answer : /\ Answered(m, r) /\ r.status = "ok" /\ r.sid = s
                            /\ r.set = set /\ r.cookie = c
      BY <1>1, <2>1, <3>2, <3>3, ReplyForms
    <3> QED BY <3>1, <3>4 DEF c
  <2>3. \E r \in Answer : Answered(m, r) /\ Granted(m, r)
    BY <1>8, <2>1, <2>2 DEF ReissueRefresh, Granted
  <2> QED BY <1>8, <2>3 DEF ReissueRefresh, ReissueStep
<1>9. CASE ServeLogin(m)
  <2>1. PICK q \in Sids :
          /\ m.kind = "login" /\ sess[q].status = "unused"
          /\ sess' = [sess EXCEPT ![q].status = "active"]
          /\ requests' = requests \ {m}
          /\ answers' = answers \cup
               Reply(m, "ok", q, TRUE, [sid |-> q, age |-> 0])
          /\ UNCHANGED <<tabVars, webLocks, jar, boundVars, histVars>>
    BY <1>9 DEF ServeLogin
  <2>2. q \in SomeSid /\ [sid |-> q, age |-> 0] \in Token
    BY SidTypes, TokenTypes
  <2>3. \E r \in Answer :
           /\ Answered(m, r) /\ r.status = "ok" /\ r.set
           /\ r.cookie = [sid |-> q, age |-> 0]
    <3> DEFINE c == [sid |-> q, age |-> 0]
    <3>1. PICK set \in BOOLEAN :
            set /\ answers' = answers \cup Reply(m, "ok", q, set, c)
      BY <2>1
    <3>2. c \in Token /\ "ok" \in Statuses
      BY <2>2 DEF Statuses
    <3>3. answers' = answers \cup Reply(m, "ok", q, set, c)
      BY <3>1
    <3> HIDE DEF c
    <3>4. \E r \in Answer : /\ Answered(m, r) /\ r.status = "ok"
                            /\ r.set = set /\ r.cookie = c
      BY <1>1, <2>2, <3>2, <3>3, ReplyForms
    <3> QED BY <3>1, <3>4 DEF c
  <2>4. /\ \A p \in Sids \ {q} : sess'[p].status = sess[p].status
        /\ sess'[q].status = "active"
    BY <2>1 DEF TypeOK, Row
  <2> QED BY <2>1, <2>3, <2>4 DEF LoginStep, Answered
<1>10. CASE ServeLogout(m)
  <2>1. \E r \in Answer : /\ Answered(m, r) /\ r.cookie = NoToken
                          /\ r.kind = "refresh" => r.status # "ok"
    <3>1. PICK x \in Statuses, q \in SomeSid, set \in BOOLEAN :
            answers' = answers \cup Reply(m, x, q, set, NoToken)
      BY <1>1, <1>3, <1>10 DEF ServeLogout, Statuses
    <3>2. m.kind = "logout"
      BY <1>10 DEF ServeLogout
    <3> QED BY <1>1, <1>3, <3>1, <3>2, ReplyForms DEF Answered
  <2>2. SessionsEnd
    BY <1>1, <1>2, <1>4, <1>10, RevokedForms DEF ServeLogout
  <2> QED BY <1>10, <2>1, <2>2 DEF ServeLogout, RefuseStep, histVars
<1>11. CASE RequestFails(m)
  <2>1. PICK x \in {"failed", "odd"}, arrives \in BOOLEAN :
          /\ m.live
          /\ answers' = answers \cup Reply(m, x, NoSid, FALSE, NoToken)
          /\ requests' = (requests \ {m}) \cup
               (IF arrives THEN {[m EXCEPT !.live = FALSE]} ELSE {})
          /\ astray' = IF arrives /\ m.kind = "refresh" /\ m.token # NoToken
                       THEN astray \cup {m.token.sid} ELSE astray
          /\ UNCHANGED <<tabVars, webLocks, jar, sess, refused>>
    BY <1>11 DEF RequestFails
  <2>2. \E r \in Answer : /\ Answered(m, r) /\ r.cookie = NoToken
                          /\ r.status # "ok"
    <3>1. PICK set \in BOOLEAN :
            answers' = answers \cup Reply(m, x, NoSid, set, NoToken)
      BY <2>1
    <3>2. x \in Statuses /\ x # "ok"
      BY DEF Statuses
    <3> QED BY <1>1, <1>3, <3>1, <3>2, ReplyForms
  <2>3. CASE arrives
    BY <2>1, <2>2, <2>3 DEF FailStep
  <2>4. CASE ~arrives
    BY <2>1, <2>2, <2>4 DEF FailStep
  <2> QED BY <2>3, <2>4
<1> QED BY <1>5, <1>6, <1>7, <1>8, <1>9, <1>10, <1>11 DEF Serve

\* Every step of the system has one of the forms.
LEMMA NextForms ==
    ASSUME TypeOK, Next
    PROVE  Step
<1>1. ASSUME NEW t \in Tabs, User(t) \/ Tab(t) \/ AccessExpires(t) \/ Reload(t)
      PROVE  Step
  BY <1>1, UserForms, TabForms DEF Step
<1>2. ASSUME NEW a \in answers, Deliver(a) \/ AnswerLost(a)
      PROVE  Step
  <2>1. a.from \in Tabs
    BY AnswerTypes DEF TypeOK
  <2> QED BY <1>2, <2>1, DeliverForms DEF Step
<1>3. ASSUME NEW m \in requests, Serve(m) \/ RequestFails(m)
      PROVE  Step
  BY <1>3, ServeForms DEF Step
<1>4. ASSUME NEW s \in Sids, GraceEnds(s) \/ RevokedElsewhere(s)
      PROVE  Step
  <2>1. SessionsEnd
    <3>1. CASE GraceEnds(s)
      BY <3>1 DEF GraceEnds, SessionsEnd, TypeOK, Row
    <3>2. CASE RevokedElsewhere(s)
      BY <3>2, RevokedForms DEF RevokedElsewhere
    <3> QED BY <1>4, <3>1, <3>2
  <2> QED BY <1>4, <2>1 DEF Step, ElsewhereStep, GraceEnds, RevokedElsewhere
<1> QED BY <1>1, <1>2, <1>3, <1>4 DEF Next

-----------------------------------------------------------------------------
(* Records that a step rewrites.                                           *)

\* Abandoning a request, losing an answer and a rotation keep the rest of the
\* record.
LEMMA RewrittenFields ==
    /\ \A m \in Request :
          LET n == [m EXCEPT !.live = FALSE]
          IN  /\ n.from = m.from /\ n.kind = m.kind /\ ~n.live
              /\ n.token = m.token /\ n.expected = m.expected
    /\ \A m \in Request, s \in Sids :
          LET n == AgedRequest(m, s)
          IN  /\ n.from = m.from /\ n.kind = m.kind /\ n.live = m.live
              /\ n.token = Older(m.token, s) /\ n.expected = m.expected
    /\ \A a \in Answer, s \in Sids :
          LET b == AgedAnswer(a, s)
          IN  /\ b.from = a.from /\ b.kind = a.kind /\ b.status = a.status
              /\ b.sid = a.sid /\ b.set = a.set /\ b.cookie = Older(a.cookie, s)
    /\ \A a \in Answer :
          LET b == [a EXCEPT !.status = "failed", !.sid = NoSid, !.set = FALSE,
                             !.cookie = NoToken]
          IN  /\ b.from = a.from /\ b.kind = a.kind /\ b.status = "failed"
              /\ b.cookie = NoToken
BY DEF Request, Answer, AgedRequest, AgedAnswer

\* A token that grows older stays the session's, and the current token of
\* another session stays current.
LEMMA OlderIs ==
    ASSUME NEW k \in Token, NEW s \in Sids
    PROVE  /\ Older(k, s).sid = k.sid
           /\ k.sid # s => Older(k, s) = k
           /\ k = NoToken => Older(k, s) = NoToken
BY SidTypes DEF Older, Token, NoToken

\* Where the messages come from.
LEMMA MessageTypes ==
    ASSUME TypeOK
    PROVE  /\ \A m \in requests : /\ m \in Request /\ m.from \in Tabs
                                  /\ m.token \in Token
                                  /\ m.token.sid \in SomeSid
           /\ \A a \in answers : /\ a \in Answer /\ a.from \in Tabs
                                 /\ a.cookie \in Token
                                 /\ a.cookie.sid \in SomeSid
BY RequestTypes, AnswerTypes, TokenTypes DEF TypeOK

\* A lost answer is a failure to its tab, and brings no token.
LEMMA LostIs ==
    ASSUME TypeOK, NEW a \in answers, AnswerLost(a)
    PROVE  \E b : /\ b.from = a.from /\ b.kind = a.kind /\ b.status = "failed"
                  /\ b.cookie = NoToken
                  /\ answers' = (answers \ {a}) \cup {b}
BY MessageTypes, RewrittenFields DEF AnswerLost

\* What an answer that arrives changes in the browser.
LEMMA DeliveryIs ==
    /\ \A a \in answers : Arrives(a) =>
          answers' \subseteq answers /\ (jar' = jar \/ jar' = a.cookie)
    /\ Delivery => /\ answers' \subseteq answers
                   /\ jar' = jar \/ \E a \in answers : jar' = a.cookie
BY DEF Delivery, Arrives

-----------------------------------------------------------------------------
(* Each part of the invariant survives every form of step.                 *)

\* A tab has one exchange under way while its refresh waits for the server,
\* and none otherwise.
LEMMA ExchangeStep ==
    ASSUME TypeOK, ExchangeInv, Step
    PROVE  ExchangeInv'
<1>1. /\ \A m \in requests : m \in Request /\ m.from \in Tabs
      /\ \A a \in answers : a \in Answer /\ a.from \in Tabs
  BY MessageTypes
<1> USE DEF RefreshAsked, RefreshAnswer
<1>2. CASE LocalStep
  <2>1. answers' \subseteq answers
    BY <1>2, DeliveryIs DEF LocalStep
  <2>2. \A m \in requests' : RefreshAsked(m) => m \in requests
    BY <1>2 DEF LocalStep
  <2>3. \A u \in Tabs : runner'[u].pc = runner[u].pc
    BY <1>2 DEF LocalStep
  <2> QED BY <1>1, <2>1, <2>2, <2>3 DEF ExchangeInv
<1>3. ASSUME NEW t \in Tabs, StartStep(t)
      PROVE  ExchangeInv'
  <2>1. answers' \subseteq answers
    BY <1>3, DeliveryIs DEF StartStep
  <2>2. /\ \A m \in requests : RefreshAsked(m) => m.from # t
        /\ \A a \in answers : RefreshAnswer(a) => a.from # t
    BY <1>3 DEF StartStep, ExchangeInv
  <2>3. \A u \in Tabs \ {t} : runner'[u] = runner[u]
    BY <1>3 DEF StartStep, RefreshAuthentication, TypeOK
  <2>4. CASE webLocks
    <3>1. requests' = requests
      BY <1>3, <2>4 DEF StartStep, RefreshAuthentication
    <3> QED BY <1>1, <2>1, <2>2, <2>3, <3>1 DEF ExchangeInv
  <2>5. CASE ~webLocks
    <3> DEFINE n == RefreshRequest(t, store[t].sid)
    <3>1. requests' = requests \cup {n}
      BY <1>3, <2>5 DEF StartStep, RefreshAuthentication
    <3>2. n.from = t
      BY DEF RefreshRequest
    <3>3. runner'[t].pc = "http"
      BY <1>3, <2>5, RunnerTypes DEF StartStep, RefreshAuthentication, TypeOK
    <3> HIDE DEF n
    <3> QED BY <1>1, <2>1, <2>2, <2>3, <3>1, <3>2, <3>3 DEF ExchangeInv
  <2> QED BY <2>4, <2>5
<1>4. ASSUME NEW t \in Tabs, RunStep(t)
      PROVE  ExchangeInv'
  <2>1. /\ \A m \in requests : RefreshAsked(m) => m.from # t
        /\ \A a \in answers : RefreshAnswer(a) => a.from # t
    BY <1>4 DEF RunStep, ExchangeInv
  <2>2. \A u \in Tabs \ {t} : runner'[u] = runner[u]
    BY <1>4 DEF RunStep, TypeOK
  <2> DEFINE n == RefreshRequest(t, store[t].sid)
  <2>3. requests' = requests \cup {n} /\ answers' = answers
    BY <1>4 DEF RunStep
  <2>4. n.from = t
    BY DEF RefreshRequest
  <2>5. runner'[t].pc = "http"
    BY <1>4, RunnerTypes DEF RunStep, TypeOK
  <2> HIDE DEF n
  <2> QED BY <1>1, <2>1, <2>2, <2>3, <2>4, <2>5 DEF ExchangeInv
<1>5. ASSUME NEW t \in Tabs, SettleStep(t)
      PROVE  ExchangeInv'
  <2>1. \A u \in Tabs \ {t} : runner'[u] = runner[u]
    BY <1>5 DEF SettleStep, TypeOK
  <2>2. requests' = requests /\ answers' \subseteq answers
    BY <1>5, DeliveryIs DEF SettleStep
  <2>3. /\ \A m \in requests : RefreshAsked(m) => m.from # t
        /\ \A a \in answers' : RefreshAnswer(a) => a.from # t
    <3>1. CASE runner[t].pc = "queued" /\ UNCHANGED <<jar, answers>>
      BY <3>1 DEF ExchangeInv
    <3>2. ASSUME NEW a \in answers, RefreshAnswer(a), a.from = t, Arrives(a)
          PROVE  /\ \A m \in requests : RefreshAsked(m) => m.from # t
                 /\ \A b \in answers' : RefreshAnswer(b) => b.from # t
      BY <3>2 DEF ExchangeInv, Arrives
    <3> QED BY <1>5, <3>1, <3>2 DEF SettleStep
  <2> QED BY <1>1, <2>1, <2>2, <2>3 DEF ExchangeInv
<1>6. ASSUME NEW t \in Tabs, LoadStep(t)
      PROVE  ExchangeInv'
  <2>1. \A u \in Tabs \ {t} : runner'[u] = runner[u]
    BY <1>6 DEF LoadStep, PageLoad, TypeOK
  <2>2. answers' \subseteq answers
        /\ \A a \in answers' : a.from # t
    BY <1>6 DEF LoadStep, PageLoad
  <2> DEFINE n == RefreshRequest(t, NoSid)
  <2>3. \A m \in requests' : RefreshAsked(m) =>
           \/ m \in requests /\ m.from # t
           \/ m = n /\ runner'[t].pc = "http"
    <3>1. PICK kept \in SUBSET {m \in requests : m.from = t /\ m.live} :
            /\ requests' = (requests \ {m \in requests : m.from = t /\ m.live})
                 \cup {[m EXCEPT !.live = FALSE] : m \in kept}
                 \cup (IF jar # NoToken /\ ~webLocks THEN {n} ELSE {})
            /\ runner' = [runner EXCEPT ![t] =
                             IF jar # NoToken THEN Started ELSE Off]
      BY <1>6 DEF LoadStep, PageLoad
    <3>2. jar # NoToken /\ ~webLocks => runner'[t].pc = "http"
      BY <3>1, RunnerTypes DEF TypeOK
    <3>3. \A m \in kept : ~[m EXCEPT !.live = FALSE].live
      BY <1>1, RewrittenFields
    <3> HIDE DEF n
    <3> QED BY <3>1, <3>2, <3>3
  <2>4. n.from = t
    BY DEF RefreshRequest
  <2> HIDE DEF n
  <2> QED BY <1>1, <2>1, <2>2, <2>3, <2>4 DEF ExchangeInv
<1>7. ASSUME NEW a \in answers, RefreshMismatch(a)
      PROVE  ExchangeInv'
  <2> DEFINE n == RefreshRequest(a.from, NoSid)
  <2>1. requests' = requests \cup {n} /\ answers' = answers \ {a}
        /\ RefreshAnswer(a)
    BY <1>7 DEF RefreshMismatch, Arrives
  <2>2. n.from = a.from
    BY DEF RefreshRequest
  <2>3. \A u \in Tabs : runner'[u].pc = runner[u].pc
    BY <1>1, <1>7, RunnerTypes DEF RefreshMismatch, TypeOK
  <2> HIDE DEF n
  <2> QED BY <1>1, <2>1, <2>2, <2>3 DEF ExchangeInv
<1>8. ASSUME NEW a \in answers, AnswerLost(a)
      PROVE  ExchangeInv'
  <2>1. PICK b : b.from = a.from /\ b.kind = a.kind
                 /\ answers' = (answers \ {a}) \cup {b}
    BY <1>8, LostIs
  <2>2. UNCHANGED <<runner, requests>>
    BY <1>8 DEF AnswerLost, tabVars
  <2> QED BY <2>1, <2>2 DEF ExchangeInv
<1>9. ASSUME NEW m \in requests, NEW r, Answered(m, r),
             requests' = requests \ {m}, UNCHANGED runner
      PROVE  ExchangeInv'
  BY <1>9 DEF ExchangeInv, Answered
<1>10. ASSUME NEW m \in requests, RotateStep(m)
       PROVE  ExchangeInv'
  <2> DEFINE s == m.token.sid
  <2>1. s \in Sids /\ UNCHANGED runner
    BY <1>10 DEF RotateStep, Granted, tabVars
  <2>2. PICK r : /\ r.from = m.from /\ r.kind = m.kind
                 /\ answers' = {AgedAnswer(a, s) : a \in answers}
                                 \cup (IF m.live THEN {r} ELSE {})
    BY <1>10 DEF RotateStep
  <2>3. \A n \in requests' : \E k \in requests \ {m} :
           n = AgedRequest(k, s) /\ n.from = k.from
           /\ (RefreshAsked(n) => RefreshAsked(k))
    BY <1>1, <1>10, <2>1, RewrittenFields DEF RotateStep
  <2>4. \A b \in answers' :
           \/ \E a \in answers : b = AgedAnswer(a, s) /\ b.from = a.from
                                 /\ (RefreshAnswer(b) => RefreshAnswer(a))
           \/ m.live /\ b = r
    BY <1>1, <2>1, <2>2, RewrittenFields
  <2> HIDE DEF s
  <2> QED BY <2>1, <2>2, <2>3, <2>4 DEF ExchangeInv
<1>11. ASSUME NEW m \in requests, FailStep(m)
       PROVE  ExchangeInv'
  <2>1. PICK r : /\ r.from = m.from /\ r.kind = m.kind
                 /\ answers' = answers \cup {r}
    BY <1>11 DEF FailStep, Answered
  <2>2. m.live /\ UNCHANGED runner
    BY <1>11 DEF FailStep, tabVars
  <2>3. \A n \in requests' : RefreshAsked(n) => n \in requests \ {m}
    <3> DEFINE o == [m EXCEPT !.live = FALSE]
    <3>1. requests' \subseteq (requests \ {m}) \cup {o}
      BY <1>11 DEF FailStep
    <3>2. ~o.live
      BY <1>1, RewrittenFields
    <3> HIDE DEF o
    <3> QED BY <3>1, <3>2
  <2> QED BY <2>1, <2>2, <2>3 DEF ExchangeInv
<1>12. CASE ElsewhereStep
  BY <1>12 DEF ElsewhereStep, ExchangeInv, tabVars, netVars
<1>13. ASSUME NEW m \in requests,
              RefuseStep(m) \/ ReissueStep(m) \/ LoginStep(m)
       PROVE  ExchangeInv'
  BY <1>9, <1>13 DEF RefuseStep, ReissueStep, LoginStep, tabVars
<1> QED BY <1>2, <1>3, <1>4, <1>5, <1>6, <1>7, <1>8, <1>10, <1>11, <1>12, <1>13
        DEF Step

\* The session the tab shows stays the one the request named, or none.
LEMMA TabStep ==
    ASSUME TypeOK, ExchangeInv, ExchangeInv', TabInv, Step
    PROVE  TabInv'
<1>1. /\ \A m \in requests : m \in Request /\ m.from \in Tabs
      /\ \A a \in answers : a \in Answer /\ a.from \in Tabs
  BY MessageTypes
<1> USE DEF RefreshAsked, RefreshAnswer
<1>2. CASE LocalStep
  <2>1. answers' \subseteq answers
    BY <1>2, DeliveryIs DEF LocalStep
  <2>2. \A m \in requests' : RefreshAsked(m) => m \in requests
    BY <1>2 DEF LocalStep
  <2>3. \A u \in Tabs : runner[u].pc = "http" /\ runner'[u].current =>
           /\ runner[u].current
           /\ store'[u].sid \in {NoSid, store[u].sid}
    BY <1>2 DEF LocalStep, StoreKept
  <2> QED BY <1>1, <2>1, <2>2, <2>3 DEF TabInv, ExchangeInv
<1>3. ASSUME NEW t \in Tabs, StartStep(t) \/ RunStep(t)
      PROVE  TabInv'
  <2> DEFINE n == RefreshRequest(t, store[t].sid)
  <2>1. answers' \subseteq answers
    BY <1>3, DeliveryIs DEF StartStep, RunStep
  <2>2. /\ \A m \in requests : RefreshAsked(m) => m.from # t
        /\ \A a \in answers : RefreshAnswer(a) => a.from # t
    BY <1>3 DEF StartStep, RunStep, ExchangeInv
  <2>3. requests' \subseteq requests \cup {n}
    BY <1>3 DEF StartStep, RunStep, RefreshAuthentication
  <2>4. \A u \in Tabs \ {t} : runner'[u] = runner[u]
    BY <1>3 DEF StartStep, RunStep, RefreshAuthentication, TypeOK
  <2>5. \A u \in Tabs : store'[u].sid = store[u].sid
    BY <1>3 DEF StartStep, RunStep
  <2>6. n.from = t /\ n.expected = store[t].sid
    BY DEF RefreshRequest
  <2> HIDE DEF n
  <2> QED BY <1>1, <2>1, <2>2, <2>3, <2>4, <2>5, <2>6 DEF TabInv
<1>4. ASSUME NEW t \in Tabs, SettleStep(t)
      PROVE  TabInv'
  <2>1. \A u \in Tabs \ {t} : runner'[u] = runner[u] /\ store'[u] = store[u]
    BY <1>4 DEF SettleStep, TypeOK
  <2>2. requests' = requests /\ answers' \subseteq answers
    BY <1>4, DeliveryIs DEF SettleStep
  <2>3. runner'[t].pc = "off"
    BY <1>4, RunnerTypes DEF SettleStep, TypeOK
  <2>4. /\ \A m \in requests' : RefreshAsked(m) => m.from # t
        /\ \A a \in answers' : RefreshAnswer(a) => a.from # t
    BY <2>3 DEF ExchangeInv
  <2> QED BY <1>1, <2>1, <2>2, <2>4 DEF TabInv
<1>5. ASSUME NEW t \in Tabs, LoadStep(t)
      PROVE  TabInv'
  <2>1. \A u \in Tabs \ {t} : runner'[u] = runner[u]
    BY <1>5 DEF LoadStep, PageLoad, TypeOK
  <2>2. store'[t].sid = NoSid /\ \A u \in Tabs \ {t} : store'[u] = store[u]
    BY <1>5, PageLoadStore DEF LoadStep
  <2>3. answers' \subseteq answers
    BY <1>5 DEF LoadStep, PageLoad
  <2> DEFINE n == RefreshRequest(t, NoSid)
  <2>4. \A m \in requests' : RefreshAsked(m) => m \in requests \/ m = n
    <3>1. PICK kept \in SUBSET {m \in requests : m.from = t /\ m.live} :
            requests' = (requests \ {m \in requests : m.from = t /\ m.live})
                 \cup {[m EXCEPT !.live = FALSE] : m \in kept}
                 \cup (IF jar # NoToken /\ ~webLocks THEN {n} ELSE {})
      BY <1>5 DEF LoadStep, PageLoad
    <3>2. \A m \in kept : ~[m EXCEPT !.live = FALSE].live
      BY <1>1, RewrittenFields
    <3> HIDE DEF n
    <3> QED BY <3>1, <3>2
  <2>5. n.from = t
    BY DEF RefreshRequest
  <2> HIDE DEF n
  <2> QED BY <1>1, <2>1, <2>2, <2>3, <2>4, <2>5 DEF TabInv
<1>6. ASSUME NEW a \in answers, RefreshMismatch(a)
      PROVE  TabInv'
  <2> DEFINE n == RefreshRequest(a.from, NoSid)
  <2>1. requests' = requests \cup {n} /\ answers' \subseteq answers
    BY <1>6, DeliveryIs DEF RefreshMismatch
  <2>2. n.from = a.from
    BY DEF RefreshRequest
  <2>3. \A u \in Tabs \ {a.from} : runner'[u] = runner[u] /\ store'[u] = store[u]
    BY <1>1, <1>6 DEF RefreshMismatch, TypeOK
  <2>4. store'[a.from].sid = NoSid
    BY <1>1, <1>6, StoreTypes DEF RefreshMismatch, TypeOK
  <2> HIDE DEF n
  <2> QED BY <1>1, <2>1, <2>2, <2>3, <2>4 DEF TabInv
<1>7. ASSUME NEW a \in answers, AnswerLost(a)
      PROVE  TabInv'
  <2>1. PICK b : b.status = "failed" /\ answers' = (answers \ {a}) \cup {b}
    BY <1>7, LostIs
  <2>2. UNCHANGED <<runner, requests, store>>
    BY <1>7 DEF AnswerLost, tabVars
  <2> QED BY <2>1, <2>2 DEF TabInv
<1>8. ASSUME NEW m \in requests, NEW r, Answered(m, r),
             requests' = requests \ {m}, UNCHANGED <<runner, store>>,
             r.kind # "refresh" \/ r.status # "ok" \/ Granted(m, r)
      PROVE  TabInv'
  BY <1>8 DEF TabInv, Answered, Granted
<1>9. ASSUME NEW m \in requests, RotateStep(m)
      PROVE  TabInv'
  <2> DEFINE s == m.token.sid
  <2>1. s \in Sids /\ UNCHANGED <<runner, store>>
    BY <1>9 DEF RotateStep, Granted, tabVars
  <2>2. PICK r : /\ Granted(m, r) /\ r.from = m.from /\ r.kind = m.kind
                 /\ answers' = {AgedAnswer(a, s) : a \in answers}
                                 \cup (IF m.live THEN {r} ELSE {})
    BY <1>9 DEF RotateStep
  <2>3. \A n \in requests' : \E k \in requests :
           /\ n.from = k.from /\ n.expected = k.expected
           /\ RefreshAsked(n) => RefreshAsked(k)
    BY <1>1, <1>9, <2>1, RewrittenFields DEF RotateStep
  <2>4. \A b \in answers' :
           \/ \E a \in answers : /\ b.from = a.from /\ b.sid = a.sid
                                 /\ b.status = a.status /\ b.kind = a.kind
           \/ m.live /\ b = r
    BY <1>1, <2>1, <2>2, RewrittenFields
  <2>5. m.expected \in {NoSid, r.sid} /\ RefreshAnswer(m)
    BY <2>2 DEF Granted
  <2> HIDE DEF s
  <2> QED BY <2>1, <2>2, <2>3, <2>4, <2>5 DEF TabInv
<1>10. ASSUME NEW m \in requests, FailStep(m)
       PROVE  TabInv'
  <2>1. PICK r : r.status # "ok" /\ answers' = answers \cup {r}
    BY <1>10 DEF FailStep, Answered
  <2>2. UNCHANGED <<runner, store>>
    BY <1>10 DEF FailStep, tabVars
  <2>3. \A n \in requests' : RefreshAsked(n) => n \in requests
    <3> DEFINE o == [m EXCEPT !.live = FALSE]
    <3>1. requests' \subseteq requests \cup {o}
      BY <1>10 DEF FailStep
    <3>2. ~o.live
      BY <1>1, RewrittenFields
    <3> HIDE DEF o
    <3> QED BY <3>1, <3>2
  <2> QED BY <2>1, <2>2, <2>3 DEF TabInv
<1>11. CASE ElsewhereStep
  BY <1>11 DEF ElsewhereStep, TabInv, tabVars, netVars
<1>12. ASSUME NEW m \in requests,
              RefuseStep(m) \/ ReissueStep(m) \/ LoginStep(m)
       PROVE  TabInv'
  BY <1>8, <1>12 DEF RefuseStep, ReissueStep, LoginStep, tabVars
<1> QED BY <1>2, <1>3, <1>4, <1>5, <1>6, <1>7, <1>9, <1>10, <1>11, <1>12 DEF Step

\* A tab queues behind the others.
LEMMA AppendIs ==
    ASSUME NEW q \in Seq(Tabs), NEW t \in Tabs
    PROVE  /\ \E i \in DOMAIN Append(q, t) : Append(q, t)[i] = t
           /\ \A u \in Tabs : (\E i \in DOMAIN q : q[i] = u) =>
                 /\ \E i \in DOMAIN Append(q, t) : Append(q, t)[i] = u
                 /\ Head(Append(q, t)) = Head(q)
<1> DEFINE p == Append(q, t)
<1>1. /\ p \in Seq(Tabs) /\ Len(p) = Len(q) + 1 /\ p[Len(q) + 1] = t
      /\ \A i \in 1 .. Len(q) : p[i] = q[i]
  OBVIOUS
<1>2. DOMAIN q = 1 .. Len(q) /\ DOMAIN p = 1 .. Len(q) + 1 /\ Len(q) \in Nat
  BY <1>1
<1>3. Len(q) > 0 => Head(p) = p[1] /\ Head(q) = q[1] /\ p[1] = q[1]
  BY <1>1, <1>2
<1> HIDE DEF p
<1>4. \E i \in DOMAIN p : p[i] = t
  BY <1>1, <1>2
<1>5. ASSUME NEW u \in Tabs, NEW i \in DOMAIN q, q[i] = u
      PROVE  /\ \E k \in DOMAIN p : p[k] = u
             /\ Head(p) = Head(q)
  <2>1. i \in DOMAIN p /\ p[i] = u /\ Len(q) > 0
    BY <1>1, <1>2, <1>5
  <2> QED BY <1>3, <2>1
<1> QED BY <1>4, <1>5 DEF p

\* The lock is held by the tab whose request has left.
LEMMA LockStep ==
    ASSUME TypeOK, LockInv, Step
    PROVE  LockInv'
<1>1. /\ \A m \in requests : m \in Request /\ m.from \in Tabs
      /\ \A a \in answers : a \in Answer /\ a.from \in Tabs
  BY MessageTypes
<1>2. ASSUME UNCHANGED <<webLocks, locks>>,
             \A u \in Tabs : runner'[u].pc = runner[u].pc
      PROVE  LockInv'
  BY <1>2 DEF LockInv
<1>3. CASE LocalStep
  BY <1>2, <1>3 DEF LocalStep
<1>4. ASSUME NEW t \in Tabs, StartStep(t)
      PROVE  LockInv'
  <2>1. SUFFICES ASSUME webLocks PROVE LockInv'
    BY <1>4 DEF LockInv, StartStep
  <2>2. locks' = Append(locks, t) /\ locks \in Seq(Tabs)
    BY <1>4, <2>1 DEF StartStep, RefreshAuthentication, TypeOK
  <2>3. runner'[t].pc = "queued" /\ \A u \in Tabs \ {t} : runner'[u] = runner[u]
    BY <1>4, <2>1, RunnerTypes DEF StartStep, RefreshAuthentication, TypeOK
  <2> DEFINE q == Append(locks, t)
  <2> HIDE DEF q
  <2>4. /\ locks' = q /\ \E i \in DOMAIN q : q[i] = t
        /\ \A u \in Tabs : (\E i \in DOMAIN locks : locks[i] = u) =>
              (\E i \in DOMAIN q : q[i] = u) /\ Head(q) = Head(locks)
    BY <2>2, AppendIs DEF q
  <2> QED BY <2>1, <2>3, <2>4 DEF LockInv
<1>5. ASSUME NEW t \in Tabs, RunStep(t)
      PROVE  LockInv'
  <2>1. \A u \in Tabs \ {t} : runner'[u] = runner[u]
    BY <1>5 DEF RunStep, TypeOK
  <2> QED BY <1>5, <2>1 DEF LockInv, RunStep
<1>6. ASSUME NEW t \in Tabs, runner'[t].pc = "off",
             \A u \in Tabs \ {t} : runner'[u] = runner[u],
             locks' = Unqueued(t), UNCHANGED webLocks
      PROVE  LockInv'
  <2>1. locks \in Seq(Tabs)
    BY DEF TypeOK
  <2>2. \A u \in Tabs : webLocks /\ runner[u].pc # "off" => locks # <<>>
    BY <2>1 DEF LockInv
  <2>3. ASSUME NEW u \in Tabs, webLocks', runner'[u].pc # "off"
        PROVE  /\ \E i \in DOMAIN locks' : locks'[i] = u
               /\ runner'[u].pc = "http" => Head(locks') = u
    <3>1. u # t /\ runner'[u] = runner[u] /\ webLocks
      BY <1>6, <2>3
    <3>2. /\ \E i \in DOMAIN locks : locks[i] = u
          /\ runner[u].pc = "http" => Head(locks) = u
      BY <2>3, <3>1 DEF LockInv
    <3>3. locks # <<>>
      BY <2>2, <2>3, <3>1
    <3>4. /\ \E i \in DOMAIN Unqueued(t) : Unqueued(t)[i] = u
          /\ runner[u].pc = "http" => Head(Unqueued(t)) = u
      BY <2>1, <3>1, <3>2, <3>3, UnqueuedIs
    <3> QED BY <1>6, <3>1, <3>4
  <2> QED BY <2>3 DEF LockInv
<1>7. ASSUME NEW t \in Tabs, SettleStep(t)
      PROVE  LockInv'
  <2>1. runner'[t].pc = "off" /\ \A u \in Tabs \ {t} : runner'[u] = runner[u]
    BY <1>7, RunnerTypes DEF SettleStep, TypeOK
  <2> QED BY <1>6, <1>7, <2>1 DEF SettleStep
<1>8. ASSUME NEW t \in Tabs, LoadStep(t)
      PROVE  LockInv'
  <2>1. SUFFICES ASSUME webLocks PROVE LockInv'
    BY <1>8 DEF LockInv, LoadStep
  <2>2. \A u \in Tabs \ {t} : runner'[u] = runner[u]
    BY <1>8 DEF LoadStep, PageLoad, TypeOK
  <2>3. CASE jar = NoToken
    <3>1. runner'[t].pc = "off" /\ locks' = Unqueued(t)
      BY <1>8, <2>3, RunnerTypes DEF LoadStep, PageLoad, TypeOK
    <3> QED BY <1>6, <1>8, <2>2, <3>1 DEF LoadStep
  <2>4. CASE jar # NoToken
    <3>1. runner'[t].pc = "queued" /\ locks' = Append(Unqueued(t), t)
      BY <1>8, <2>1, <2>4, RunnerTypes DEF LoadStep, PageLoad, TypeOK
    <3>2. locks \in Seq(Tabs) /\ Unqueued(t) \in Seq(Tabs)
      BY UnqueuedIs DEF TypeOK
    <3>3. ASSUME NEW u \in Tabs \ {t}, runner'[u].pc # "off"
          PROVE  /\ \E i \in DOMAIN locks' : locks'[i] = u
                 /\ runner'[u].pc = "http" => Head(locks') = u
      <4>1. /\ \E i \in DOMAIN locks : locks[i] = u
            /\ runner[u].pc = "http" => Head(locks) = u
        BY <2>1, <2>2, <3>3 DEF LockInv
      <4>2. locks # <<>>
        BY <3>2, <4>1
      <4>3. /\ \E i \in DOMAIN Unqueued(t) : Unqueued(t)[i] = u
            /\ runner[u].pc = "http" => Head(Unqueued(t)) = u
        BY <3>2, <4>1, <4>2, UnqueuedIs
      <4> DEFINE q == Append(Unqueued(t), t)
      <4> HIDE DEF q
      <4>4. (\E i \in DOMAIN q : q[i] = u) /\ Head(q) = Head(Unqueued(t))
        BY <3>2, <4>3, AppendIs DEF q
      <4>5. locks' = q
        BY <3>1 DEF q
      <4> QED BY <2>2, <4>3, <4>4, <4>5
    <3>4. \E i \in DOMAIN locks' : locks'[i] = t
      BY <3>1, <3>2, AppendIs
    <3> QED BY <3>1, <3>3, <3>4 DEF LockInv
  <2> QED BY <2>3, <2>4
<1>9. ASSUME NEW a \in answers, RefreshMismatch(a)
      PROVE  LockInv'
  <2>1. \A u \in Tabs : runner'[u].pc = runner[u].pc
    BY <1>1, <1>9, RunnerTypes DEF RefreshMismatch, TypeOK
  <2> QED BY <1>2, <1>9, <2>1 DEF RefreshMismatch
<1>10. ASSUME UNCHANGED <<tabVars, webLocks>>
       PROVE  LockInv'
  BY <1>2, <1>10 DEF tabVars
<1> QED BY <1>3, <1>4, <1>5, <1>7, <1>8, <1>9, <1>10
        DEF Step, AnswerLost, RefuseStep, ReissueStep, RotateStep, LoginStep,
            FailStep, ElsewhereStep

\* Where the requests of a loaded page come from.
LEMMA PageLoadRequests ==
    ASSUME TypeOK, NEW t \in Tabs, PageLoad(t)
    PROVE  \A n \in requests' :
              \/ n \in requests /\ ~(n.from = t /\ n.live)
              \/ /\ n = RefreshRequest(t, NoSid) /\ ~webLocks
                 /\ runner'[t].pc = "http"
              \/ /\ ~n.live
                 /\ \E m \in requests :
                       /\ n.token = m.token /\ n.kind = m.kind
                       /\ m.kind = "refresh" /\ m.token.sid # NoSid =>
                             m.token.sid \in astray'
<1>1. \A m \in requests : m \in Request
  BY DEF TypeOK
<1> DEFINE mine == {m \in requests : m.from = t /\ m.live}
           n == RefreshRequest(t, NoSid)
<1>2. PICK kept \in SUBSET mine :
        /\ requests' = (requests \ mine)
             \cup {[m EXCEPT !.live = FALSE] : m \in kept}
             \cup (IF jar # NoToken /\ ~webLocks THEN {n} ELSE {})
        /\ runner' = [runner EXCEPT ![t] =
                         IF jar # NoToken THEN Started ELSE Off]
        /\ {m.token.sid : m \in {k \in kept : k.kind = "refresh"}} \ {NoSid}
             \subseteq astray'
  BY DEF PageLoad
<1>3. jar # NoToken /\ ~webLocks => runner'[t].pc = "http"
  BY <1>2, RunnerTypes DEF TypeOK
<1>4. \A m \in kept : /\ ~[m EXCEPT !.live = FALSE].live
                      /\ [m EXCEPT !.live = FALSE].token = m.token
                      /\ [m EXCEPT !.live = FALSE].kind = m.kind
  BY <1>1, RewrittenFields
<1>5. \A m \in kept : m.kind = "refresh" /\ m.token.sid # NoSid =>
         m.token.sid \in astray'
  BY <1>2
<1> HIDE DEF n
<1> QED BY <1>2, <1>3, <1>4, <1>5 DEF n

\* No token is ever of a session the server has not created.
LEMMA TokenStep ==
    ASSUME TypeOK, TokenInv, Step
    PROVE  TokenInv'
<1>1. /\ \A m \in requests : m \in Request /\ m.from \in Tabs
      /\ \A a \in answers : a \in Answer /\ a.from \in Tabs
  BY MessageTypes
<1>2. \A s \in Sids : sess[s].status # "unused" => sess'[s].status # "unused"
  BY DEF Step, LocalStep, StartStep, RunStep, SettleStep, LoadStep,
         RefreshMismatch, AnswerLost, RefuseStep, ReissueStep, RotateStep,
         LoginStep, FailStep, ElsewhereStep, SessionsEnd
<1>3. \/ jar' = jar \/ \E a \in answers : jar' = a.cookie
      \/ \E s \in Sids : jar' = Older(jar, s)
  BY DeliveryIs
  DEF Step, LocalStep, StartStep, RunStep, SettleStep, LoadStep,
      RefreshMismatch, AnswerLost, RefuseStep, ReissueStep, RotateStep,
      LoginStep, FailStep, ElsewhereStep, netVars, Granted
<1>4. ASSUME NEW n \in requests'
      PROVE  \/ n.token \in {jar, NoToken}
             \/ \E m \in requests : \/ n.token = m.token
                                    \/ \E s \in Sids : n.token = Older(m.token, s)
  <2>1. CASE n \in requests
    BY <2>1
  <2>2. \A t \in Tabs, e \in SomeSid : RefreshRequest(t, e).token = jar
    BY DEF RefreshRequest
  <2>3. ASSUME LocalStep \/ \E t \in Tabs : StartStep(t) \/ RunStep(t)
                                              \/ SettleStep(t)
        PROVE  n \in requests \/ n.token \in {jar, NoToken}
    <3>1. CASE LocalStep
      BY <3>1 DEF LocalStep
    <3>2. ASSUME NEW t \in Tabs, StartStep(t) \/ RunStep(t) \/ SettleStep(t)
          PROVE  n \in requests \/ n.token \in {jar, NoToken}
      <4>1. requests' \subseteq requests \cup {RefreshRequest(t, store[t].sid)}
        BY <3>2 DEF StartStep, RunStep, SettleStep, RefreshAuthentication
      <4>2. RefreshRequest(t, store[t].sid).token = jar
        BY DEF RefreshRequest
      <4> QED BY <4>1, <4>2
    <3> QED BY <2>3, <3>1, <3>2
  <2>4. ASSUME NEW t \in Tabs, LoadStep(t)
        PROVE  \/ n.token = jar \/ \E m \in requests : n.token = m.token
    BY <2>2, <2>4, PageLoadRequests, SidTypes DEF LoadStep
  <2>5. ASSUME NEW a \in answers, RefreshMismatch(a) \/ AnswerLost(a)
        PROVE  n \in requests \/ n.token = jar
    BY <1>1, <2>2, <2>5, SidTypes DEF RefreshMismatch, AnswerLost
  <2>6. ASSUME NEW m \in requests, RefuseStep(m) \/ ReissueStep(m) \/ LoginStep(m)
        PROVE  n \in requests
    BY <2>6 DEF RefuseStep, ReissueStep, LoginStep
  <2>7. ASSUME NEW m \in requests, RotateStep(m)
        PROVE  \E k \in requests, s \in Sids : n.token = Older(k.token, s)
    BY <1>1, <2>7, RewrittenFields DEF RotateStep, Granted
  <2>8. ASSUME NEW m \in requests, FailStep(m)
        PROVE  n \in requests \/ n.token = m.token
    <3> DEFINE o == [m EXCEPT !.live = FALSE]
    <3>1. requests' \subseteq requests \cup {o}
      BY <2>8 DEF FailStep
    <3>2. o.token = m.token
      BY <1>1, RewrittenFields
    <3> HIDE DEF o
    <3> QED BY <3>1, <3>2
  <2>9. CASE ElsewhereStep
    BY <2>9 DEF ElsewhereStep, netVars
  <2> QED BY <2>1, <2>3, <2>4, <2>5, <2>6, <2>7, <2>8, <2>9 DEF Step
<1>5. ASSUME NEW b \in answers'
      PROVE  \/ b.cookie = NoToken
             \/ \E a \in answers :
                   /\ b.set = a.set /\ b.status = a.status /\ b.kind = a.kind
                   /\ \/ b.cookie = a.cookie
                      \/ \E s \in Sids : b.cookie = Older(a.cookie, s)
             \/ /\ b.cookie.sid \in Sids /\ sess'[b.cookie.sid].status # "unused"
                /\ b.set /\ b.status = "ok" /\ b.kind \in {"refresh", "login"}
  <2>1. CASE b \in answers
    BY <2>1
  <2>2. ASSUME LocalStep \/ \E t \in Tabs : StartStep(t) \/ RunStep(t)
                                              \/ SettleStep(t)
        PROVE  b \in answers
    BY <2>2, DeliveryIs DEF LocalStep, StartStep, RunStep, SettleStep
  <2>3. ASSUME NEW t \in Tabs, LoadStep(t)
        PROVE  b \in answers
    BY <2>3 DEF LoadStep, PageLoad
  <2>4. ASSUME NEW a \in answers, RefreshMismatch(a)
        PROVE  b \in answers
    BY <2>4, DeliveryIs DEF RefreshMismatch
  <2>5. ASSUME NEW a \in answers, AnswerLost(a)
        PROVE  b \in answers \/ b.cookie = NoToken
    BY <2>5, LostIs
  <2>6. ASSUME NEW m \in requests, RefuseStep(m) \/ FailStep(m)
        PROVE  b \in answers \/ b.cookie = NoToken
    BY <2>6 DEF RefuseStep, FailStep, Answered
  <2>7. ASSUME NEW m \in requests, NEW r, Granted(m, r), r.kind = m.kind
        PROVE  /\ r.cookie.sid \in Sids /\ sess'[r.cookie.sid].status # "unused"
               /\ r.set /\ r.status = "ok" /\ r.kind \in {"refresh", "login"}
    BY <1>2, <2>7 DEF Granted
  <2>8. ASSUME NEW m \in requests, ReissueStep(m)
        PROVE  b \in answers \/ \E r : Granted(m, r) /\ r.kind = m.kind /\ b = r
    BY <2>8 DEF ReissueStep, Answered
  <2>9. ASSUME NEW m \in requests, LoginStep(m)
        PROVE  b \in answers \/
                 (/\ b.cookie.sid \in Sids /\ sess'[b.cookie.sid].status # "unused"
                  /\ b.set /\ b.status = "ok" /\ b.kind \in {"refresh", "login"})
    BY <2>9 DEF LoginStep, Answered
  <2>10. ASSUME NEW m \in requests, RotateStep(m)
         PROVE  \/ \E a \in answers, s \in Sids :
                      /\ b.set = a.set /\ b.status = a.status /\ b.kind = a.kind
                      /\ b.cookie = Older(a.cookie, s)
                \/ \E r : Granted(m, r) /\ r.kind = m.kind /\ b = r
    <3>1. m.token.sid \in Sids
      BY <2>10 DEF RotateStep, Granted
    <3>2. \/ \E a \in answers : b = AgedAnswer(a, m.token.sid)
          \/ \E r : Granted(m, r) /\ r.kind = m.kind /\ b = r
      BY <2>10 DEF RotateStep
    <3> QED BY <1>1, <3>1, <3>2, RewrittenFields
  <2>11. CASE ElsewhereStep
    BY <2>11 DEF ElsewhereStep, netVars
  <2> QED BY <2>1, <2>2, <2>3, <2>4, <2>5, <2>6, <2>7, <2>8, <2>9, <2>10, <2>11
          DEF Step
<1> DEFINE K(k) == IF k.sid = NoSid THEN k = NoToken
                   ELSE sess'[k.sid].status # "unused"
<1>6. /\ jar \in Token /\ Known(jar)
      /\ \A m \in requests : m.token \in Token /\ Known(m.token)
      /\ \A a \in answers : a.cookie \in Token /\ Known(a.cookie)
  BY MessageTypes DEF TypeOK, TokenInv
<1>7. \A k \in Token : Known(k) => K(k) /\ \A s \in Sids : K(Older(k, s))
  BY <1>2, OlderIs, TokenTypes, SidTypes DEF Known
<1>8. K(NoToken)
  BY TokenTypes
<1> HIDE DEF K
<1>9. K(jar')
  BY <1>3, <1>6, <1>7
<1>10. \A n \in requests' : K(n.token)
  BY <1>4, <1>6, <1>7, <1>8
<1>11. \A b \in answers' : K(b.cookie)
  BY <1>5, <1>6, <1>7, <1>8, SidTypes DEF K
<1>12. \A b \in answers' : b.cookie.sid # NoSid =>
          b.set /\ b.status = "ok" /\ b.kind \in {"refresh", "login"}
  <2>1. \A a \in answers, s \in Sids : Older(a.cookie, s).sid = a.cookie.sid
    BY <1>6, OlderIs
  <2> QED BY <1>5, <2>1, TokenTypes DEF TokenInv
<1> QED BY <1>9, <1>10, <1>11, <1>12 DEF TokenInv, Known, K

\* The token of a sign-in stays where it is until its answer arrives.
LEMMA LoginInvStep ==
    ASSUME TypeOK, TokenInv, LoginInv, Step
    PROVE  LoginInv'
<1>1. /\ \A m \in requests : m \in Request /\ m.from \in Tabs
      /\ \A a \in answers : a \in Answer /\ a.from \in Tabs
  BY MessageTypes
<1>2. ASSUME answers' \subseteq answers,
             jar' = jar \/ \E a \in answers \ answers' : jar' = a.cookie,
             \A n \in requests' : n.kind = "refresh" =>
                \/ n.token = jar
                \/ \E m \in requests : m.kind = "refresh" /\ n.token = m.token
      PROVE  LoginInv'
  BY <1>2 DEF LoginInv
<1>3. \A a \in answers : Arrives(a) =>
         /\ answers' \subseteq answers
         /\ jar' = jar \/ \E b \in answers \ answers' : jar' = b.cookie
  BY DEF Arrives
<1>4. Delivery => /\ answers' \subseteq answers
                  /\ jar' = jar \/ \E a \in answers \ answers' : jar' = a.cookie
  BY <1>3 DEF Delivery
<1>5. CASE LocalStep
  BY <1>2, <1>4, <1>5 DEF LocalStep
<1>6. ASSUME NEW t \in Tabs, StartStep(t) \/ RunStep(t) \/ SettleStep(t)
      PROVE  LoginInv'
  <2>1. requests' \subseteq requests \cup {RefreshRequest(t, store[t].sid)}
    BY <1>6 DEF StartStep, RunStep, SettleStep, RefreshAuthentication
  <2>2. RefreshRequest(t, store[t].sid).token = jar
    BY DEF RefreshRequest
  <2>3. \A n \in requests' : n.kind = "refresh" =>
           \/ n.token = jar
           \/ \E m \in requests : m.kind = "refresh" /\ n.token = m.token
    BY <2>1, <2>2
  <2>4. /\ answers' \subseteq answers
        /\ jar' = jar \/ \E a \in answers \ answers' : jar' = a.cookie
    BY <1>3, <1>4, <1>6 DEF StartStep, RunStep, SettleStep
  <2> QED BY <1>2, <2>3, <2>4
<1>7. ASSUME NEW t \in Tabs, LoadStep(t)
      PROVE  LoginInv'
  <2>1. RefreshRequest(t, NoSid).token = jar
    BY DEF RefreshRequest
  <2>2. \A n \in requests' : n.kind = "refresh" =>
           \/ n.token = jar
           \/ \E m \in requests : m.kind = "refresh" /\ n.token = m.token
    BY <1>7, <2>1, PageLoadRequests DEF LoadStep
  <2>3. answers' \subseteq answers /\ jar' = jar
    BY <1>7 DEF LoadStep, PageLoad
  <2> QED BY <1>2, <2>2, <2>3
<1>8. ASSUME NEW a \in answers, RefreshMismatch(a)
      PROVE  LoginInv'
  <2>1. RefreshRequest(a.from, NoSid).token = jar
    BY DEF RefreshRequest
  <2>2. requests' = requests \cup {RefreshRequest(a.from, NoSid)} /\ Arrives(a)
    BY <1>8 DEF RefreshMismatch
  <2> QED BY <1>2, <1>3, <2>1, <2>2
<1>9. ASSUME NEW a \in answers, AnswerLost(a)
      PROVE  LoginInv'
  <2>1. PICK b : b.cookie = NoToken /\ answers' = (answers \ {a}) \cup {b}
    BY <1>9, LostIs
  <2>2. UNCHANGED <<requests, jar>>
    BY <1>9 DEF AnswerLost
  <2> QED BY <2>1, <2>2, TokenTypes DEF LoginInv
<1>10. ASSUME NEW m \in requests, RefuseStep(m) \/ FailStep(m)
       PROVE  LoginInv'
  <2>1. PICK r : r.cookie = NoToken /\ answers' \subseteq answers \cup {r}
    BY <1>10 DEF RefuseStep, FailStep, Answered
  <2>2. jar' = jar
    BY <1>10 DEF RefuseStep, FailStep
  <2>3. \A n \in requests' : \E k \in requests : n.kind = k.kind /\ n.token = k.token
    <3> DEFINE o == [m EXCEPT !.live = FALSE]
    <3>1. requests' \subseteq requests \cup {o}
      BY <1>10 DEF RefuseStep, FailStep
    <3>2. o.kind = m.kind /\ o.token = m.token
      BY <1>1, RewrittenFields
    <3> HIDE DEF o
    <3> QED BY <3>1, <3>2
  <2> QED BY <2>1, <2>2, <2>3, TokenTypes DEF LoginInv
<1>11. ASSUME NEW m \in requests, ReissueStep(m)
       PROVE  LoginInv'
  <2>1. PICK r : /\ r.kind = m.kind /\ Granted(m, r)
                 /\ answers' \subseteq answers \cup {r}
    BY <1>11 DEF ReissueStep, Answered
  <2>2. r.cookie.sid = m.token.sid /\ m.kind = "refresh"
    BY <2>1 DEF Granted
  <2>3. jar' = jar /\ requests' \subseteq requests
    BY <1>11 DEF ReissueStep
  <2> QED BY <2>1, <2>2, <2>3 DEF LoginInv
<1>12. ASSUME NEW m \in requests, RotateStep(m)
       PROVE  LoginInv'
  <2> DEFINE s == m.token.sid
  <2>1. PICK r : /\ r.kind = m.kind /\ Granted(m, r)
                 /\ answers' = {AgedAnswer(a, s) : a \in answers}
                                 \cup (IF m.live THEN {r} ELSE {})
    BY <1>12 DEF RotateStep
  <2>2. r.cookie.sid = s /\ m.kind = "refresh" /\ s \in Sids
    BY <2>1 DEF Granted
  <2>3. \A b \in answers' :
           \/ \E a \in answers : /\ b = AgedAnswer(a, s) /\ b.kind = a.kind
                                 /\ b.cookie.sid = a.cookie.sid
           \/ b = r
    <3>1. \A a \in answers : /\ AgedAnswer(a, s).kind = a.kind
                             /\ AgedAnswer(a, s).cookie.sid = a.cookie.sid
      BY <1>1, <2>2, MessageTypes, RewrittenFields, OlderIs
    <3> QED BY <2>1, <3>1
  <2>4. \A n \in requests' : \E k \in requests :
           n.kind = k.kind /\ n.token.sid = k.token.sid
    <3>1. \A k \in requests : /\ AgedRequest(k, s).kind = k.kind
                              /\ AgedRequest(k, s).token.sid = k.token.sid
      BY <1>1, <2>2, MessageTypes, RewrittenFields, OlderIs
    <3> QED BY <1>12, <3>1 DEF RotateStep
  <2>5. jar'.sid = jar.sid
    BY <1>12, <2>2, OlderIs DEF RotateStep, TypeOK
  <2> HIDE DEF s
  <2>6. \A a \in answers : a.kind = "login" /\ a.cookie.sid # NoSid =>
           a.cookie.sid # s
    BY <2>2 DEF LoginInv, s
  <2>7. SUFFICES ASSUME NEW b \in answers', b.kind = "login",
                        b.cookie.sid # NoSid
                 PROVE  /\ jar'.sid # b.cookie.sid
                        /\ \A n \in requests' : n.kind = "refresh" =>
                              n.token.sid # b.cookie.sid
                        /\ \A c \in answers' :
                              c.cookie.sid = b.cookie.sid => c = b
    BY DEF LoginInv
  <2>8. PICK a \in answers : /\ b = AgedAnswer(a, s) /\ b.kind = a.kind
                             /\ b.cookie.sid = a.cookie.sid
    BY <2>1, <2>2, <2>3, <2>7
  <2>9. /\ jar.sid # a.cookie.sid
        /\ \A n \in requests : n.kind = "refresh" => n.token.sid # a.cookie.sid
        /\ \A c \in answers : c.cookie.sid = a.cookie.sid => c = a
    BY <2>7, <2>8 DEF LoginInv
  <2>10. ASSUME NEW c \in answers', c.cookie.sid = b.cookie.sid
         PROVE  c = b
    BY <2>2, <2>3, <2>6, <2>7, <2>8, <2>9, <2>10
  <2> QED BY <2>4, <2>5, <2>8, <2>9, <2>10
<1>13. ASSUME NEW m \in requests, LoginStep(m)
       PROVE  LoginInv'
  <2>1. PICK s, r :
          /\ s \in Sids
          /\ sess[s].status = "unused" /\ r.cookie = [sid |-> s, age |-> 0]
          /\ answers' \subseteq answers \cup {r}
    BY <1>13 DEF LoginStep, Answered
  <2>2. jar' = jar /\ requests' \subseteq requests
    BY <1>13 DEF LoginStep
  <2>3. /\ jar.sid # s /\ \A n \in requests : n.token.sid # s
        /\ \A a \in answers : a.cookie.sid # s
    BY <2>1, SidTypes DEF TokenInv, Known
  <2> QED BY <2>1, <2>2, <2>3 DEF LoginInv
<1>14. CASE ElsewhereStep
  BY <1>14 DEF ElsewhereStep, LoginInv, netVars
<1> QED BY <1>5, <1>6, <1>7, <1>8, <1>9, <1>10, <1>11, <1>12, <1>13, <1>14
        DEF Step

\* With Web Locks one refresh at a time is under way, whatever the tabs do.
LEMMA OneExchange ==
    ASSUME TypeOK, ExchangeInv, LockInv, webLocks
    PROVE  /\ \A m, n \in requests : RefreshAsked(m) /\ RefreshAsked(n) => m = n
           /\ \A a, b \in answers : RefreshAnswer(a) /\ RefreshAnswer(b) => a = b
           /\ \A m \in requests, a \in answers :
                 ~(RefreshAsked(m) /\ RefreshAnswer(a))
<1>1. \A t, u \in Tabs : runner[t].pc = "http" /\ runner[u].pc = "http" => t = u
  BY DEF LockInv
<1> QED BY <1>1, MessageTypes DEF ExchangeInv

\* A rotation makes every other copy of the token older.  There is none that
\* matters: the lock leaves one exchange, and its answer replaces the jar's.
LEMMA FreshInvStep ==
    ASSUME TypeOK, TokenInv, ExchangeInv, LockInv, LoginInv, FreshInv, Step
    PROVE  FreshInv'
<1>1. /\ \A m \in requests : m \in Request /\ m.from \in Tabs
      /\ \A a \in answers : a \in Answer /\ a.from \in Tabs
  BY MessageTypes
<1>2. astray \subseteq astray' /\ webLocks' = webLocks
  BY DEF Step, LocalStep, StartStep, RunStep, SettleStep, LoadStep, PageLoad,
         RefreshMismatch, AnswerLost, RefuseStep, ReissueStep, RotateStep,
         LoginStep, FailStep, ElsewhereStep, histVars
<1> DEFINE Requests(s) == \A m \in requests : m.kind = "refresh" /\ m.token.sid = s =>
                             m.live /\ m.token.age = 0
           Jar(s) == jar.sid = s =>
                        \/ jar.age = 0
                        \/ \E a \in answers : RefreshAnswer(a) /\ a.cookie.sid = s
           Cookies(s) == \A a \in answers : a.cookie.sid = s => a.cookie.age = 0
<1>3. SUFFICES ASSUME NEW s \in Sids, webLocks, sess'[s].status = "active",
                      s \notin astray'
               PROVE  Requests(s)' /\ Jar(s)' /\ Cookies(s)'
  BY <1>2 DEF FreshInv, Fresh
<1>4. s # NoSid /\ s \notin astray /\ NoToken.sid = NoSid
  BY <1>2, <1>3, SidTypes, TokenTypes
<1>5. sess[s].status = "active" => Requests(s) /\ Jar(s) /\ Cookies(s)
  BY <1>3, <1>4 DEF FreshInv, Fresh
<1>6. \A a \in answers : a.cookie.sid = s =>
         a.set /\ a.status = "ok" /\ a.kind \in {"refresh", "login"}
  BY <1>4 DEF TokenInv
<1> HIDE DEF Requests, Jar, Cookies
<1>7. ASSUME NEW a \in answers, Arrives(a), Jar(s), Cookies(s)
      PROVE  Cookies(s)' /\ Jar(s)'
  <2>1. answers' = answers \ {a} /\ jar' = IF a.set THEN a.cookie ELSE jar
    BY <1>7 DEF Arrives
  <2>2. Cookies(s)'
    BY <1>7, <2>1 DEF Cookies
  <2>3. CASE a.set
    BY <1>7, <2>1, <2>3 DEF Jar, Cookies
  <2>4. CASE ~a.set
    <3>1. a.cookie.sid # s
      BY <1>6, <2>4
    <3>2. jar' = jar
      BY <2>1, <2>4
    <3>3. \A b \in answers : b.cookie.sid = s => b \in answers'
      BY <2>1, <3>1
    <3> QED BY <1>7, <2>2, <3>2, <3>3 DEF Jar
  <2> QED BY <2>2, <2>3, <2>4
<1>8. ASSUME Delivery, Jar(s), Cookies(s)
      PROVE  Cookies(s)' /\ Jar(s)'
  BY <1>7, <1>8 DEF Delivery, Jar, Cookies
<1>9. CASE LocalStep
  <2>1. Requests(s) /\ Jar(s) /\ Cookies(s)
    BY <1>3, <1>5, <1>9 DEF LocalStep
  <2>2. Requests(s)'
    BY <1>9, <2>1 DEF LocalStep, Requests
  <2> QED BY <1>8, <1>9, <2>1, <2>2 DEF LocalStep
<1>10. ASSUME NEW t \in Tabs, StartStep(t)
       PROVE  Requests(s)' /\ Jar(s)' /\ Cookies(s)'
  <2>1. Requests(s) /\ Jar(s) /\ Cookies(s)
    BY <1>3, <1>5, <1>10 DEF StartStep
  <2>2. requests' = requests
    BY <1>3, <1>10 DEF StartStep, RefreshAuthentication
  <2> QED BY <1>8, <1>10, <2>1, <2>2 DEF StartStep, Requests
<1>11. ASSUME NEW t \in Tabs, RunStep(t)
       PROVE  Requests(s)' /\ Jar(s)' /\ Cookies(s)'
  <2> DEFINE n == RefreshRequest(t, store[t].sid)
  <2>1. Requests(s) /\ Jar(s) /\ Cookies(s)
    BY <1>3, <1>5, <1>11 DEF RunStep
  <2>2. \A a \in answers : ~RefreshAnswer(a)
    BY <1>1, <1>3, <1>11 DEF RunStep, ExchangeInv, LockInv
  <2>3. n.live /\ n.token = jar
    BY DEF RefreshRequest
  <2>4. requests' = requests \cup {n} /\ answers' = answers /\ jar' = jar
    BY <1>11 DEF RunStep
  <2> HIDE DEF n
  <2>5. Requests(s)'
    BY <2>1, <2>2, <2>3, <2>4 DEF Requests, Jar
  <2> QED BY <2>1, <2>4, <2>5 DEF Jar, Cookies
<1>12. ASSUME NEW t \in Tabs, SettleStep(t)
       PROVE  Requests(s)' /\ Jar(s)' /\ Cookies(s)'
  <2>1. Requests(s) /\ Jar(s) /\ Cookies(s)
    BY <1>3, <1>5, <1>12 DEF SettleStep
  <2>2. Requests(s)'
    BY <1>12, <2>1 DEF SettleStep, Requests
  <2>3. CASE UNCHANGED <<jar, answers>>
    BY <2>1, <2>2, <2>3 DEF Jar, Cookies
  <2> QED BY <1>7, <1>12, <2>1, <2>2, <2>3 DEF SettleStep
<1>13. ASSUME NEW t \in Tabs, LoadStep(t)
       PROVE  Requests(s)' /\ Jar(s)' /\ Cookies(s)'
  <2>1. Requests(s) /\ Jar(s) /\ Cookies(s)
    BY <1>3, <1>5, <1>13 DEF LoadStep
  <2>2. Requests(s)'
    BY <1>3, <1>4, <1>13, <2>1, PageLoadRequests DEF LoadStep, Requests
  <2>3. \A a \in answers : a.cookie.sid = s => a \in answers'
    <3>1. \A a \in answers : a.from = t /\ a.set /\ a.cookie.sid # NoSid =>
             a.cookie.sid \in astray'
      BY <1>13 DEF LoadStep, PageLoad
    <3>2. \A a \in answers : a.from # t => a \in answers'
      BY <1>13 DEF LoadStep, PageLoad
    <3> QED BY <1>3, <1>4, <1>6, <3>1, <3>2
  <2>4. answers' \subseteq answers /\ jar' = jar
    BY <1>13 DEF LoadStep, PageLoad
  <2> QED BY <2>1, <2>2, <2>3, <2>4 DEF Jar, Cookies
<1>14. ASSUME NEW a \in answers, RefreshMismatch(a)
       PROVE  Requests(s)' /\ Jar(s)' /\ Cookies(s)'
  <2> DEFINE n == RefreshRequest(a.from, NoSid)
  <2>1. Requests(s) /\ Jar(s) /\ Cookies(s)
    BY <1>3, <1>5, <1>14 DEF RefreshMismatch
  <2>2. Arrives(a) /\ RefreshAnswer(a) /\ a.cookie.sid # s
    BY <1>6, <1>14 DEF RefreshMismatch, RefreshAnswer
  <2>3. jar.sid = s => jar.age = 0
    BY <1>3, <2>1, <2>2, OneExchange DEF Jar
  <2>4. n.live /\ n.token = jar
    BY DEF RefreshRequest
  <2>5. requests' = requests \cup {n}
    BY <1>14 DEF RefreshMismatch
  <2> HIDE DEF n
  <2>6. Requests(s)'
    BY <2>1, <2>3, <2>4, <2>5 DEF Requests
  <2> QED BY <1>7, <2>1, <2>2, <2>6
<1>15. ASSUME NEW a \in answers, AnswerLost(a)
       PROVE  Requests(s)' /\ Jar(s)' /\ Cookies(s)'
  <2>1. Requests(s) /\ Jar(s) /\ Cookies(s)
    BY <1>3, <1>5, <1>15 DEF AnswerLost
  <2>2. a.cookie.sid # s
    BY <1>3, <1>4, <1>6, <1>15 DEF AnswerLost
  <2>3. PICK b : b.cookie = NoToken /\ answers' = (answers \ {a}) \cup {b}
    BY <1>15, LostIs
  <2>4. requests' = requests /\ jar' = jar
    BY <1>15 DEF AnswerLost
  <2> QED BY <1>4, <2>1, <2>2, <2>3, <2>4 DEF Requests, Jar, Cookies
<1>16. ASSUME NEW r, answers \subseteq answers', answers' \subseteq answers \cup {r},
              r.cookie.sid = s => r.cookie.age = 0, jar' = jar,
              Jar(s), Cookies(s)
       PROVE  Jar(s)' /\ Cookies(s)'
  BY <1>16 DEF Jar, Cookies
<1>17. ASSUME NEW m \in requests, RefuseStep(m)
       PROVE  Requests(s)' /\ Jar(s)' /\ Cookies(s)'
  <2>1. Requests(s) /\ Jar(s) /\ Cookies(s)
    BY <1>3, <1>5, <1>17 DEF RefuseStep, SessionsEnd
  <2>2. PICK r : /\ r.cookie = NoToken /\ answers \subseteq answers'
                 /\ answers' \subseteq answers \cup {r}
    BY <1>17 DEF RefuseStep, Answered
  <2>3. Requests(s)'
    BY <1>17, <2>1 DEF RefuseStep, Requests
  <2> QED BY <1>4, <1>16, <1>17, <2>1, <2>2, <2>3 DEF RefuseStep
<1>18. ASSUME NEW m \in requests, FailStep(m)
       PROVE  Requests(s)' /\ Jar(s)' /\ Cookies(s)'
  <2>1. Requests(s) /\ Jar(s) /\ Cookies(s)
    BY <1>3, <1>5, <1>18 DEF FailStep
  <2>2. PICK r : /\ r.cookie = NoToken /\ answers \subseteq answers'
                 /\ answers' \subseteq answers \cup {r}
    BY <1>18 DEF FailStep, Answered
  <2>3. Requests(s)'
    <3> DEFINE o == [m EXCEPT !.live = FALSE]
    <3>1. o.token = m.token /\ o.kind = m.kind
      BY <1>1, RewrittenFields
    <3>2. \/ requests' \subseteq requests
          \/ /\ requests' \subseteq requests \cup {o}
             /\ m.kind = "refresh" /\ m.token # NoToken => m.token.sid \in astray'
      BY <1>18 DEF FailStep
    <3> HIDE DEF o
    <3> QED BY <1>3, <1>4, <2>1, <3>1, <3>2 DEF Requests
  <2> QED BY <1>4, <1>16, <1>18, <2>1, <2>2, <2>3 DEF FailStep
<1>19. ASSUME NEW m \in requests, ReissueStep(m)
       PROVE  Requests(s)' /\ Jar(s)' /\ Cookies(s)'
  <2>1. Requests(s) /\ Jar(s) /\ Cookies(s)
    BY <1>3, <1>5, <1>19 DEF ReissueStep
  <2>2. PICK r : /\ r.cookie.age = 0 /\ answers \subseteq answers'
                 /\ answers' \subseteq answers \cup {r}
    BY <1>19 DEF ReissueStep, Answered, Granted
  <2>3. Requests(s)'
    BY <1>19, <2>1 DEF ReissueStep, Requests
  <2> QED BY <1>16, <1>19, <2>1, <2>2, <2>3 DEF ReissueStep
<1>20. ASSUME NEW m \in requests, LoginStep(m)
       PROVE  Requests(s)' /\ Jar(s)' /\ Cookies(s)'
  <2>1. PICK q, r :
          /\ q \in Sids
          /\ sess[q].status = "unused"
          /\ \A p \in Sids \ {q} : sess'[p].status = sess[p].status
          /\ r.cookie = [sid |-> q, age |-> 0]
          /\ answers \subseteq answers' /\ answers' \subseteq answers \cup {r}
    BY <1>20 DEF LoginStep, Answered
  <2>2. Requests(s) /\ Jar(s) /\ Cookies(s)
    <3>1. CASE s # q
      BY <1>3, <1>5, <2>1, <3>1
    <3>2. CASE s = q
      <4>1. /\ jar.sid # s /\ \A n \in requests : n.token.sid # s
            /\ \A a \in answers : a.cookie.sid # s
        BY <1>4, <2>1, <3>2 DEF TokenInv, Known
      <4> QED BY <4>1 DEF Requests, Jar, Cookies
    <3> QED BY <3>1, <3>2
  <2>3. Requests(s)'
    BY <1>20, <2>2 DEF LoginStep, Requests
  <2> QED BY <1>16, <1>20, <2>1, <2>2, <2>3 DEF LoginStep
<1>21. ASSUME NEW m \in requests, RotateStep(m)
       PROVE  Requests(s)' /\ Jar(s)' /\ Cookies(s)'
  <2> DEFINE q == m.token.sid
  <2>1. Requests(s) /\ Jar(s) /\ Cookies(s)
    BY <1>3, <1>5, <1>21 DEF RotateStep
  <2>2. PICK r : /\ r.kind = m.kind /\ Granted(m, r)
                 /\ answers' = {AgedAnswer(a, q) : a \in answers}
                                 \cup (IF m.live THEN {r} ELSE {})
    BY <1>21 DEF RotateStep
  <2>3. /\ r.cookie.sid = q /\ r.cookie.age = 0 /\ m.kind = "refresh"
        /\ q \in Sids
    BY <2>2 DEF Granted
  <2>4. \A a \in answers : /\ AgedAnswer(a, q).kind = a.kind
                           /\ AgedAnswer(a, q).cookie = Older(a.cookie, q)
                           /\ Older(a.cookie, q).sid = a.cookie.sid
                           /\ a.cookie.sid # q => Older(a.cookie, q) = a.cookie
    BY <1>1, <2>3, MessageTypes, RewrittenFields, OlderIs
  <2>5. \A k \in requests : /\ AgedRequest(k, q).kind = k.kind
                            /\ AgedRequest(k, q).live = k.live
                            /\ AgedRequest(k, q).token = Older(k.token, q)
                            /\ Older(k.token, q).sid = k.token.sid
                            /\ k.token.sid # q => Older(k.token, q) = k.token
    BY <1>1, <2>3, MessageTypes, RewrittenFields, OlderIs
  <2>6. requests' = {AgedRequest(k, q) : k \in requests \ {m}}
    BY <1>21 DEF RotateStep
  <2>7. /\ jar' = Older(jar, q) /\ Older(jar, q).sid = jar.sid
        /\ jar.sid # q => Older(jar, q) = jar
    BY <1>21, <2>3, OlderIs DEF RotateStep, TypeOK
  <2>8. CASE s # q
    <3> HIDE DEF q
    <3>1. Requests(s)'
      BY <2>1, <2>5, <2>6, <2>8 DEF Requests
    <3>2. Cookies(s)'
      BY <2>1, <2>2, <2>3, <2>4, <2>8 DEF Cookies
    <3>3. Jar(s)'
      BY <2>1, <2>2, <2>4, <2>7, <2>8 DEF Jar, RefreshAnswer
    <3> QED BY <3>1, <3>2, <3>3
  <2>9. CASE s = q
    <3>1. m.live /\ RefreshAsked(m)
      BY <2>1, <2>3, <2>9 DEF Requests, RefreshAsked
    <3>2. \A k \in requests \ {m} : k.kind = "refresh" => k.token.sid # s
      BY <1>3, <2>1, <3>1, OneExchange DEF Requests, RefreshAsked
    <3>3. \A a \in answers : a.cookie.sid # s
      <4>1. \A a \in answers : ~RefreshAnswer(a)
        BY <1>3, <3>1, OneExchange
      <4>2. \A a \in answers : a.kind = "login" => a.cookie.sid # s
        BY <1>4, <2>3, <2>9 DEF LoginInv
      <4> QED BY <1>6, <4>1, <4>2 DEF RefreshAnswer
    <3> HIDE DEF q
    <3>4. Requests(s)'
      BY <2>5, <2>6, <3>2 DEF Requests
    <3>5. Cookies(s)'
      BY <2>2, <2>3, <2>4, <3>3 DEF Cookies
    <3>6. Jar(s)'
      BY <2>2, <2>3, <2>9, <3>1 DEF Jar, RefreshAnswer
    <3> QED BY <3>4, <3>5, <3>6
  <2> QED BY <2>8, <2>9
<1>22. CASE ElsewhereStep
  <2>1. Requests(s) /\ Jar(s) /\ Cookies(s)
    BY <1>3, <1>5, <1>22 DEF ElsewhereStep, SessionsEnd
  <2> QED BY <1>22, <2>1 DEF ElsewhereStep, netVars, Requests, Jar, Cookies
<1> QED BY <1>9, <1>10, <1>11, <1>12, <1>13, <1>14, <1>15, <1>17, <1>18, <1>19,
           <1>20, <1>21, <1>22 DEF Step

\* The server refuses an active session only for a token that is not current,
\* which no refresh presents unless one of the session went astray.
LEMMA RefusedStep ==
    ASSUME TypeOK, FreshInv, ActiveSessionsAreNotRefused, Step
    PROVE  ActiveSessionsAreNotRefused'
<1>1. astray \subseteq astray' /\ webLocks' = webLocks
  BY DEF Step, LocalStep, StartStep, RunStep, SettleStep, LoadStep, PageLoad,
         RefreshMismatch, AnswerLost, RefuseStep, ReissueStep, RotateStep,
         LoginStep, FailStep, ElsewhereStep, histVars
<1>2. CASE refused' = refused
  BY <1>1, <1>2 DEF ActiveSessionsAreNotRefused
<1>3. ASSUME NEW m \in requests, RefuseRefresh(m), webLocks
      PROVE  refused' \subseteq astray'
  <2>1. m.token.sid \in SomeSid /\ m.token.age \in 0 .. 2
    BY MessageTypes, TokenTypes
  <2>2. Active(m.token.sid) => m.token.sid \in astray
    <3>1. SUFFICES ASSUME Active(m.token.sid), m.token.sid \notin astray
                   PROVE  FALSE
      OBVIOUS
    <3>2. m.token.sid \in Sids
      BY <2>1, <3>1, SidTypes DEF Active
    <3>3. m.token.age = 0 /\ m.kind = "refresh"
      BY <1>3, <3>1, <3>2 DEF FreshInv, Fresh, RefuseRefresh, Active
    <3> QED BY <1>3, <3>1, <3>3 DEF RefuseRefresh
  <2> QED BY <1>1, <1>3, <2>2 DEF RefuseRefresh, ActiveSessionsAreNotRefused
<1>4. refused' = refused \/ \E m \in requests : RefuseRefresh(m)
  BY DEF Step, LocalStep, StartStep, RunStep, SettleStep, LoadStep,
         RefreshMismatch, AnswerLost, RefuseStep, ReissueStep, RotateStep,
         LoginStep, FailStep, ElsewhereStep, histVars
<1> QED BY <1>1, <1>2, <1>3, <1>4 DEF ActiveSessionsAreNotRefused

\* The browser at rest.
LEMMA InvInit == Init => IInv
<1> SUFFICES ASSUME Init PROVE IInv
  OBVIOUS
<1>1. TypeOK
  BY TypeInit
<1>2. requests = {} /\ answers = {} /\ refused = {}
  BY DEF Init
<1>3. \A t \in Tabs : runner[t].pc = "off"
  BY RunnerTypes DEF Init
<1>4. /\ jar.age = 0
      /\ jar = NoToken \/ (jar.sid = 1 /\ sess[1].status = "active")
  BY SidTypes DEF Init, NoToken, UnusedRow
<1>5. Known(jar)
  BY <1>4, SidTypes, TokenTypes DEF Known, NoSid
<1>6. TokenInv /\ ExchangeInv /\ TabInv /\ LoginInv
  BY <1>2, <1>5 DEF TokenInv, ExchangeInv, TabInv, LoginInv
<1>7. LockInv
  BY <1>3 DEF LockInv
<1>8. FreshInv /\ ActiveSessionsAreNotRefused
  BY <1>2, <1>4 DEF FreshInv, Fresh, ActiveSessionsAreNotRefused
<1> QED BY <1>1, <1>6, <1>7, <1>8 DEF IInv

\* Every step keeps the invariant.
LEMMA InvNext == IInv /\ [Next]_vars => IInv'
<1> SUFFICES ASSUME IInv, [Next]_vars PROVE IInv'
  OBVIOUS
<1>1. CASE Next
  <2>1. TypeOK' /\ Step
    BY <1>1, TypeNext, NextForms DEF IInv
  <2>2. ExchangeInv' /\ LockInv' /\ TokenInv' /\ LoginInv' /\ FreshInv'
    BY <2>1, ExchangeStep, LockStep, TokenStep, LoginInvStep, FreshInvStep
    DEF IInv
  <2>3. TabInv' /\ ActiveSessionsAreNotRefused'
    BY <2>1, <2>2, TabStep, RefusedStep DEF IInv
  <2> QED BY <2>1, <2>2, <2>3 DEF IInv
<1>2. CASE UNCHANGED vars
  BY <1>2 DEF IInv, TypeOK, TokenInv, Known, ExchangeInv, TabInv, LockInv,
     LoginInv, FreshInv, Fresh, ActiveSessionsAreNotRefused, vars, tabVars,
     netVars, boundVars, histVars
<1> QED BY <1>1, <1>2

\* The invariant holds in every reachable state.
THEOREM Inductive == Spec => []IInv
BY InvInit, InvNext, PTL DEF Spec

\* Every variable keeps its type, for any number of tabs, logins, failures and
\* abandoned requests.
THEOREM TypeCorrect == Spec => []TypeOK
<1>1. IInv => TypeOK
  BY DEF IInv
<1> QED BY <1>1, Inductive, PTL

\* With Web Locks, tabs that refresh at the same time never cost the user the
\* session: RefreshAuth refuses or revokes an active session only
\* after the client of one of its refreshes was lost
\* (performRefreshWithBrowserLock of
\* auth-session.ts against the replay window of model/user_session.go).
THEOREM SessionsSurviveRefreshes == Spec => []ActiveSessionsAreNotRefused
<1>1. IInv => ActiveSessionsAreNotRefused
  BY DEF IInv
<1> QED BY <1>1, Inductive, PTL

\* With Web Locks, once no refresh is under way the browser holds the current
\* refresh token of its session, unless the client of a refresh was lost.
THEOREM JarCurrentAtRest == Spec => []JarIsCurrent
<1>1. IInv => JarIsCurrent
  <2> SUFFICES ASSUME IInv, webLocks, \A t \in Tabs : runner[t].pc = "off",
                      Active(jar.sid), jar.sid \notin astray
               PROVE  jar.age = 0
    BY DEF JarIsCurrent
  <2>1. jar.sid \in Sids
    BY SidTypes, TokenTypes DEF IInv, TypeOK, Active
  <2>2. \A a \in answers : ~RefreshAnswer(a)
    <3>1. TypeOK /\ ExchangeInv
      BY DEF IInv
    <3> QED BY <3>1, MessageTypes DEF ExchangeInv
  <2>3. Fresh(jar.sid)
    BY <2>1 DEF IInv, FreshInv
  <2> QED BY <2>2, <2>3 DEF Fresh, Active
<1> QED BY <1>1, Inductive, PTL

\* A tab that shows one session never turns into another by a refresh or a
\* late sign-in: X-Auth-Session and the epoch of the runner see to it.
THEOREM AccountsDoNotSwitch == Spec => NoSilentAccountSwitch
<1> DEFINE Kept == \A t \in Tabs : store[t].sid # NoSid /\ store'[t].sid # NoSid
                                     => store'[t].sid = store[t].sid
<1>1. ASSUME IInv, [Next]_vars
      PROVE  [Kept]_vars
  <2>1. SUFFICES ASSUME Next PROVE Kept
    BY <1>1
  <2>2. TypeOK /\ TabInv /\ Step
    BY <1>1, <2>1, NextForms DEF IInv
  <2>3. CASE LocalStep
    BY <2>3 DEF LocalStep, StoreKept
  <2>4. ASSUME NEW t \in Tabs, StartStep(t) \/ RunStep(t)
        PROVE  Kept
    BY <2>4 DEF StartStep, RunStep
  <2>5. ASSUME NEW t \in Tabs, SettleStep(t)
        PROVE  Kept
    <3>1. store[t].sid # NoSid /\ store'[t].sid # NoSid
            => store'[t].sid = store[t].sid
      BY <2>2, <2>5 DEF SettleStep, SettledStore, TabInv
    <3> QED BY <2>5, <3>1 DEF SettleStep
  <2>6. ASSUME NEW t \in Tabs, LoadStep(t)
        PROVE  Kept
    <3>1. store'[t].sid = NoSid /\ \A u \in Tabs \ {t} : store'[u] = store[u]
      BY <2>2, <2>6, PageLoadStore DEF LoadStep
    <3> QED BY <3>1
  <2>7. ASSUME NEW a \in answers, RefreshMismatch(a)
        PROVE  Kept
    <3>1. a.from \in Tabs
      BY <2>2, MessageTypes
    <3>2. /\ store'[a.from].sid = NoSid
          /\ \A u \in Tabs \ {a.from} : store'[u] = store[u]
      BY <2>2, <2>7, <3>1, StoreTypes DEF RefreshMismatch, TypeOK
    <3> QED BY <3>2
  <2>8. CASE UNCHANGED tabVars
    BY <2>8 DEF tabVars
  <2> QED BY <2>2, <2>3, <2>4, <2>5, <2>6, <2>7, <2>8
          DEF Step, AnswerLost, RefuseStep, ReissueStep, RotateStep, LoginStep,
              FailStep, ElsewhereStep
<1>2. IInv /\ [Next]_vars => [Kept]_vars
  BY <1>1
<1> QED BY <1>2, Inductive, PTL DEF Spec, NoSilentAccountSwitch

=============================================================================
