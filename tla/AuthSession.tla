----------------------------- MODULE AuthSession -----------------------------
(***************************************************************************)
(* The login of the web console: the tabs of one browser, which share a    *)
(* cookie jar, and the server that rotates the refresh token on every use  *)
(* (web/src/lib/auth-session.ts, auth-session-sync.ts, http-client.ts,     *)
(* stores/auth-store.ts; controller/auth_session.go,                       *)
(* service/auth_session.go, model/user_session.go).                        *)
(*                                                                         *)
(* A tab is single-threaded: an action of a tab is one task of its event   *)
(* loop, run to the next await.  Requests travel, the cookie is attached   *)
(* when a request leaves, and Set-Cookie takes effect when the answer      *)
(* arrives.  A request whose page was unloaded, or that the client gave up *)
(* on, may still reach the server (an orphan).  One server step serves one *)
(* request: its database updates are compare-and-set on the session row.   *)
(*                                                                         *)
(* The next refresh secret is a function of the current one                *)
(* (deriveNextRefreshSecret), so the tokens of a session form a chain and  *)
(* a token is known by its age: 0 matches refresh_hash, 1 matches          *)
(* previous_refresh_hash, 2 matches nothing any more.  Since the successor *)
(* of the previous token is always the current one, the server never       *)
(* answers AUTH_REFRESH_RACE, and the client's wait for it is left out.    *)
(***************************************************************************)
EXTENDS Integers, Sequences, FiniteSets

CONSTANTS
    Tabs,        \* tabs of the browser
    MaxLogins,   \* bound on logins: sessions are numbered in order
    WebLocks,    \* whether navigator.locks may exist (secure contexts only)
    MaxActs,     \* bound on what the user, a timer or another device starts,
                 \* without and with navigator.locks
    MaxFaults,   \* bound on failing exchanges and reloads by the user
    MaxOrphans   \* bound on abandoned requests still travelling

ASSUME AuthAssumption ==
    /\ MaxLogins \in Nat \ {0} /\ MaxActs \in [BOOLEAN -> Nat]
    /\ MaxFaults \in Nat /\ MaxOrphans \in Nat
    /\ WebLocks \subseteq BOOLEAN

NoSid == 0
Sids  == 1 .. MaxLogins
SomeSid == Sids \cup {NoSid}

Token == [sid : SomeSid, age : 0 .. 2]
NoToken == [sid |-> NoSid, age |-> 0]

Outcomes == {"none", "authenticated", "anonymous", "transient", "out_of_sync"}
Statuses == {"ok", "mismatch", "unauthorized", "failed", "odd"}

VARIABLES
    store,     \* per tab: the auth store (memory only)
    runner,    \* per tab: the refresh under way, refreshPromise
    op,        \* per tab: the api call, login or sign-out under way
    events,    \* per tab: session events of other tabs not handled yet
    webLocks,  \* navigator.locks exists
    locks,     \* the queue of the lock new-api:auth-refresh; the head holds it
    jar,       \* the refresh cookie; the hint cookie is there when it is
    requests,  \* requests on their way to the server
    answers,   \* answers on their way to a tab
    sess,      \* the user_sessions rows
    acts, faults,
    astray,    \* history: sessions with a refresh whose client was lost
    refused    \* history: sessions refused, or revoked, while they were active

tabVars  == <<store, runner, op, events, locks>>
netVars  == <<jar, requests, answers>>
boundVars == <<acts, faults>>
histVars == <<astray, refused>>
vars == <<tabVars, webLocks, netVars, sess, boundVars, histVars>>

\* useAuthStore: user, token and session come and go together; access says
\* whether access_expires_at has passed.
Store == [sid : SomeSid, access : {"none", "valid", "expired"},
          boot : {"idle", "checking", "complete"}]
EmptyStore(boot) == [sid |-> NoSid, access |-> "none", boot |-> boot]
BundleStore(s)   == [sid |-> s, access |-> "valid", boot |-> "complete"]

\* A run of createRefreshRunner; current stands for authEpoch === refreshEpoch
\* and retry for allowMismatchRetry.
Runner == [pc : {"off", "queued", "http"}, retry : BOOLEAN, current : BOOLEAN]
Off == [pc |-> "off", retry |-> TRUE, current |-> TRUE]
Started == [Off EXCEPT !.pc = IF webLocks THEN "queued" ELSE "http"]
Superseded(r) == IF r.pc = "off" THEN r ELSE [r EXCEPT !.current = FALSE]

\* What the user, or the page, waits for.  resume: the refresh settled and the
\* continuation of the await runs before any other task of the tab.
Op == [kind : {"none", "api", "login", "logout"},
       stage : {"none", "sent", "refreshing", "resume", "resent"},
       bearer : SomeSid, outcome : Outcomes]
NoOp == [kind |-> "none", stage |-> "none", bearer |-> NoSid, outcome |-> "none"]

Request == [from : Tabs, kind : {"refresh", "login", "logout"}, live : BOOLEAN,
            token : Token, expected : SomeSid, bearer : SomeSid]
Answer  == [from : Tabs, kind : {"refresh", "login", "logout"},
            status : Statuses, sid : SomeSid, set : BOOLEAN, cookie : Token]
Event   == [kind : {"authenticated", "signed_out"}, sid : Sids]
Row     == [status : {"unused", "active", "revoked"}, grace : BOOLEAN]

UnusedRow == [status |-> "unused", grace |-> FALSE]

Active(s) == s # NoSid /\ sess[s].status = "active"
Orphans   == {m \in requests : ~m.live}
Quiet(t)  == op[t].stage # "resume"
Bearer(t) == IF store[t].access = "valid" THEN store[t].sid ELSE NoSid

\* The tabs are at rest: nobody is signed in, or the browser has a session that
\* some tabs hold and the others, on public pages, have not asked for yet.
Init ==
    /\ \/ /\ store = [t \in Tabs |-> EmptyStore("idle")]
          /\ jar = NoToken
          /\ sess = [s \in Sids |-> UnusedRow]
       \/ /\ store \in [Tabs -> {EmptyStore("idle"), BundleStore(1)}]
          /\ jar = [sid |-> 1, age |-> 0]
          /\ sess = [s \in Sids |-> IF s = 1 THEN [UnusedRow EXCEPT !.status = "active"]
                                    ELSE UnusedRow]
    /\ runner = [t \in Tabs |-> Off]
    /\ op = [t \in Tabs |-> NoOp]
    /\ events = [t \in Tabs |-> <<>>]
    /\ webLocks \in WebLocks
    /\ locks = <<>>
    /\ requests = {} /\ answers = {}
    /\ acts = 0 /\ faults = 0
    /\ astray = {} /\ refused = {}

(***************************************************************************)
(* Pieces of the tab's handlers                                            *)
(***************************************************************************)

\* Mutant: a tab without a session announces a sign-out too.
PublishedAlways(t, kind, s) ==
    [u \in Tabs |-> IF u = t THEN events[u]
                    ELSE Append(events[u], [kind |-> kind, sid |-> s])]

\* publishAuthSessionEvent: every other tab receives it, in order.
Published(t, kind, s) ==
    [u \in Tabs |-> IF u = t \/ s = NoSid THEN events[u]
                    ELSE Append(events[u], [kind |-> kind, sid |-> s])]

\* Mutant: no X-Auth-Session header.
RefreshRequestUnnamed(t, expected) ==
    [from |-> t, kind |-> "refresh", live |-> TRUE, token |-> jar,
     expected |-> NoSid, bearer |-> NoSid]

\* requestRefresh: the jar's cookie and X-Auth-Session leave with the request.
RefreshRequest(t, expected) ==
    [from |-> t, kind |-> "refresh", live |-> TRUE, token |-> jar,
     expected |-> expected, bearer |-> NoSid]

LogoutRequest(t) ==
    [from |-> t, kind |-> "logout", live |-> TRUE, token |-> jar,
     expected |-> store[t].sid, bearer |-> Bearer(t)]

\* The queue of the lock without t, which waits in it at most once.
Unqueued(t) ==
    IF \A i \in DOMAIN locks : locks[i] # t THEN locks
    ELSE LET i == CHOOSE i \in DOMAIN locks : locks[i] = t
         IN  [j \in 1 .. Len(locks) - 1 |-> locks[IF j < i THEN j ELSE j + 1]]

\* Mutant: the request leaves without waiting for the lock.
RefreshAuthenticationUnlocked(t) ==
    IF runner[t].pc # "off"
    THEN UNCHANGED <<runner, locks, requests>>
    ELSE /\ runner' = [runner EXCEPT ![t] = [Off EXCEPT !.pc = "http"]]
         /\ requests' = requests \cup {RefreshRequest(t, store[t].sid)}
         /\ UNCHANGED locks

\* refreshAuthentication: join the refresh under way, or start one.  With Web
\* Locks it queues for the lock; without, the request leaves at once.
RefreshAuthentication(t) ==
    IF runner[t].pc # "off"
    THEN UNCHANGED <<runner, locks, requests>>
    ELSE /\ runner' = [runner EXCEPT ![t] = Started]
         /\ locks' = IF webLocks THEN Append(locks, t) ELSE locks
         /\ requests' = IF webLocks THEN requests
                        ELSE requests \cup {RefreshRequest(t, store[t].sid)}

\* Mutant: the lock is kept.
SettleKeepingLock(t, outcome) ==
    /\ runner' = [runner EXCEPT ![t] = Off]
    /\ op' = IF op[t].stage = "refreshing"
             THEN [op EXCEPT ![t].stage = "resume", ![t].outcome = outcome]
             ELSE op
    /\ UNCHANGED locks

\* The promise settles: the lock is released and the waiting op continues.
Settle(t, outcome) ==
    /\ runner' = [runner EXCEPT ![t] = Off]
    /\ locks' = Unqueued(t)
    /\ op' = IF op[t].stage = "refreshing"
             THEN [op EXCEPT ![t].stage = "resume", ![t].outcome = outcome]
             ELSE op

\* clearAuthentication on a store whose refresh, if any, is superseded.
ClearAuthentication(t, synchronize) ==
    /\ store' = [store EXCEPT ![t] = EmptyStore("complete")]
    /\ runner' = [runner EXCEPT ![t] = Superseded(@)]
    /\ events' = IF synchronize
                 THEN Published(t, "signed_out", store[t].sid) ELSE events

\* The document is replaced: memory, listeners, locks and exchanges of the old
\* page are gone, though its requests may still arrive.  The new page runs
\* bootstrapAuthentication, which skips the refresh without the hint cookie.
PageLoad(t) ==
    LET mine   == {m \in requests : m.from = t /\ m.live}
        hers   == {a \in answers : a.from = t}
        hinted == jar # NoToken
    IN \E kept \in SUBSET mine :
        /\ Cardinality(Orphans) + Cardinality(kept) <= MaxOrphans
        /\ requests' = (requests \ mine)
                         \cup {[m EXCEPT !.live = FALSE] : m \in kept}
                         \cup (IF hinted /\ ~webLocks
                               THEN {RefreshRequest(t, NoSid)} ELSE {})
        /\ astray' = astray \cup
             (({m.token.sid : m \in {k \in kept : k.kind = "refresh"}}
                \cup {a.cookie.sid : a \in {b \in hers : b.set}}) \ {NoSid})
        /\ answers' = answers \ hers
        /\ locks' = IF hinted /\ webLocks THEN Append(Unqueued(t), t)
                    ELSE Unqueued(t)
        /\ runner' = [runner EXCEPT ![t] = IF hinted THEN Started ELSE Off]
        /\ store' = [store EXCEPT ![t] =
                       EmptyStore(IF hinted THEN "checking" ELSE "idle")]
        /\ op' = [op EXCEPT ![t] = NoOp]
        /\ events' = [events EXCEPT ![t] = <<>>]

\* An answer arrives: the browser applies its Set-Cookie, the tab handles it.
Arrives(a) ==
    /\ Quiet(a.from)
    /\ answers' = answers \ {a}
    /\ jar' = IF a.set THEN a.cookie ELSE jar

\* One more thing that the user, a timer or another device starts.
Act == acts < MaxActs[webLocks] /\ acts' = acts + 1

(***************************************************************************)
(* What the user and the page start                                        *)
(***************************************************************************)

\* The user reloads the page, or opens the tab anew.
Reload(t) ==
    /\ faults < MaxFaults /\ Quiet(t)
    /\ faults' = faults + 1
    /\ PageLoad(t)
    /\ UNCHANGED <<acts, webLocks, jar, sess, refused>>

\* resolveAuthentication, by the guards of a protected route and of the
\* sign-in page.
Resolve(t) ==
    /\ Act
    /\ Quiet(t)
    /\ \/ /\ store[t].access = "valid"
          /\ store' = [store EXCEPT ![t].boot = "complete"]
          /\ UNCHANGED <<runner, locks, requests>>
       \/ /\ store[t].access # "valid"
          /\ store[t].boot # "complete" \/ store[t].sid # NoSid
          /\ store' = [store EXCEPT ![t].boot = "checking"]
          /\ RefreshAuthentication(t)
    /\ UNCHANGED <<op, events, webLocks, jar, answers, sess, faults, histVars>>

\* getFreshAuthHeaders, when the access token has less than a minute left:
\* a refresh although the store holds a token.
FreshAuthHeaders(t) ==
    /\ Act
    /\ Quiet(t) /\ store[t].sid # NoSid
    /\ RefreshAuthentication(t)
    /\ UNCHANGED <<store, op, events, webLocks, jar, answers, sess, faults,
                   histVars>>

ApiCall(t) ==
    /\ Act
    /\ op[t] = NoOp /\ store[t].sid # NoSid
    /\ op' = [op EXCEPT ![t] = [NoOp EXCEPT !.kind = "api", !.stage = "sent",
                                            !.bearer = Bearer(t)]]
    /\ UNCHANGED <<store, runner, events, locks, webLocks, netVars, sess,
                   faults, histVars>>

\* POST /api/user/login leaves a tab that shows the sign-in form.
Login(t) ==
    /\ Act
    /\ op[t] = NoOp /\ store[t].sid = NoSid
    /\ op' = [op EXCEPT ![t] = [NoOp EXCEPT !.kind = "login", !.stage = "sent"]]
    /\ requests' = requests \cup
         {[from |-> t, kind |-> "login", live |-> TRUE, token |-> NoToken,
           expected |-> NoSid, bearer |-> NoSid]}
    /\ UNCHANGED <<store, runner, events, locks, webLocks, jar, answers, sess,
                   faults, histVars>>

\* The sign-out dialog: executeLogout, first attempt.
SignOut(t) ==
    /\ Act
    /\ op[t] = NoOp /\ store[t].sid # NoSid
    /\ op' = [op EXCEPT ![t] = [NoOp EXCEPT !.kind = "logout", !.stage = "sent"]]
    /\ requests' = requests \cup {LogoutRequest(t)}
    /\ UNCHANGED <<store, runner, events, locks, webLocks, jar, answers, sess,
                   faults, histVars>>

(***************************************************************************)
(* The refresh runner                                                      *)
(***************************************************************************)

\* performRefreshWithBrowserLock: the callback runs with the lock held.
RunRefresh(t) ==
    /\ Quiet(t)
    /\ runner[t].pc = "queued" /\ Head(locks) = t
    /\ \/ /\ ~runner[t].current
          /\ Settle(t, "transient")
          /\ UNCHANGED requests
       \/ /\ runner[t].current
          /\ runner' = [runner EXCEPT ![t].pc = "http"]
          /\ requests' = requests \cup {RefreshRequest(t, store[t].sid)}
          /\ UNCHANGED <<locks, op>>
    /\ UNCHANGED <<store, events, webLocks, jar, answers, sess, boundVars, histVars>>

\* After a sign-in or a sign-out in this tab, the answer changes only the jar.
RefreshSuperseded(a) ==
    /\ a.kind = "refresh" /\ ~runner[a.from].current
    /\ Arrives(a)
    /\ Settle(a.from, "transient")
    /\ UNCHANGED <<store, events, webLocks, requests, sess, boundVars, histVars>>

RefreshAccepted(a) ==
    /\ a.kind = "refresh" /\ runner[a.from].current /\ a.status = "ok"
    /\ Arrives(a)
    /\ store' = [store EXCEPT ![a.from] = BundleStore(a.sid)]
    /\ Settle(a.from, "authenticated")
    /\ UNCHANGED <<events, webLocks, requests, sess, boundVars, histVars>>

\* 409 AUTH_SESSION_MISMATCH: forget the tab's session, without a new epoch,
\* and ask again for whatever session the cookie belongs to.  The second
\* request names no session, so it is never answered this way.
RefreshMismatch(a) ==
    LET t == a.from IN
    /\ a.kind = "refresh" /\ runner[t].current /\ a.status = "mismatch"
    /\ runner[t].retry
    /\ Arrives(a)
    /\ store' = [store EXCEPT ![t] = EmptyStore("idle")]
    /\ runner' = [runner EXCEPT ![t].retry = FALSE]
    /\ requests' = requests \cup {RefreshRequest(t, NoSid)}
    /\ UNCHANGED <<op, events, locks, webLocks, sess, boundVars, histVars>>

\* Mutant: a refused refresh is taken for a temporary failure.
RefreshUnauthorizedRetried(a) ==
    /\ a.kind = "refresh" /\ runner[a.from].current /\ a.status = "unauthorized"
    /\ Arrives(a)
    /\ store' = [store EXCEPT ![a.from].boot = "idle"]
    /\ Settle(a.from, "transient")
    /\ UNCHANGED <<events, webLocks, requests, sess, boundVars, histVars>>

\* 401: the other tabs of the session are told.
RefreshUnauthorized(a) ==
    LET t == a.from IN
    /\ a.kind = "refresh" /\ runner[t].current /\ a.status = "unauthorized"
    /\ Arrives(a)
    /\ store' = [store EXCEPT ![t] = EmptyStore("complete")]
    /\ events' = Published(t, "signed_out", store[t].sid)
    /\ Settle(t, "anonymous")
    /\ UNCHANGED <<webLocks, requests, sess, boundVars, histVars>>

\* No status, 5xx or 429: the session stays, the check may be repeated.
RefreshFailed(a) ==
    /\ a.kind = "refresh" /\ runner[a.from].current /\ a.status = "failed"
    /\ Arrives(a)
    /\ store' = [store EXCEPT ![a.from].boot = "idle"]
    /\ Settle(a.from, "transient")
    /\ UNCHANGED <<events, webLocks, requests, sess, boundVars, histVars>>

\* Any other answer: the tab forgets its session and tells nobody.
RefreshOutOfSync(a) ==
    /\ a.kind = "refresh" /\ runner[a.from].current /\ a.status = "odd"
    /\ Arrives(a)
    /\ store' = [store EXCEPT ![a.from] = EmptyStore("complete")]
    /\ Settle(a.from, "out_of_sync")
    /\ UNCHANGED <<events, webLocks, requests, sess, boundVars, histVars>>

(***************************************************************************)
(* Api calls, the interceptor of http-client.ts                            *)
(***************************************************************************)

\* 200, or the first 401, which waits for a refresh.
ApiAnswered(t) ==
    /\ op[t].kind = "api" /\ op[t].stage = "sent"
    /\ \/ /\ Active(op[t].bearer)
          /\ op' = [op EXCEPT ![t] = NoOp]
          /\ UNCHANGED <<runner, locks, requests>>
       \/ /\ ~Active(op[t].bearer)
          /\ op' = [op EXCEPT ![t].stage = "refreshing"]
          /\ RefreshAuthentication(t)
    /\ UNCHANGED <<store, events, webLocks, jar, answers, sess, boundVars, histVars>>

\* The refresh settled: repeat the request with the new token, go to the
\* sign-in page (a page load unless the tab is there), or fail the call.
ApiResume(t) ==
    /\ op[t].kind = "api" /\ op[t].stage = "resume"
    /\ \/ /\ op[t].outcome = "authenticated"
          /\ op' = [op EXCEPT ![t] = [NoOp EXCEPT !.kind = "api",
                                        !.stage = "resent", !.bearer = Bearer(t)]]
          /\ UNCHANGED <<store, runner, events, locks, requests, answers, astray>>
       \/ /\ op[t].outcome # "authenticated"
          /\ op' = [op EXCEPT ![t] = NoOp]
          /\ UNCHANGED <<store, runner, events, locks, requests, answers, astray>>
       \/ /\ op[t].outcome \in {"anonymous", "out_of_sync"}
          /\ PageLoad(t)
    /\ UNCHANGED <<webLocks, jar, sess, boundVars, refused>>

\* The repeated call: a second 401 clears the tab and goes to sign-in, which
\* is a page load unless the tab is there.
ApiAnsweredAgain(t) ==
    /\ op[t].kind = "api" /\ op[t].stage = "resent"
    /\ \/ /\ Active(op[t].bearer)
          /\ op' = [op EXCEPT ![t] = NoOp]
          /\ UNCHANGED <<store, runner, events, locks, requests, answers, astray>>
       \/ /\ ~Active(op[t].bearer)
          /\ ClearAuthentication(t, FALSE)
          /\ op' = [op EXCEPT ![t] = NoOp]
          /\ UNCHANGED <<locks, requests, answers, astray>>
       \/ /\ ~Active(op[t].bearer)
          /\ PageLoad(t)
    /\ UNCHANGED <<webLocks, jar, sess, boundVars, refused>>

(***************************************************************************)
(* Sign-in and sign-out                                                    *)
(***************************************************************************)

\* handleLoginSuccess: the bundle is dropped, but its cookie is not, when a
\* refresh has given the tab a session since the form was rendered.
LoginDone(a) ==
    LET t == a.from IN
    /\ a.kind = "login" /\ a.status = "ok"
    /\ Arrives(a)
    /\ IF store[t].sid = NoSid
       THEN /\ store' = [store EXCEPT ![t] = BundleStore(a.sid)]
            /\ runner' = [runner EXCEPT ![t] = Superseded(@)]
            /\ events' = Published(t, "authenticated", a.sid)
       ELSE UNCHANGED <<store, runner, events>>
    /\ op' = [op EXCEPT ![t] = NoOp]
    /\ UNCHANGED <<locks, webLocks, requests, sess, boundVars, histVars>>

\* clearAuthenticatedClientState after a successful sign-out.
LogoutDone(a) ==
    LET t == a.from IN
    /\ a.kind = "logout" /\ a.status = "ok"
    /\ Arrives(a)
    /\ ClearAuthentication(t, TRUE)
    /\ op' = [op EXCEPT ![t] = NoOp]
    /\ UNCHANGED <<locks, webLocks, requests, sess, boundVars, histVars>>

\* executeLogout: the first mismatch refreshes the tab before a second try.
LogoutMismatch(a) ==
    LET t == a.from IN
    /\ a.kind = "logout" /\ a.status = "mismatch" /\ op[t].stage = "sent"
    /\ Arrives(a)
    /\ op' = [op EXCEPT ![t].stage = "refreshing"]
    /\ RefreshAuthentication(t)
    /\ UNCHANGED <<store, events, webLocks, sess, boundVars, histVars>>

LogoutResume(t) ==
    /\ op[t].kind = "logout" /\ op[t].stage = "resume"
    /\ \/ /\ op[t].outcome = "authenticated"
          /\ op' = [op EXCEPT ![t] = [NoOp EXCEPT !.kind = "logout",
                                                  !.stage = "resent"]]
          /\ requests' = requests \cup {LogoutRequest(t)}
          /\ UNCHANGED <<store, runner, events>>
       \/ /\ op[t].outcome = "anonymous"
          /\ op' = [op EXCEPT ![t] = NoOp]
          /\ ClearAuthentication(t, TRUE)
          /\ UNCHANGED requests
       \/ /\ op[t].outcome \in {"transient", "out_of_sync"}
          /\ op' = [op EXCEPT ![t] = NoOp]
          /\ UNCHANGED <<store, runner, events, requests>>
    /\ UNCHANGED <<locks, webLocks, jar, answers, sess, boundVars, histVars>>

\* The request failed, or the second sign-out is a mismatch again: the form, or
\* the dialog, reports it.
OpFailed(a) ==
    /\ a.kind # "refresh"
    /\ a.status \in IF op[a.from].stage = "resent" THEN {"failed", "mismatch"}
                    ELSE {"failed"}
    /\ Arrives(a)
    /\ op' = [op EXCEPT ![a.from] = NoOp]
    /\ UNCHANGED <<store, runner, events, locks, webLocks, requests, sess,
                   boundVars, histVars>>

(***************************************************************************)
(* Other tabs, routes/__root.tsx                                           *)
(***************************************************************************)

\* A sign-in elsewhere reloads the tab; a sign-out of the tab's own session
\* clears it; an event older than a minute is ignored.
HandleEvent(t) ==
    /\ Quiet(t) /\ events[t] # <<>>
    /\ LET e == Head(events[t])
           rest == [events EXCEPT ![t] = Tail(@)]
       IN \/ /\ events' = rest
             /\ UNCHANGED <<store, runner, op, locks, requests, answers, astray>>
          \/ /\ e.kind = "authenticated" /\ e.sid # store[t].sid
             /\ PageLoad(t)
          \/ /\ e.kind = "signed_out" /\ e.sid = store[t].sid
             /\ store' = [store EXCEPT ![t] = EmptyStore("complete")]
             /\ runner' = [runner EXCEPT ![t] = Superseded(@)]
             /\ events' = rest
             /\ UNCHANGED <<op, locks, requests, answers, astray>>
    /\ UNCHANGED <<webLocks, jar, sess, boundVars, refused>>

(***************************************************************************)
(* The server                                                              *)
(***************************************************************************)

Reply(m, status, s, set, cookie) ==
    IF m.live THEN {[from |-> m.from, kind |-> m.kind, status |-> status,
                     sid |-> s, set |-> set, cookie |-> cookie]} ELSE {}

Older(token, s) ==
    IF token.sid = s /\ token.age < 2
    THEN [token EXCEPT !.age = @ + 1] ELSE token

Revoked(s) == [sess EXCEPT ![s].status = "revoked", ![s].grace = FALSE]

\* RefreshAuth refuses: no cookie, a session that is not active, the previous
\* token outside the grace window (which revokes the session), or an older one.
\* Every refusal also clears the cookie.
RefuseRefresh(m) ==
    LET s == m.token.sid IN
    /\ m.kind = "refresh"
    /\ m.token # NoToken => m.expected \in {NoSid, s}
    /\ ~Active(s) \/ m.token.age = 2 \/ (m.token.age = 1 /\ ~sess[s].grace)
    /\ requests' = requests \ {m}
    /\ answers' = answers \cup Reply(m, "unauthorized", NoSid, TRUE, NoToken)
    /\ sess' = IF Active(s) /\ m.token.age = 1 THEN Revoked(s) ELSE sess
    /\ refused' = IF Active(s) THEN refused \cup {s} ELSE refused
    /\ UNCHANGED <<tabVars, webLocks, jar, boundVars, astray>>

\* The cookie belongs to another session than the tab's: nothing changes.
MismatchRefresh(m) ==
    /\ m.kind = "refresh" /\ m.token # NoToken
    /\ m.expected \notin {NoSid, m.token.sid}
    /\ requests' = requests \ {m}
    /\ answers' = answers \cup Reply(m, "mismatch", NoSid, FALSE, NoToken)
    /\ UNCHANGED <<tabVars, webLocks, jar, sess, boundVars, histVars>>

\* Mutant: WriteRefreshCookie is forgotten.
RotateUnwritten(m) ==
    LET s == m.token.sid IN
    /\ m.kind = "refresh" /\ Active(s) /\ m.token.age = 0
    /\ m.expected \in {NoSid, s}
    /\ sess' = [sess EXCEPT ![s].grace = TRUE]
    /\ jar' = Older(jar, s)
    /\ requests' = {[n EXCEPT !.token = Older(@, s)] : n \in requests \ {m}}
    /\ answers' = {[a EXCEPT !.cookie = Older(@, s)] : a \in answers}
                    \cup Reply(m, "ok", s, FALSE, NoToken)
    /\ UNCHANGED <<tabVars, webLocks, boundVars, histVars>>

\* RotateUserSessionRefresh: the presented token becomes the previous one and
\* every copy of it in the browser grows older.
RotateRefresh(m) ==
    LET s == m.token.sid IN
    /\ m.kind = "refresh" /\ Active(s) /\ m.token.age = 0
    /\ m.expected \in {NoSid, s}
    /\ sess' = [sess EXCEPT ![s].grace = TRUE]
    /\ jar' = Older(jar, s)
    /\ requests' = {[n EXCEPT !.token = Older(@, s)] : n \in requests \ {m}}
    /\ answers' = {[a EXCEPT !.cookie = Older(@, s)] : a \in answers}
                    \cup Reply(m, "ok", s, TRUE, [sid |-> s, age |-> 0])
    /\ UNCHANGED <<tabVars, webLocks, boundVars, histVars>>

\* The previous token within RefreshReplayWindow: its successor is derived
\* again and is the current one.
ReissueRefresh(m) ==
    LET s == m.token.sid IN
    /\ m.kind = "refresh" /\ Active(s) /\ m.token.age = 1 /\ sess[s].grace
    /\ m.expected \in {NoSid, s}
    /\ requests' = requests \ {m}
    /\ answers' = answers \cup Reply(m, "ok", s, TRUE, [sid |-> s, age |-> 0])
    /\ UNCHANGED <<tabVars, webLocks, jar, sess, boundVars, histVars>>

\* setupLoginAtAuthVersion, writeLoginResponse.
ServeLogin(m) ==
    \E s \in Sids :
        /\ m.kind = "login"
        /\ sess[s].status = "unused"
        /\ \A r \in Sids : r < s => sess[r].status # "unused"
        /\ sess' = [sess EXCEPT ![s].status = "active"]
        /\ requests' = requests \ {m}
        /\ answers' = answers \cup
             Reply(m, "ok", s, TRUE, [sid |-> s, age |-> 0])
        /\ UNCHANGED <<tabVars, webLocks, jar, boundVars, histVars>>

\* AuthLogout: a cookie of another session is a mismatch; a valid bearer
\* revokes its session, and clears the cookie only if it is that session's;
\* otherwise the cookie authenticates the sign-out by itself.
ServeLogout(m) ==
    LET s == m.token.sid
        known == m.token.age = 0 \/ (m.token.age = 1 /\ sess[s].grace)
    IN /\ m.kind = "logout"
       /\ requests' = requests \ {m}
       /\ \/ /\ m.token # NoToken /\ m.expected \notin {NoSid, s}
             /\ answers' = answers \cup Reply(m, "mismatch", NoSid, FALSE, NoToken)
             /\ UNCHANGED sess
          \/ /\ m.token = NoToken \/ m.expected \in {NoSid, s}
             /\ m.bearer # NoSid
             /\ sess' = IF Active(m.bearer) THEN Revoked(m.bearer) ELSE sess
             /\ answers' = answers \cup
                  Reply(m, "ok", m.expected, s = m.bearer, NoToken)
          \/ /\ m.token = NoToken \/ m.expected \in {NoSid, s}
             /\ m.bearer = NoSid
             /\ sess' = IF Active(s) /\ known THEN Revoked(s) ELSE sess
             /\ answers' = answers \cup Reply(m, "ok", m.expected, TRUE, NoToken)
       /\ UNCHANGED <<tabVars, webLocks, jar, boundVars, histVars>>

(***************************************************************************)
(* Time, other devices and failures                                        *)
(***************************************************************************)

AccessExpires(t) ==
    /\ Act
    /\ store[t].access = "valid"
    /\ store' = [store EXCEPT ![t].access = "expired"]
    /\ UNCHANGED <<runner, op, events, locks, webLocks, netVars, sess, faults,
                   histVars>>

GraceEnds(s) ==
    /\ sess[s].grace
    /\ sess' = [sess EXCEPT ![s].grace = FALSE]
    /\ UNCHANGED <<tabVars, webLocks, netVars, boundVars, histVars>>

\* RevokeUserSession by another device, an administrator or a password change.
RevokedElsewhere(s) ==
    /\ Act
    /\ Active(s)
    /\ sess' = Revoked(s)
    /\ UNCHANGED <<tabVars, webLocks, netVars, faults, histVars>>

\* The client sees a failure, or for a refresh an answer that is none of the
\* server's; the request may still arrive.
RequestFails(m) ==
    \E status \in IF m.kind = "refresh" THEN {"failed", "odd"} ELSE {"failed"},
       arrives \in BOOLEAN :
        /\ m.live /\ faults < MaxFaults
        /\ arrives => Cardinality(Orphans) < MaxOrphans
        /\ faults' = faults + 1
        /\ answers' = answers \cup Reply(m, status, NoSid, FALSE, NoToken)
        /\ requests' = (requests \ {m}) \cup
             (IF arrives THEN {[m EXCEPT !.live = FALSE]} ELSE {})
        /\ astray' = IF arrives /\ m.kind = "refresh" /\ m.token # NoToken
                     THEN astray \cup {m.token.sid} ELSE astray
        /\ UNCHANGED <<acts, tabVars, webLocks, jar, sess, refused>>

\* The server has done its work, the answer never arrives.
AnswerLost(a) ==
    /\ faults < MaxFaults /\ a.status \notin {"failed", "odd"}
    /\ faults' = faults + 1
    /\ answers' = (answers \ {a}) \cup
         {[a EXCEPT !.status = "failed", !.sid = NoSid, !.set = FALSE,
                    !.cookie = NoToken]}
    /\ astray' = IF a.set THEN astray \cup ({a.cookie.sid} \ {NoSid}) ELSE astray
    /\ UNCHANGED <<acts, tabVars, webLocks, jar, requests, sess, refused>>

Tab(t) == RunRefresh(t) \/ ApiAnswered(t) \/ ApiResume(t) \/ ApiAnsweredAgain(t)
            \/ LogoutResume(t) \/ HandleEvent(t)

Deliver(a) == RefreshSuperseded(a) \/ RefreshAccepted(a) \/ RefreshMismatch(a)
                \/ RefreshUnauthorized(a) \/ RefreshFailed(a)
                \/ RefreshOutOfSync(a) \/ LoginDone(a) \/ LogoutDone(a)
                \/ LogoutMismatch(a) \/ OpFailed(a)

Serve(m) == RefuseRefresh(m) \/ MismatchRefresh(m) \/ RotateRefresh(m)
              \/ ReissueRefresh(m) \/ ServeLogin(m) \/ ServeLogout(m)

User(t) == Resolve(t) \/ FreshAuthHeaders(t) \/ ApiCall(t) \/ Login(t)
             \/ SignOut(t)

Next ==
    \/ \E t \in Tabs : User(t) \/ Tab(t) \/ AccessExpires(t) \/ Reload(t)
    \/ \E a \in answers : Deliver(a) \/ AnswerLost(a)
    \/ \E m \in requests : Serve(m) \/ RequestFails(m)
    \/ \E s \in Sids : GraceEnds(s) \/ RevokedElsewhere(s)

Spec == Init /\ [][Next]_vars

\* A tab's event loop runs, the server serves the requests its page still waits
\* for, and their answers arrive.  Orphans, the user, timers and failures owe
\* nothing.
Progress(t) ==
    \/ Tab(t)
    \/ \E a \in answers : a.from = t /\ Deliver(a)
    \/ \E m \in requests : m.from = t /\ m.live /\ Serve(m)

Fairness == \A t \in Tabs : WF_vars(Progress(t))

FairSpec == Spec /\ Fairness

(***************************************************************************)
(* Properties                                                              *)
(***************************************************************************)

\* Every variable keeps its type.
TypeOK ==
    /\ store \in [Tabs -> Store] /\ runner \in [Tabs -> Runner]
    /\ op \in [Tabs -> Op] /\ events \in [Tabs -> Seq(Event)]
    /\ webLocks \in BOOLEAN /\ locks \in Seq(Tabs)
    /\ jar \in Token /\ requests \subseteq Request /\ answers \subseteq Answer
    /\ sess \in [Sids -> Row]
    /\ acts \in 0 .. MaxActs[webLocks] /\ faults \in 0 .. MaxFaults
    /\ astray \subseteq Sids /\ refused \subseteq Sids

\* With Web Locks, tabs that refresh at the same time never cost the user the
\* session: the server refuses or revokes an active session only after the
\* client of one of its refreshes was lost.
ActiveSessionsAreNotRefused == webLocks => refused \subseteq astray

\* With Web Locks, once no refresh is under way the browser holds the current
\* token of its session, whatever order cookies were set in, unless the client
\* of a refresh was lost.
JarIsCurrent ==
    /\ webLocks /\ \A t \in Tabs : runner[t].pc = "off"
    /\ Active(jar.sid) /\ jar.sid \notin astray
    => jar.age = 0

\* A tab that shows one session never turns into another by a refresh: it
\* forgets the first session before it accepts the second.
NoSilentAccountSwitch ==
    [][\A t \in Tabs : store[t].sid # NoSid /\ store'[t].sid # NoSid
                         => store'[t].sid = store[t].sid]_vars

\* Every refresh settles, so that nobody waits for its promise or for the lock
\* for ever.
RefreshSettles == \A t \in Tabs : runner[t].pc # "off" ~> runner[t].pc = "off"

DeadSession(t) == store[t].sid # NoSid /\ ~Active(store[t].sid)

\* A tab that shows a revoked session forgets it, or finds an active one, with
\* its next api call, unless an exchange fails.
RejectedCallLeavesDeadSession ==
    \A t \in Tabs :
        (op[t].kind = "api" /\ op[t].stage = "sent" /\ DeadSession(t)
            /\ faults = 0) ~> (~DeadSession(t) \/ faults > 0)

\* A sign-out that the tab reports as done has revoked the session the tab
\* showed (docs/authentication.md: logout revokes the current login session).
SignOutRevokes ==
    [][\A a \in answers : LogoutDone(a) => ~Active(store[a.from].sid)]_vars
=============================================================================
