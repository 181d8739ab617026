------------------------------ MODULE AuthClient ------------------------------
(***************************************************************************)
(* The session of a browser tab: AuthClient, its RefreshManager, the       *)
(* AuthProvider of the web application and the passport cache that follows *)
(* its user, against the cookie of the browser and the sessions the server *)
(* accepts.                                                                *)
(*                                                                         *)
(* The token storage of the web is a variable of the page, so that what    *)
(* follows the end of a request runs without interruption: one action per  *)
(* request sent, handled by the server, or answered.  Every login is by    *)
(* another user, so that a session also names who it belongs to.  Access   *)
(* tokens expire together: fresh are those minted since.                   *)
(***************************************************************************)
EXTENDS Naturals, FiniteSets

CONSTANTS
    Callers,            \* parts of the page that have one call under way each
    Boot,               \* the call that AuthProvider makes when the page loads
    None,
    MaxSessions,        \* bound: logins of a behaviour
    MaxRefreshAttempts, \* DEFAULT_MAX_REFRESH_ATTEMPTS
    Events              \* what else happens: see Everything

Everything == {"network", "late", "revoke", "tab", "reload"}

ASSUME AuthClientAssumption ==
    /\ Boot \notin Callers
    /\ None \notin Callers \cup {Boot}
    /\ MaxSessions \in Nat
    /\ MaxRefreshAttempts \in Nat \ {0}
    /\ Events \subseteq Everything

VARIABLES
    alive,      \* sessions whose refresh token the server accepts
    minted,     \* sessions opened so far
    cookie,     \* refresh token in the cookie of the browser
    access,     \* access token in MemoryTokenStorage
    user,       \* who the page shows as connected, or 0
    loading,    \* isLoading
    inFlight,   \* RefreshManager.inFlight, named by the proc that started it
    attempts,   \* RefreshManager.attempts
    rf,         \* rf[p]: the refresh that p started, with the token it presents
                \* or is given
    call,       \* call[p]: the call of p
    form,       \* the login or logout under way
    cache,      \* passport-session-cache: sessionUserId, the user whose passport
                \* it holds (0: none), inFlightTryGet
    crossed,    \* history: what was overtaken since the page loaded
    failed,     \* history: a refresh failed since the last reset
    quit        \* history: sessions signed out with nothing else under way

server   == <<alive, minted>>
manager  == <<inFlight, attempts, failed>>
provider == <<user, loading>>
vars     == <<alive, minted, cookie, access, user, loading, inFlight, attempts,
              rf, call, form, cache, crossed, failed, quit>>

Procs    == Callers \cup {Boot}
Sessions == 1 .. MaxSessions
Token    == [sess : 0 .. MaxSessions, fresh : BOOLEAN]
NoToken  == [sess |-> 0, fresh |-> FALSE]
Fresh(s) == [sess |-> s, fresh |-> TRUE]

\* A refresh token: its session and how many rotations ago it was consumed (0:
\* not yet; 1: its replay gives the successor; 2: too old for that).
Ref     == [sess : 0 .. MaxSessions, age : 0 .. 2]
NoRef   == [sess |-> 0, age |-> 0]
Live(s) == [sess |-> s, age |-> 0]

NoRefresh == [pc |-> "none", ref |-> NoRef, fresh |-> FALSE]
NoCall    == [pc |-> "idle", kind |-> "api", tok |-> NoToken, on |-> None]
NoForm    == [op |-> "none", ref |-> NoRef, done |-> FALSE]
Unknown(s) == [of |-> s, owner |-> 0, flight |-> FALSE]

\* What becomes of a refresh or a call: everything else about it stays.
Sent(ref)            == [pc |-> "sent", ref |-> ref, fresh |-> FALSE]
Presenting(r, ref)   == [pc |-> r.pc, ref |-> ref, fresh |-> r.fresh]
Going(c, pc, on)     == [pc |-> pc, kind |-> c.kind, tok |-> c.tok, on |-> on]
Resumed(c, tok)      == [pc |-> IF c.pc = "booting" THEN "sent" ELSE "retry",
                         kind |-> c.kind, tok |-> tok, on |-> None]

Refresh    == [pc : {"none", "sent", "granted"}, ref : Ref, fresh : BOOLEAN]
CallRecord == [pc : {"idle", "start", "booting", "sent", "waiting", "retry"},
               kind : {"api", "me", "passport"}, tok : Token, on : Procs \cup {None}]
Form       == [op : {"none", "login", "logout"}, ref : Ref, done : BOOLEAN]
Cache      == [of : 0 .. MaxSessions, owner : 0 .. MaxSessions, flight : BOOLEAN]

TypeOK ==
    /\ alive \subseteq Sessions
    /\ minted \in 0 .. MaxSessions
    /\ cookie \in Ref
    /\ access \in Token
    /\ user \in 0 .. MaxSessions
    /\ loading \in BOOLEAN
    /\ inFlight \in Procs \cup {None}
    /\ attempts \in 0 .. MaxRefreshAttempts
    /\ rf \in [Procs -> Refresh]
    /\ call \in [Procs -> CallRecord]
    /\ form \in Form
    /\ cache \in Cache
    /\ crossed \subseteq {"refresh", "call", "tab"}
    /\ failed \in BOOLEAN
    /\ quit \subseteq Sessions

Loaded == [p \in Procs |-> IF p = Boot THEN [pc |-> "start", kind |-> "me", tok |-> NoToken, on |-> None]
                                      ELSE NoCall]

Init ==
    /\ alive = {}
    /\ minted = 0
    /\ cookie = NoRef
    /\ access = NoToken
    /\ user = 0
    /\ loading = TRUE
    /\ inFlight = None
    /\ attempts = 0
    /\ rf = [p \in Procs |-> NoRefresh]
    /\ call = Loaded
    /\ form = NoForm
    /\ cache = Unknown(0)
    /\ crossed = {}
    /\ failed = FALSE
    /\ quit = {}

-----------------------------------------------------------------------------
(* RefreshManager: refresh, reset                                          *)

Refreshing == {p \in Procs : rf[p].pc # "none"}
Busy       == {p \in Procs : call[p].pc \notin {"idle", "start"}}

Reset ==
    /\ inFlight' = None
    /\ attempts' = 0
    /\ failed' = FALSE

\* p calls refreshAccessToken and joins the refresh in flight, or starts one
\* with the cookie of the moment; pc is where it goes on.
Join(p, pc) ==
    /\ inFlight # None
    /\ call' = [call EXCEPT ![p] = Going(@, pc, inFlight)]
    /\ UNCHANGED <<rf, manager>>

\* Mutant of StartRefresh: it does not look at inFlight.
StartRefreshAnyway(p, pc) ==
    /\ attempts < MaxRefreshAttempts \/ inFlight # None
    /\ attempts' = 1
    /\ inFlight' = p
    /\ rf' = [rf EXCEPT ![p] = Sent(cookie)]
    /\ call' = [call EXCEPT ![p] = Going(@, pc, p)]
    /\ UNCHANGED failed

StartRefresh(p, pc) ==
    /\ inFlight = None
    /\ attempts < MaxRefreshAttempts
    /\ attempts' = attempts + 1
    /\ inFlight' = p
    /\ rf' = [rf EXCEPT ![p] = Sent(cookie)]
    /\ call' = [call EXCEPT ![p] = Going(@, pc, p)]
    /\ UNCHANGED failed

LimitReached == inFlight = None /\ attempts >= MaxRefreshAttempts

(* passport-session-cache: syncPassportSessionUser, the end of the promise *)

\* Mutant of SyncUser: the new user inherits what the cache holds.
SyncUserOnly(s) == [cache EXCEPT !.of = s]

SyncUser(s)   == IF cache.of = s THEN cache ELSE Unknown(s)
Settle(c, C)  == IF \E q \in C : call[q].kind = "passport"
                 THEN [c EXCEPT !.flight = FALSE] ELSE c

\* History: what goes on behind the back of a change of session that ends the
\* refreshes R and the calls C.
Overtakes(R, C) ==
    crossed' = crossed
        \cup (IF Refreshing \ R # {} THEN {"refresh"} ELSE {})
        \cup (IF \E q \in Busy \ C : call[q].kind # "api" THEN {"call"} ELSE {})

\* Mutant of ClearSession: AuthProvider is not told.
ClearSessionSilently(R, C) ==
    /\ Reset
    /\ access' = NoToken
    /\ Overtakes(R, C)
    /\ UNCHANGED <<user, cache>>

\* clearSession, onSessionCleared included, in a step that ends R and C.
ClearSession(R, C) ==
    /\ Reset
    /\ access' = NoToken
    /\ user' = 0
    /\ cache' = Settle(SyncUser(0), C)
    /\ Overtakes(R, C)

-----------------------------------------------------------------------------
(* A refresh: the server, the answer, who waited for it                    *)

Older(ref, s) == IF ref.sess = s /\ ref.age < 2 THEN [sess |-> s, age |-> ref.age + 1] ELSE ref

\* The server rotates a live token, and replays a rotation it remembers.
RefreshServer(p) ==
    LET s == rf[p].ref.sess
        given == [pc |-> "granted", ref |-> Live(s), fresh |-> TRUE] IN
    /\ rf[p].pc = "sent"
    /\ s \in alive
    /\ \/ /\ rf[p].ref.age = 0
          /\ rf' = [q \in Procs |-> IF q = p THEN given
                                   ELSE Presenting(rf[q], Older(rf[q].ref, s))]
          /\ cookie' = Older(cookie, s)
          /\ form' = [form EXCEPT !.ref = Older(@, s)]
       \/ /\ rf[p].ref.age = 1
          /\ rf' = [rf EXCEPT ![p] = given]
          /\ UNCHANGED <<cookie, form>>
    /\ UNCHANGED <<server, access, provider, manager, call, cache, crossed, quit>>

\* It refuses a token of a session that is over, and one consumed too long
\* ago, which may be taken for a theft and end the session.
Refused(p) ==
    LET s == rf[p].ref.sess IN
    /\ rf[p].pc = "sent"
    /\ \/ s \notin alive /\ alive' = alive
       \/ rf[p].ref.age = 2 /\ alive' \in {alive, alive \ {s}}
       \/ rf[p].ref.age = 1 /\ "late" \in Events /\ alive' = alive \ {s}

\* Mutant of Waiters: only the call that started the refresh hears of it.
WaitersAlone(p) == {q \in {p} : call[q].pc \in {"waiting", "booting"} /\ call[q].on = p}

Waiters(p) == {q \in Procs : call[q].pc \in {"waiting", "booting"} /\ call[q].on = p}

Granted(p) == [sess |-> rf[p].ref.sess, fresh |-> rf[p].fresh]

\* Mutant of RefreshEnds: a refresh that succeeds still counts.
RefreshEndsCounted(p) ==
    /\ rf[p].pc = "granted"
    /\ cookie' = rf[p].ref
    /\ access' = Granted(p)
    /\ inFlight' = None
    /\ failed' = FALSE
    /\ rf' = [rf EXCEPT ![p] = NoRefresh]
    /\ call' = [q \in Procs |->
                  IF q \notin Waiters(p) THEN call[q]
                  ELSE Resumed(call[q], Granted(p))]
    /\ UNCHANGED <<server, provider, attempts, form, cache, crossed, quit>>

\* The browser keeps the cookie and the page the access token; finally forgets
\* whatever refresh is in flight by then.
RefreshEnds(p) ==
    /\ rf[p].pc = "granted"
    /\ cookie' = rf[p].ref
    /\ access' = Granted(p)
    /\ attempts' = 0
    /\ failed' = FALSE
    /\ inFlight' = None
    /\ rf' = [rf EXCEPT ![p] = NoRefresh]
    /\ call' = [q \in Procs |->
                  IF q \notin Waiters(p) THEN call[q]
                  ELSE Resumed(call[q], Granted(p))]
    /\ UNCHANGED <<server, provider, form, cache, crossed, quit>>

\* authenticatedFetch clears the session; bootstrap shows nobody connected and
\* leaves the manager as it is.
RefreshFails(p) ==
    /\ \/ Refused(p)
       \/ rf[p].pc # "none" /\ "network" \in Events /\ UNCHANGED alive
    /\ rf' = [rf EXCEPT ![p] = NoRefresh]
    /\ call' = [q \in Procs |-> IF q \in Waiters(p) THEN NoCall ELSE call[q]]
    /\ loading' = (loading /\ Boot \notin Waiters(p))
    /\ \/ /\ \E q \in Waiters(p) : call[q].pc = "waiting"
          /\ ClearSession({p}, Waiters(p))
       \/ /\ \A q \in Waiters(p) : call[q].pc = "booting"
          /\ inFlight' = None
          /\ failed' = TRUE
          /\ user' = IF Boot \in Waiters(p) THEN 0 ELSE user
          /\ UNCHANGED <<access, attempts, cache, crossed>>
    /\ UNCHANGED <<minted, cookie, form, quit>>

-----------------------------------------------------------------------------
(* authenticatedFetch                                                      *)

\* A call of the page: "me" is refreshUser, "passport" is tryGetPassportMe,
\* which asks only when the cache knows nothing and nobody asks already.  The
\* effects of a page run before that of AuthProvider, in one go: a passport
\* asked for by the first page of a user precedes SyncPassport.
Fetch(p, kind) ==
    /\ p \in Callers
    /\ call[p].pc = "idle"
    /\ kind # "api" => user # 0
    /\ kind = "passport" => cache.owner = 0 /\ ~cache.flight
    /\ call' = [call EXCEPT ![p] = [pc |-> "sent", kind |-> kind, tok |-> access, on |-> None]]
    /\ cache' = IF kind # "passport" THEN cache
                ELSE IF cache.of = user THEN [cache EXCEPT !.flight = TRUE] ELSE SyncUser(user)
    /\ UNCHANGED <<server, cookie, access, provider, manager, rf, form, crossed, quit>>

\* The call of p ends well, for the user of the token it carried.
Succeeds(p) ==
    LET who == call[p].tok.sess IN
    /\ call[p].tok.fresh
    /\ call' = [call EXCEPT ![p] = NoCall]
    /\ user' = IF call[p].kind = "me" THEN who ELSE user
    /\ loading' = (loading /\ p # Boot)
    /\ cache' = Settle(IF call[p].kind = "passport" THEN [cache EXCEPT !.owner = who]
                                                    ELSE cache, {p})
    /\ UNCHANGED <<server, cookie, access, manager, rf, form, crossed, quit>>

\* It ends badly without any effect on the session (no network, or an error
\* that is not 401); bootstrap then shows nobody connected.
Fails(p) ==
    /\ "network" \in Events
    /\ call' = [call EXCEPT ![p] = NoCall]
    /\ user' = IF p = Boot THEN 0 ELSE user
    /\ loading' = (loading /\ p # Boot)
    /\ cache' = Settle(cache, {p})
    /\ UNCHANGED <<server, cookie, access, manager, rf, form, crossed, quit>>

\* It ends and takes the session with it.
Expels(p) ==
    /\ call' = [call EXCEPT ![p] = NoCall]
    /\ loading' = (loading /\ p # Boot)
    /\ ClearSession({}, {p})
    /\ UNCHANGED <<server, cookie, rf, form, quit>>

Answer(p) ==
    /\ call[p].pc = "sent"
    /\ \/ Succeeds(p)
       \/ Fails(p)
       \/ /\ ~call[p].tok.fresh
          /\ \/ /\ Join(p, "waiting") \/ StartRefresh(p, "waiting")
                /\ UNCHANGED <<server, cookie, access, provider, form, cache, crossed, quit>>
             \/ LimitReached /\ Expels(p)

\* The request repeated with the new token; the try covers its network too.
Retry(p) ==
    /\ call[p].pc = "retry"
    /\ \/ Succeeds(p)
       \/ Fails(p)
       \/ ~call[p].tok.fresh /\ Expels(p)
       \/ "network" \in Events /\ Expels(p)

\* The effect of AuthProvider: refreshAccessToken, then me (a "sent" call).
Bootstrap ==
    /\ call[Boot].pc = "start"
    /\ \/ /\ Join(Boot, "booting") \/ StartRefresh(Boot, "booting")
          /\ UNCHANGED <<server, cookie, access, provider, form, cache, crossed, quit>>
       \/ /\ LimitReached
          /\ call' = [call EXCEPT ![Boot] = NoCall]
          /\ user' = 0
          /\ loading' = FALSE
          /\ UNCHANGED <<server, cookie, access, manager, rf, form, cache, crossed, quit>>

-----------------------------------------------------------------------------
(* login and logout                                                        *)

LoginSend ==
    /\ form = NoForm
    /\ ~loading
    /\ user = 0 /\ cache.of = 0
    /\ form' = [op |-> "login", ref |-> NoRef, done |-> FALSE]
    /\ UNCHANGED <<server, cookie, access, provider, manager, rf, call, cache, crossed, quit>>

\* _issue_session, then applyAuthResponse and setUser.
LoginEnds ==
    /\ form.op = "login"
    /\ minted < MaxSessions
    /\ minted' = minted + 1
    /\ alive' = alive \cup {minted + 1}
    /\ cookie' = Live(minted + 1)
    /\ access' = Fresh(minted + 1)
    /\ user' = minted + 1
    /\ Reset
    /\ Overtakes({}, {})
    /\ form' = NoForm
    /\ UNCHANGED <<loading, rf, call, cache, quit>>

\* Wrong password, or no answer.
LoginFails ==
    /\ form.op = "login"
    /\ form' = NoForm
    /\ UNCHANGED <<server, cookie, access, provider, manager, rf, call, cache, crossed, quit>>

LogoutSend ==
    /\ form = NoForm
    /\ user # 0 /\ cache.of = user
    /\ form' = [op |-> "logout", ref |-> cookie, done |-> FALSE]
    /\ UNCHANGED <<server, cookie, access, provider, manager, rf, call, cache, crossed, quit>>

\* The server revokes the token it is shown, which ends the session unless
\* that token was consumed already, and forgets its replay.
LogoutServer ==
    LET s == form.ref.sess
        forget(ref) == IF ref.age = 1 THEN Older(ref, s) ELSE ref IN
    /\ form.op = "logout" /\ ~form.done
    /\ alive' = IF form.ref.age = 0 THEN alive \ {s} ELSE alive
    /\ form' = [form EXCEPT !.done = TRUE]
    /\ IF form.ref.age = 1
       THEN /\ cookie' = forget(cookie)
            /\ rf' = [q \in Procs |-> Presenting(rf[q], forget(rf[q].ref))]
       ELSE UNCHANGED <<cookie, rf>>
    /\ UNCHANGED <<minted, access, provider, manager, call, cache, crossed, quit>>

\* Mutant of LogoutEnds: the page forgets its session, the server is not told.
LogoutEndsLocally ==
    /\ form.op = "logout"
    /\ quit' = IF Refreshing = {} /\ Busy = {} THEN (quit \cup {form.ref.sess}) \ {0} ELSE quit
    /\ ClearSession({}, {})
    /\ form' = NoForm
    /\ UNCHANGED <<server, cookie, loading, rf, call>>

\* The session is cleared whatever became of the request; its answer also
\* deletes the cookie.
LogoutEnds ==
    /\ form.op = "logout"
    /\ \/ /\ form.done
          /\ cookie' = NoRef
          /\ quit' = IF Refreshing = {} /\ Busy = {} THEN (quit \cup {form.ref.sess}) \ {0} ELSE quit
       \/ "network" \in Events /\ UNCHANGED <<cookie, quit>>
    /\ ClearSession({}, {})
    /\ form' = NoForm
    /\ UNCHANGED <<server, loading, rf, call>>

\* The effect of AuthProvider that follows the user once the page is rendered.
SyncPassport ==
    /\ cache.of # user
    /\ cache' = SyncUser(user)
    /\ UNCHANGED <<server, cookie, access, provider, manager, rf, call, form, crossed, quit>>

-----------------------------------------------------------------------------
(* The rest of the world                                                   *)

Stale(tok) == [sess |-> tok.sess, fresh |-> FALSE]

\* The access tokens minted so far expire.
Expire ==
    /\ access' = Stale(access)
    /\ rf' = [p \in Procs |-> [pc |-> rf[p].pc, ref |-> rf[p].ref, fresh |-> FALSE]]
    /\ call' = [p \in Procs |-> [pc |-> call[p].pc, kind |-> call[p].kind,
                             tok |-> Stale(call[p].tok), on |-> call[p].on]]
    /\ UNCHANGED <<server, cookie, provider, manager, form, cache, crossed, quit>>

\* A password reset, a suspension, a reuse detected: RefreshRotation.
Revoke(s) ==
    /\ "revoke" \in Events
    /\ s \in alive
    /\ alive' = alive \ {s}
    /\ UNCHANGED <<minted, cookie, access, provider, manager, rf, call, form, cache, crossed, quit>>

\* Another tab, which shares the cookie, logs somebody else in or out.
OtherTab ==
    /\ "tab" \in Events
    /\ \/ /\ minted < MaxSessions
          /\ minted' = minted + 1
          /\ alive' = alive \cup {minted + 1}
          /\ cookie' = Live(minted + 1)
       \/ /\ cookie # NoRef
          /\ alive' = IF cookie.age = 0 THEN alive \ {cookie.sess} ELSE alive
          /\ cookie' = NoRef
          /\ UNCHANGED minted
    /\ crossed' = crossed \cup {"tab"}
    /\ UNCHANGED <<access, provider, manager, rf, call, form, cache, quit>>

\* The page is loaded again: what was in memory or under way is gone.
Reload ==
    /\ "reload" \in Events
    /\ access' = NoToken
    /\ user' = 0
    /\ loading' = TRUE
    /\ Reset
    /\ rf' = [p \in Procs |-> NoRefresh]
    /\ call' = Loaded
    /\ form' = NoForm
    /\ cache' = Unknown(0)
    /\ crossed' = {}
    /\ UNCHANGED <<server, cookie, quit>>

Next ==
    \/ \E p \in Procs : RefreshServer(p) \/ RefreshEnds(p) \/ RefreshFails(p)
    \/ \E p \in Callers, kind \in {"api", "me", "passport"} : Fetch(p, kind)
    \/ \E p \in Procs : Answer(p) \/ Retry(p)
    \/ Bootstrap
    \/ LoginSend \/ LoginEnds \/ LoginFails
    \/ LogoutSend \/ LogoutServer \/ LogoutEnds
    \/ SyncPassport
    \/ Expire
    \/ \E s \in Sessions : Revoke(s)
    \/ OtherTab
    \/ Reload

\* The browser settles every request, and renders.
Fairness ==
    /\ \A p \in Procs : /\ WF_vars(RefreshServer(p))
                        /\ WF_vars(RefreshEnds(p) \/ RefreshFails(p))
                        /\ WF_vars(Answer(p))
                        /\ WF_vars(Retry(p))
    /\ WF_vars(Bootstrap)
    /\ WF_vars(LoginEnds \/ LoginFails)
    /\ WF_vars(LogoutServer)
    /\ WF_vars(LogoutEnds)
    /\ WF_vars(SyncPassport)

Spec == Init /\ [][Next]_vars /\ Fairness

-----------------------------------------------------------------------------
(* Properties                                                              *)

Calm == crossed = {}

\* The refresh manager deduplicates: one refresh is on the wire at a time, as
\* long as no reset has forgotten one since the page loaded.
OneRefreshAtATime ==
    "refresh" \notin crossed => Cardinality(Refreshing) <= 1

\* A caller is told that the limit is reached, and loses its session, only
\* after a refresh that really failed.
LimitMeansFailure ==
    "refresh" \notin crossed => (LimitReached => failed)

\* Whoever the page shows as connected is the user its calls are made for.
ShownIsActing ==
    Calm => (user # 0 => access.sess = user)

\* The cache serves nobody the passport of another.
OwnPassport ==
    Calm => (cache.owner # 0 /\ cache.of = user => cache.owner = user)

\* Nobody who signed out while nothing else was under way is shown as connected
\* again: neither by a late answer nor by the cookie when the page is reloaded.
SignedOutForGood == user \notin quit

\* Every call of the page ends, those that wait for the refresh of another
\* included, unless the page is reloaded for ever.
EveryCallEnds ==
    \A p \in Procs : []<>(call[p].pc = "idle") \/ []<><<Reload>>_vars
=============================================================================
