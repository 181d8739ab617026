---------------------------- MODULE AuthClientProofs ----------------------------
(***************************************************************************)
(* Proofs about AuthClient, for any number of callers and of logins, any   *)
(* limit of attempts and any set of events.                                *)
(***************************************************************************)
EXTENDS AuthClient, FiniteSetTheorems, TLAPS

Asking == {p \in Procs : call[p].pc \in {"sent", "retry"}}

\* While no reset has forgotten a refresh, the one on the wire is inFlight, and
\* attempts are left over only from one that failed.
ManagerInv ==
    "refresh" \notin crossed =>
        /\ \A p \in Refreshing : p = inFlight
        /\ inFlight = None /\ attempts > 0 => failed

\* While the page loads it shows nobody, and only bootstrap asks who is there.
LoadInv ==
    /\ loading => /\ user = 0
                  /\ form.op # "login"
                  /\ \A p \in Callers : call[p].pc # "idle" => call[p].kind = "api"
    /\ call[Boot].pc # "idle" => loading /\ call[Boot].kind = "me"

\* As long as nothing was overtaken, everything is about one session.
OneSession ==
    /\ access.sess # 0 => access.sess = cookie.sess
    /\ user # 0 => access.sess = user
    /\ \A p \in Refreshing : /\ rf[p].ref.sess = cookie.sess
                             /\ rf[p].pc = "granted" => rf[p].ref.sess # 0
    /\ \A p \in Asking : call[p].kind # "api" =>
        /\ call[p].tok.sess = access.sess
        /\ access.sess # 0
    /\ \A p \in Busy : call[p].kind = "passport" => user # 0 /\ cache.of = user
    /\ cache.owner # 0 => cache.owner = cache.of

CalmInv == LoadInv /\ (Calm => OneSession)

\* The sessions that a cookie, a token, the page or a form names.
Named ==
    {cookie.sess, access.sess, user, form.ref.sess}
        \cup {rf[p].ref.sess : p \in Refreshing} \cup {call[p].tok.sess : p \in Busy}

\* Nothing is left of a session of quit, and new sessions get new names.
QuitInv ==
    /\ \A s \in Named : s <= minted
    /\ \A s \in quit : s <= minted /\ s \notin Named
    /\ \A p \in Procs : call[p].pc = "start" => call[p].tok.sess = 0

----------------------------------------------------------------------------
(* Types                                                                   *)

USE AuthClientAssumption

\* What the actions make of the records stays in their types.
LEMMA Made ==
    /\ NoToken \in Token /\ NoRef \in Ref /\ NoRefresh \in Refresh
    /\ NoCall \in CallRecord /\ NoForm \in Form
    /\ \A s \in 0 .. MaxSessions : Fresh(s) \in Token /\ Live(s) \in Ref /\ Unknown(s) \in Cache
    /\ \A tok \in Token : Stale(tok) \in Token
    /\ \A ref \in Ref, s \in 0 .. MaxSessions : Older(ref, s) \in Ref
    /\ \A ref \in Ref : Sent(ref) \in Refresh
    /\ \A r \in Refresh, ref \in Ref : Presenting(r, ref) \in Refresh
    /\ \A c \in CallRecord, pc \in {"waiting", "booting"}, on \in Procs :
          Going(c, pc, on) \in CallRecord
    /\ \A c \in CallRecord, tok \in Token : Resumed(c, tok) \in CallRecord
  <1>1. NoToken \in Token /\ NoRef \in Ref
    BY DEF NoToken, Token, NoRef, Ref
  <1>2. NoRefresh \in Refresh /\ NoCall \in CallRecord /\ NoForm \in Form
    BY <1>1 DEF NoRefresh, Refresh, NoCall, CallRecord, NoForm, Form
  <1>3. \A s \in 0 .. MaxSessions : Fresh(s) \in Token /\ Live(s) \in Ref /\ Unknown(s) \in Cache
    BY DEF Fresh, Token, Live, Ref, Unknown, Cache
  <1>4. \A tok \in Token : Stale(tok) \in Token
    BY DEF Stale, Token
  <1>5. \A ref \in Ref, s \in 0 .. MaxSessions : Older(ref, s) \in Ref
    BY DEF Older, Ref
  <1>6. \A ref \in Ref : Sent(ref) \in Refresh
    BY DEF Sent, Refresh
  <1>7. \A r \in Refresh, ref \in Ref : Presenting(r, ref) \in Refresh
    BY DEF Presenting, Refresh
  <1>8. \A c \in CallRecord, pc \in {"waiting", "booting"}, on \in Procs :
          Going(c, pc, on) \in CallRecord
    BY DEF Going, CallRecord
  <1>9. \A c \in CallRecord, tok \in Token : Resumed(c, tok) \in CallRecord
    BY DEF Resumed, CallRecord
  <1> QED BY <1>1, <1>2, <1>3, <1>4, <1>5, <1>6, <1>7, <1>8, <1>9

\* The values that mean nothing.
LEMMA Empty ==
    /\ NoToken \in Token /\ NoRef \in Ref /\ NoRefresh \in Refresh
    /\ NoCall \in CallRecord /\ NoForm \in Form /\ Unknown(0) \in Cache
    /\ Loaded \in [Procs -> CallRecord]
    /\ 0 \in 0 .. MaxSessions /\ 0 \in 0 .. MaxRefreshAttempts
  <1>1. 0 \in 0 .. MaxSessions /\ 0 \in 0 .. MaxRefreshAttempts
    OBVIOUS
  <1>2. [pc |-> "start", kind |-> "me", tok |-> NoToken, on |-> None] \in CallRecord
    BY Made DEF CallRecord
  <1>3. Loaded \in [Procs -> CallRecord]
    BY <1>2, Made DEF Loaded
  <1> QED BY <1>1, <1>3, Made

LEMMA OvertakesType ==
    ASSUME TypeOK, NEW R, NEW C, Overtakes(R, C)
    PROVE  crossed' \subseteq {"refresh", "call", "tab"} /\ crossed \subseteq crossed'
  BY DEF TypeOK, Overtakes

LEMMA InitType == Init => TypeOK
  <1> SUFFICES ASSUME Init PROVE TypeOK
    OBVIOUS
  <1>1. [p \in Procs |-> NoRefresh] \in [Procs -> Refresh]
    BY Empty
  <1> QED BY <1>1, Empty DEF Init, TypeOK

\* The refresh of p gets under way, for its call or for that of another.
LEMMA AskType ==
    ASSUME TypeOK, NEW p \in Procs, NEW pc \in {"waiting", "booting"},
           Join(p, pc) \/ StartRefresh(p, pc)
    PROVE  /\ call' \in [Procs -> CallRecord] /\ rf' \in [Procs -> Refresh]
           /\ inFlight' \in Procs \cup {None} /\ attempts' \in 0 .. MaxRefreshAttempts
           /\ failed' = failed
  <1>1. CASE Join(p, pc)
    <2>1. Going(call[p], pc, inFlight) \in CallRecord
      BY <1>1, Made DEF Join, TypeOK
    <2> QED BY <1>1, <2>1 DEF Join, TypeOK, manager
  <1>2. CASE StartRefresh(p, pc)
    <2>1. Going(call[p], pc, p) \in CallRecord /\ Sent(cookie) \in Refresh
      BY Made DEF TypeOK
    <2>2. attempts' \in 0 .. MaxRefreshAttempts
      BY <1>2 DEF StartRefresh, TypeOK
    <2> QED BY <1>2, <2>1, <2>2 DEF StartRefresh, TypeOK
  <1> QED BY <1>1, <1>2

\* A step that clears the session.
LEMMA ClearType ==
    ASSUME TypeOK, NEW R, NEW C, ClearSession(R, C)
    PROVE  /\ inFlight' = None /\ attempts' = 0 /\ failed' = FALSE
           /\ access' = NoToken /\ access' \in Token /\ user' = 0
           /\ cache' \in Cache
           /\ crossed' \subseteq {"refresh", "call", "tab"}
  <1>1. SyncUser(0) \in Cache
    BY Empty DEF SyncUser, TypeOK
  <1>2. Settle(SyncUser(0), C) \in Cache
    BY <1>1 DEF Settle, Cache
  <1>3. crossed' \subseteq {"refresh", "call", "tab"}
    BY OvertakesType DEF ClearSession
  <1> QED BY <1>2, <1>3, Empty DEF ClearSession, Reset

LEMMA ServerType == ASSUME TypeOK, NEW p \in Procs, RefreshServer(p) PROVE TypeOK'
  <1> DEFINE s == rf[p].ref.sess
             given == [pc |-> "granted", ref |-> Live(s), fresh |-> TRUE]
  <1>1. s \in 0 .. MaxSessions
    BY DEF TypeOK, Refresh, Ref
  <1>2. given \in Refresh
    BY <1>1, Made DEF Refresh
  <1>3. Older(cookie, s) \in Ref /\ Older(form.ref, s) \in Ref
    BY <1>1, Made DEF TypeOK, Form
  <1>4. \A q \in Procs : Presenting(rf[q], Older(rf[q].ref, s)) \in Refresh
    BY <1>1, Made DEF TypeOK, Refresh
  <1>5. [form EXCEPT !.ref = Older(@, s)] \in Form
    BY <1>3 DEF TypeOK, Form
  <1> HIDE DEF given, s
  <1>6. \/ /\ rf' = [q \in Procs |-> IF q = p THEN given
                                     ELSE Presenting(rf[q], Older(rf[q].ref, s))]
           /\ cookie' = Older(cookie, s) /\ form' = [form EXCEPT !.ref = Older(@, s)]
        \/ rf' = [rf EXCEPT ![p] = given] /\ UNCHANGED <<cookie, form>>
    BY DEF RefreshServer, s, given
  <1>7. rf' \in [Procs -> Refresh] /\ cookie' \in Ref /\ form' \in Form
    BY <1>2, <1>3, <1>4, <1>5, <1>6 DEF TypeOK
  <1> QED BY <1>7 DEF RefreshServer, server, provider, manager, TypeOK

LEMMA EndsType == ASSUME TypeOK, NEW p \in Procs, RefreshEnds(p) PROVE TypeOK'
  <1>1. Granted(p) \in Token /\ rf[p].ref \in Ref
    BY DEF Granted, Token, TypeOK, Refresh, Ref
  <1>2. \A q \in Procs : Resumed(call[q], Granted(p)) \in CallRecord
    BY <1>1, Made DEF TypeOK
  <1>3. call' \in [Procs -> CallRecord]
    BY <1>2 DEF RefreshEnds, TypeOK
  <1>4. rf' \in [Procs -> Refresh]
    BY Empty DEF RefreshEnds, TypeOK
  <1> QED BY <1>1, <1>3, <1>4, Empty DEF RefreshEnds, TypeOK, server, provider

LEMMA FailsType == ASSUME TypeOK, NEW p \in Procs, RefreshFails(p) PROVE TypeOK'
  <1>1. alive' \subseteq Sessions
    BY DEF RefreshFails, Refused, TypeOK
  <1>2. call' \in [Procs -> CallRecord] /\ rf' \in [Procs -> Refresh]
    BY Made DEF RefreshFails, TypeOK
  <1>3. /\ access' \in Token /\ user' \in 0 .. MaxSessions /\ inFlight' \in Procs \cup {None}
        /\ attempts' \in 0 .. MaxRefreshAttempts /\ cache' \in Cache
        /\ crossed' \subseteq {"refresh", "call", "tab"} /\ failed' \in BOOLEAN
    <2>1. CASE ClearSession({p}, Waiters(p))
      BY <2>1, ClearType, Empty
    <2>2. CASE ~ClearSession({p}, Waiters(p))
      BY <2>2, Empty DEF RefreshFails, TypeOK
    <2> QED BY <2>1, <2>2
  <1>4. loading' \in BOOLEAN
    BY DEF RefreshFails
  <1> QED BY <1>1, <1>2, <1>3, <1>4 DEF RefreshFails, TypeOK

LEMMA FetchType ==
    ASSUME TypeOK, NEW p \in Callers, NEW kind \in {"api", "me", "passport"}, Fetch(p, kind)
    PROVE  TypeOK'
  <1>1. [pc |-> "sent", kind |-> kind, tok |-> access, on |-> None] \in CallRecord
    BY DEF TypeOK, CallRecord
  <1>2. [cache EXCEPT !.flight = TRUE] \in Cache /\ SyncUser(user) \in Cache
    BY Made DEF TypeOK, Cache, SyncUser
  <1>3. call' \in [Procs -> CallRecord] /\ cache' \in Cache
    BY <1>1, <1>2 DEF Fetch, TypeOK
  <1> QED BY <1>3 DEF Fetch, TypeOK, server, provider, manager

LEMMA AnswerType ==
    ASSUME TypeOK, NEW p \in Procs, Answer(p) \/ Retry(p)
    PROVE  TypeOK'
  <1>1. CASE Succeeds(p)
    <2>1. call[p].tok.sess \in 0 .. MaxSessions
      BY DEF TypeOK, CallRecord, Token
    <2>2. [cache EXCEPT !.owner = call[p].tok.sess] \in Cache
      BY <2>1 DEF TypeOK, Cache
    <2>3. \A c \in Cache : Settle(c, {p}) \in Cache
      BY DEF Settle, Cache
    <2>4. cache' \in Cache /\ user' \in 0 .. MaxSessions /\ call' \in [Procs -> CallRecord]
      BY <1>1, <2>1, <2>2, <2>3, Made DEF Succeeds, TypeOK
    <2> QED BY <1>1, <2>4 DEF Succeeds, TypeOK, server, manager
  <1>2. CASE Fails(p)
    <2>1. Settle(cache, {p}) \in Cache
      BY DEF Settle, Cache, TypeOK
    <2> QED BY <1>2, <2>1, Made DEF Fails, TypeOK, server, manager
  <1>3. CASE Expels(p)
    <2>1. /\ inFlight' = None /\ attempts' = 0 /\ failed' = FALSE
          /\ access' \in Token /\ user' = 0 /\ cache' \in Cache
          /\ crossed' \subseteq {"refresh", "call", "tab"}
      BY <1>3, ClearType DEF Expels
    <2> QED BY <1>3, <2>1, Empty DEF Expels, TypeOK, server
  <1>4. CASE /\ Join(p, "waiting") \/ StartRefresh(p, "waiting")
             /\ UNCHANGED <<server, cookie, access, provider, form, cache, crossed, quit>>
    BY <1>4, AskType DEF TypeOK, server, provider
  <1> QED BY <1>1, <1>2, <1>3, <1>4 DEF Answer, Retry

LEMMA BootType == ASSUME TypeOK, Bootstrap PROVE TypeOK'
  <1>1. Boot \in Procs
    BY DEF Procs
  <1>2. CASE /\ Join(Boot, "booting") \/ StartRefresh(Boot, "booting")
             /\ UNCHANGED <<server, cookie, access, provider, form, cache, crossed, quit>>
    BY <1>1, <1>2, AskType DEF TypeOK, server, provider
  <1>3. CASE LimitReached /\ call' = [call EXCEPT ![Boot] = NoCall] /\ user' = 0 /\ loading' = FALSE
             /\ UNCHANGED <<server, cookie, access, manager, rf, form, cache, crossed, quit>>
    BY <1>1, <1>3, Empty DEF TypeOK, server, manager
  <1> QED BY <1>2, <1>3 DEF Bootstrap

LEMMA LoginType ==
    ASSUME TypeOK, LoginSend \/ LoginEnds \/ LoginFails
    PROVE  TypeOK'
  <1>1. CASE LoginSend
    <2>1. [op |-> "login", ref |-> NoRef, done |-> FALSE] \in Form
      BY Made DEF Form
    <2> QED BY <1>1, <2>1 DEF LoginSend, TypeOK, server, provider, manager
  <1>2. CASE LoginEnds
    <2>1. minted + 1 \in Sessions /\ minted + 1 \in 0 .. MaxSessions
      BY <1>2 DEF LoginEnds, TypeOK, Sessions
    <2>2. Live(minted + 1) \in Ref /\ Fresh(minted + 1) \in Token
      BY <2>1, Made
    <2>3. crossed' \subseteq {"refresh", "call", "tab"}
      BY <1>2, OvertakesType DEF LoginEnds
    <2> QED BY <1>2, <2>1, <2>2, <2>3, Empty DEF LoginEnds, Reset, TypeOK
  <1>3. CASE LoginFails
    BY <1>3, Made DEF LoginFails, TypeOK, server, provider, manager
  <1> QED BY <1>1, <1>2, <1>3

LEMMA LogoutType ==
    ASSUME TypeOK, LogoutSend \/ LogoutServer \/ LogoutEnds
    PROVE  TypeOK'
  <1>1. CASE LogoutSend
    <2>1. [op |-> "logout", ref |-> cookie, done |-> FALSE] \in Form
      BY DEF Form, TypeOK
    <2> QED BY <1>1, <2>1 DEF LogoutSend, TypeOK, server, provider, manager
  <1>2. CASE LogoutServer
    <2> DEFINE s == form.ref.sess
               forget(ref) == IF ref.age = 1 THEN Older(ref, s) ELSE ref
    <2>1. \A ref \in Ref : forget(ref) \in Ref
      BY Made DEF TypeOK, Form, Ref
    <2>2. \A q \in Procs : Presenting(rf[q], forget(rf[q].ref)) \in Refresh
      BY <2>1, Made DEF TypeOK, Refresh
    <2>3. [form EXCEPT !.done = TRUE] \in Form
      BY DEF TypeOK, Form
    <2> HIDE DEF forget
    <2>4. cookie' \in Ref /\ rf' \in [Procs -> Refresh] /\ form' \in Form
      BY <1>2, <2>1, <2>2, <2>3 DEF LogoutServer, TypeOK, forget
    <2> QED BY <1>2, <2>4 DEF LogoutServer, TypeOK, provider, manager
  <1>3. CASE LogoutEnds
    <2>1. /\ inFlight' = None /\ attempts' = 0 /\ failed' = FALSE
          /\ access' \in Token /\ user' = 0 /\ cache' \in Cache
          /\ crossed' \subseteq {"refresh", "call", "tab"}
      BY <1>3, ClearType DEF LogoutEnds
    <2>2. form.ref.sess \in 0 .. MaxSessions
      BY DEF TypeOK, Form, Ref
    <2>3. quit' \subseteq Sessions
      <3>1. form.ref.sess # 0 => form.ref.sess \in Sessions
        BY <2>2 DEF Sessions
      <3>2. quit' = quit \/ quit' = (quit \cup {form.ref.sess}) \ {0}
        BY <1>3 DEF LogoutEnds
      <3> QED BY <3>1, <3>2 DEF TypeOK
    <2>4. cookie' \in Ref /\ form' \in Form
      BY <1>3, Empty DEF LogoutEnds, TypeOK
    <2> QED BY <1>3, <2>1, <2>3, <2>4, Empty DEF LogoutEnds, TypeOK, server
  <1> QED BY <1>1, <1>2, <1>3

LEMMA WorldType ==
    ASSUME TypeOK,
           SyncPassport \/ Expire \/ (\E s \in Sessions : Revoke(s)) \/ OtherTab \/ Reload
    PROVE  TypeOK'
  <1>1. CASE SyncPassport
    <2>1. SyncUser(user) \in Cache
      BY Made DEF TypeOK, SyncUser
    <2> QED BY <1>1, <2>1 DEF SyncPassport, TypeOK, server, provider, manager
  <1>2. CASE Expire
    <2>1. \A p \in Procs : [pc |-> rf[p].pc, ref |-> rf[p].ref, fresh |-> FALSE] \in Refresh
      BY DEF TypeOK, Refresh
    <2>2. \A p \in Procs : [pc |-> call[p].pc, kind |-> call[p].kind,
                            tok |-> Stale(call[p].tok), on |-> call[p].on] \in CallRecord
      BY Made DEF TypeOK, CallRecord
    <2>3. rf' \in [Procs -> Refresh] /\ call' \in [Procs -> CallRecord] /\ access' \in Token
      BY <1>2, <2>1, <2>2, Made DEF Expire, TypeOK
    <2> QED BY <1>2, <2>3 DEF Expire, TypeOK, server, provider, manager
  <1>3. CASE \E s \in Sessions : Revoke(s)
    BY <1>3 DEF Revoke, TypeOK, provider, manager
  <1>4. CASE OtherTab
    <2>1. minted < MaxSessions => minted + 1 \in Sessions /\ minted + 1 \in 0 .. MaxSessions
      BY DEF TypeOK, Sessions
    <2>2. minted < MaxSessions => Live(minted + 1) \in Ref
      BY <2>1, Made
    <2> QED BY <1>4, <2>1, <2>2, Made DEF OtherTab, TypeOK, provider, manager
  <1>5. CASE Reload
    <2>1. [p \in Procs |-> NoRefresh] \in [Procs -> Refresh]
      BY Empty
    <2> QED BY <1>5, <2>1, Empty DEF Reload, Reset, TypeOK, server
  <1> QED BY <1>1, <1>2, <1>3, <1>4, <1>5

LEMMA StepType == TypeOK /\ [Next]_vars => TypeOK'
  <1> SUFFICES ASSUME TypeOK, [Next]_vars PROVE TypeOK'
    OBVIOUS
  <1>1. CASE UNCHANGED vars
    BY <1>1 DEF vars, TypeOK
  <1>2. CASE Next
    BY <1>2, ServerType, EndsType, FailsType, FetchType, AnswerType, BootType, LoginType,
       LogoutType, WorldType DEF Next
  <1> QED BY <1>1, <1>2

\* The session of a tab is well typed, and no more than MaxRefreshAttempts are
\* counted.
THEOREM TypeCorrect == Spec => []TypeOK
  BY InitType, StepType, PTL DEF Spec
----------------------------------------------------------------------------
(* The refresh manager                                                     *)

\* A step that neither starts nor ends a refresh.
LEMMA ManagerSame ==
    ASSUME ManagerInv, UNCHANGED manager, crossed \subseteq crossed',
           \A q \in Procs : rf'[q].pc = rf[q].pc
    PROVE  ManagerInv'
  BY DEF ManagerInv, manager, Refreshing

\* A step that resets the manager and ends the refreshes of R.
LEMMA ManagerReset ==
    ASSUME Reset, NEW R, NEW C, Overtakes(R, C),
           \A q \in Procs : rf'[q].pc # "none" => q \in Refreshing \ R
    PROVE  ManagerInv'
  BY DEF ManagerInv, Reset, Overtakes, Refreshing

LEMMA ManagerAsks ==
    ASSUME TypeOK, ManagerInv, NEW p \in Procs, NEW pc,
           Join(p, pc) \/ StartRefresh(p, pc), UNCHANGED crossed
    PROVE  ManagerInv'
  <1>1. CASE Join(p, pc)
    BY <1>1, ManagerSame DEF Join
  <1>2. CASE StartRefresh(p, pc)
    <2>1. \A q \in Procs : q # p => rf'[q] = rf[q]
      BY <1>2 DEF StartRefresh, TypeOK
    <2>2. inFlight = None /\ inFlight' = p /\ p # None
      BY <1>2 DEF StartRefresh, Procs
    <2>3. "refresh" \notin crossed => Refreshing = {}
      BY <2>2 DEF ManagerInv, Refreshing, Procs
    <2> QED BY <2>1, <2>2, <2>3 DEF ManagerInv, Refreshing
  <1> QED BY <1>1, <1>2

LEMMA ManagerEnds ==
    ASSUME TypeOK, ManagerInv, NEW p \in Procs, RefreshEnds(p) \/ RefreshFails(p)
    PROVE  ManagerInv'
  <1>1. /\ rf' = [rf EXCEPT ![p] = NoRefresh]
        /\ rf[p].pc # "none" /\ p \in Refreshing
    BY DEF RefreshEnds, RefreshFails, Refused, Refreshing
  <1>2. \A q \in Procs : rf'[q].pc # "none" => q \in Refreshing \ {p}
    BY <1>1 DEF NoRefresh, TypeOK, Refreshing
  <1>3. CASE ClearSession({p}, Waiters(p))
    BY <1>2, <1>3, ManagerReset DEF ClearSession
  <1>4. CASE inFlight' = None /\ (attempts' = 0 \/ failed') /\ crossed' = crossed
    <2>1. "refresh" \notin crossed => Refreshing' = {}
      BY <1>1, <1>2 DEF ManagerInv, Refreshing
    <2> QED BY <1>4, <2>1 DEF ManagerInv
  <1> QED BY <1>3, <1>4 DEF RefreshEnds, RefreshFails

LEMMA StepManager == TypeOK /\ ManagerInv /\ [Next]_vars => ManagerInv'
  <1> SUFFICES ASSUME TypeOK, ManagerInv, [Next]_vars PROVE ManagerInv'
    OBVIOUS
  <1>1. ASSUME UNCHANGED <<manager, crossed, rf>> PROVE ManagerInv'
    BY <1>1, ManagerSame
  <1>2. ASSUME NEW p \in Procs, RefreshServer(p) PROVE ManagerInv'
    <2>1. \A q \in Procs : rf'[q].pc = rf[q].pc \/ q = p
      BY <1>2 DEF RefreshServer, Presenting, TypeOK
    <2>2. rf[p].pc = "sent" /\ rf'[p].pc = "granted" /\ UNCHANGED <<manager, crossed>>
      BY <1>2 DEF RefreshServer, TypeOK
    <2> QED BY <2>1, <2>2 DEF ManagerInv, manager, Refreshing
  <1>3. ASSUME NEW p \in Procs, Answer(p) \/ Retry(p) PROVE ManagerInv'
    <2>1. CASE Expels(p)
      BY <2>1, ManagerReset DEF Expels, ClearSession, Refreshing
    <2>2. CASE ~Expels(p)
      BY <1>1, <1>3, <2>2, ManagerAsks DEF Answer, Retry, Succeeds, Fails
    <2> QED BY <2>1, <2>2
  <1>4. CASE Bootstrap
    <2>1. Boot \in Procs
      BY DEF Procs
    <2> QED BY <1>1, <1>4, <2>1, ManagerAsks DEF Bootstrap
  <1>5. CASE LoginEnds
    BY <1>5, ManagerReset DEF LoginEnds, Refreshing
  <1>6. CASE LogoutEnds
    BY <1>6, ManagerReset DEF LogoutEnds, ClearSession, Refreshing
  <1>7. CASE LogoutServer \/ Expire
    <2>1. \A q \in Procs : rf'[q].pc = rf[q].pc
      BY <1>7 DEF LogoutServer, Expire, Presenting
    <2> QED BY <1>7, <2>1, ManagerSame DEF LogoutServer, Expire
  <1>8. CASE Reload
    BY <1>8 DEF Reload, Reset, ManagerInv, Refreshing, NoRefresh
  <1>9. CASE OtherTab
    BY <1>9, ManagerSame DEF OtherTab
  <1>10. CASE UNCHANGED vars
    BY <1>1, <1>10 DEF vars, manager
  <1>11. ASSUME NEW p \in Callers, NEW kind, Fetch(p, kind) PROVE ManagerInv'
    BY <1>1, <1>11 DEF Fetch
  <1>12. CASE LoginSend \/ LoginFails \/ LogoutSend \/ SyncPassport
                \/ \E s \in Sessions : Revoke(s)
    BY <1>1, <1>12 DEF LoginSend, LoginFails, LogoutSend, SyncPassport, Revoke
  <1> QED BY <1>2, <1>3, <1>4, <1>5, <1>6, <1>7, <1>8, <1>9, <1>10, <1>11, <1>12,
             ManagerEnds DEF Next

LEMMA ManagerAlways == Spec => []ManagerInv
  <1>1. Init => ManagerInv
    BY DEF Init, ManagerInv, Refreshing, NoRefresh
  <1> QED BY <1>1, InitType, StepType, StepManager, PTL DEF Spec

\* One refresh is on the wire at a time, unless a reset has forgotten one.
THEOREM RefreshesOnce == Spec => []OneRefreshAtATime
  <1>1. ManagerInv => OneRefreshAtATime
    <2> SUFFICES ASSUME ManagerInv, "refresh" \notin crossed
                 PROVE  Cardinality(Refreshing) <= 1
      BY DEF OneRefreshAtATime
    <2>1. Refreshing = {} \/ Refreshing = {inFlight}
      BY DEF ManagerInv
    <2> QED BY <2>1, FS_EmptySet, FS_Singleton
  <1> QED BY <1>1, ManagerAlways, PTL

\* No caller loses its session to the limit before a refresh has failed.
THEOREM LimitAfterFailure == Spec => []LimitMeansFailure
  <1>1. TypeOK /\ ManagerInv => LimitMeansFailure
    BY DEF TypeOK, ManagerInv, LimitMeansFailure, LimitReached
  <1> QED BY <1>1, TypeCorrect, ManagerAlways, PTL

----------------------------------------------------------------------------
(* Who signed out                                                          *)

\* A step after which nothing names a session it did not name before.
LEMMA QuitSame ==
    ASSUME TypeOK, QuitInv, UNCHANGED <<quit, minted>>, Named' \subseteq Named \cup {0},
           \A p \in Procs : call'[p].pc = "start" => call'[p].tok.sess = 0
    PROVE  QuitInv'
  <1>1. minted' = minted /\ quit' = quit /\ minted \in Nat /\ 0 \notin quit
    BY DEF TypeOK, Sessions
  <1>2. \A s \in Named' : s <= minted' /\ s \notin quit'
    BY <1>1 DEF QuitInv
  <1> QED BY <1>1, <1>2 DEF QuitInv

LEMMA NamedNat == TypeOK => Named \subseteq Nat
  <1> SUFFICES ASSUME TypeOK PROVE Named \subseteq Nat
    OBVIOUS
  <1>1. {cookie.sess, access.sess, user, form.ref.sess} \subseteq Nat
    BY DEF TypeOK, Ref, Token, Form
  <1>2. \A p \in Procs : rf[p].ref.sess \in Nat /\ call[p].tok.sess \in Nat
    BY DEF TypeOK, Refresh, Ref, CallRecord, Token
  <1> QED BY <1>1, <1>2 DEF Named, Refreshing, Busy

\* A login opens a session that nothing names yet.
LEMMA QuitLogin ==
    ASSUME TypeOK, QuitInv, UNCHANGED quit, minted' = minted + 1,
           Named' \subseteq Named \cup {0, minted + 1},
           \A p \in Procs : call'[p].pc = "start" => call'[p].tok.sess = 0
    PROVE  QuitInv'
  <1>1. /\ quit' = quit /\ minted \in Nat
        /\ \A s \in quit : s \in Nat \ {0} /\ s <= minted /\ s \notin Named
    BY DEF TypeOK, QuitInv, Sessions
  <1>2. \A s \in Named' : s <= minted'
    <2> SUFFICES ASSUME NEW s \in Named' PROVE s <= minted'
      OBVIOUS
    <2>1. CASE s \in Named
      <3>1. s \in Nat /\ s <= minted
        BY <2>1, NamedNat DEF QuitInv
      <3> QED BY <1>1, <3>1
    <2>2. CASE s \in {0, minted + 1}
      BY <1>1, <2>2
    <2> QED BY <2>1, <2>2
  <1>3. \A s \in quit : s <= minted' /\ s \notin Named'
    BY <1>1
  <1> QED BY <1>1, <1>2, <1>3 DEF QuitInv

\* What is named is named by one of these.
LEMMA NamedHas ==
    /\ cookie.sess \in Named /\ access.sess \in Named /\ user \in Named
    /\ form.ref.sess \in Named
    /\ \A p \in Procs : rf[p].pc # "none" => rf[p].ref.sess \in Named
    /\ \A p \in Procs : call[p].pc \notin {"idle", "start"} => call[p].tok.sess \in Named
  BY DEF Named, Refreshing, Busy

LEMMA NamedIn ==
    ASSUME NEW S, cookie'.sess \in S, access'.sess \in S, user' \in S, form'.ref.sess \in S,
           \A p \in Procs : rf'[p].pc # "none" => rf'[p].ref.sess \in S,
           \A p \in Procs : call'[p].pc \notin {"idle", "start"} => call'[p].tok.sess \in S
    PROVE  Named' \subseteq S
  BY DEF Named, Refreshing, Busy

\* A step that changes only tokens, to what was named.
LEMMA QuitMoves ==
    ASSUME TypeOK, QuitInv, UNCHANGED <<quit, minted>>,
           {cookie'.sess, access'.sess, user', form'.ref.sess} \subseteq Named \cup {0},
           \A p \in Procs : \/ rf'[p].pc = "none"
                            \/ rf'[p].ref.sess \in Named
                            \/ rf[p].pc # "none" /\ rf'[p].ref.sess = rf[p].ref.sess,
           \A p \in Procs : \/ call'[p].pc = "idle"
                            \/ call'[p].tok.sess = call[p].tok.sess /\ call'[p].pc = call[p].pc
                            \/ call'[p].tok.sess \in Named \cup {0} /\ call'[p].pc # "start"
    PROVE  QuitInv'
  <1>1. \A p \in Procs : rf'[p].pc # "none" => rf'[p].ref.sess \in Named
    BY NamedHas
  <1>2. \A p \in Procs : call'[p].pc \notin {"idle", "start"} =>
            call'[p].tok.sess \in Named \cup {0}
    BY NamedHas
  <1>3. Named' \subseteq Named \cup {0}
    BY <1>1, <1>2, NamedIn
  <1>4. \A p \in Procs : call'[p].pc = "start" => call'[p].tok.sess = 0
    BY DEF QuitInv
  <1> QED BY <1>3, <1>4, QuitSame

LEMMA QuitAsks ==
    ASSUME TypeOK, QuitInv, NEW p \in Procs, NEW pc \in {"waiting", "booting"},
           Join(p, pc) \/ StartRefresh(p, pc), call[p].pc # "idle",
           UNCHANGED <<server, cookie, access, provider, form, quit>>
    PROVE  QuitInv'
  <1>1. \A q \in Procs \ {p} : rf'[q] = rf[q] /\ call'[q] = call[q]
    BY DEF Join, StartRefresh, TypeOK
  <1>2. call'[p].pc = pc /\ call'[p].tok = call[p].tok
    BY DEF Join, StartRefresh, Going, TypeOK
  <1>3. rf'[p] = rf[p] \/ rf'[p].ref = cookie
    BY DEF Join, StartRefresh, Sent, TypeOK
  <1>4. call[p].tok.sess \in Named \cup {0}
    BY NamedHas DEF QuitInv
  <1>5. \A q \in Procs : \/ rf'[q].pc = "none"
                         \/ rf'[q].ref.sess \in Named
                         \/ rf[q].pc # "none" /\ rf'[q].ref.sess = rf[q].ref.sess
    BY <1>1, <1>3, NamedHas
  <1> QED BY <1>1, <1>2, <1>4, <1>5, NamedHas, QuitMoves DEF server, provider

LEMMA QuitServer ==
    ASSUME TypeOK, QuitInv, NEW p \in Procs, RefreshServer(p)
    PROVE  QuitInv'
  <1> DEFINE s == rf[p].ref.sess
  <1>1. \A ref \in Ref : Older(ref, s).sess = ref.sess
    BY DEF Older
  <1>2. cookie'.sess = cookie.sess /\ form'.ref.sess = form.ref.sess
    BY <1>1 DEF RefreshServer, TypeOK, Form
  <1>3. \A q \in Procs \ {p} : rf'[q].pc = rf[q].pc /\ rf'[q].ref.sess = rf[q].ref.sess
    BY <1>1 DEF RefreshServer, TypeOK, Refresh, Presenting
  <1>4. rf[p].pc # "none" /\ rf'[p].ref.sess = s
    BY DEF RefreshServer, TypeOK, Live
  <1> QED BY <1>2, <1>3, <1>4, NamedHas, QuitMoves DEF RefreshServer, server, provider

LEMMA QuitEnds ==
    ASSUME TypeOK, QuitInv, NEW p \in Procs, RefreshEnds(p)
    PROVE  QuitInv'
  <1>1. rf[p].ref.sess \in Named
    BY NamedHas DEF RefreshEnds
  <1>2. cookie'.sess \in Named /\ access'.sess \in Named
    BY <1>1 DEF RefreshEnds, Granted
  <1>3. \A q \in Procs : \/ call'[q] = call[q]
                         \/ call'[q].pc # "start" /\ call'[q].tok.sess = rf[p].ref.sess
    BY DEF RefreshEnds, Resumed, Granted
  <1>4. \A q \in Procs : rf'[q].pc = "none" \/ rf'[q] = rf[q]
    BY DEF RefreshEnds, TypeOK, NoRefresh
  <1>5. \A q \in Procs : \/ rf'[q].pc = "none"
                         \/ rf'[q].ref.sess \in Named
                         \/ rf[q].pc # "none" /\ rf'[q].ref.sess = rf[q].ref.sess
    BY <1>4
  <1>6. \A q \in Procs : \/ call'[q].pc = "idle"
                         \/ call'[q].tok.sess = call[q].tok.sess /\ call'[q].pc = call[q].pc
                         \/ call'[q].tok.sess \in Named \cup {0} /\ call'[q].pc # "start"
    BY <1>1, <1>3
  <1>7. {cookie'.sess, access'.sess, user', form'.ref.sess} \subseteq Named \cup {0}
    BY <1>2, NamedHas DEF RefreshEnds, provider
  <1> QED BY <1>5, <1>6, <1>7, QuitMoves DEF RefreshEnds, server

\* A step that ends calls and refreshes, and may show nobody any more.
LEMMA QuitFails ==
    ASSUME TypeOK, QuitInv, UNCHANGED <<minted, cookie, form, quit>>,
           access' \in {access, NoToken}, user' \in {user, 0},
           \A q \in Procs : rf'[q] \in {rf[q], NoRefresh} /\ call'[q] \in {call[q], NoCall}
    PROVE  QuitInv'
  <1>1. {cookie'.sess, access'.sess, user', form'.ref.sess} \subseteq Named \cup {0}
    BY NamedHas DEF NoToken
  <1> QED BY <1>1, QuitMoves DEF NoRefresh, NoCall

LEMMA QuitAnswers ==
    ASSUME TypeOK, QuitInv, NEW p \in Procs, Answer(p) \/ Retry(p)
    PROVE  QuitInv'
  <1>1. CASE Succeeds(p)
    <2>1. user' \in Named
      BY <1>1, NamedHas DEF Succeeds, Answer, Retry
    <2>2. \A q \in Procs : call'[q] \in {call[q], NoCall}
      BY <1>1 DEF Succeeds, TypeOK
    <2> QED BY <1>1, <2>1, <2>2, NamedHas, QuitMoves DEF Succeeds, server, NoCall
  <1>2. CASE Fails(p) \/ Expels(p)
    <2>1. \A q \in Procs : call'[q] \in {call[q], NoCall}
      BY <1>2 DEF Fails, Expels, TypeOK
    <2> QED BY <1>2, <2>1, QuitFails DEF Fails, Expels, server, ClearSession
  <1>3. CASE /\ Join(p, "waiting") \/ StartRefresh(p, "waiting")
             /\ UNCHANGED <<server, cookie, access, provider, form, cache, crossed, quit>>
             /\ call[p].pc = "sent"
    BY <1>3, QuitAsks
  <1> QED BY <1>1, <1>2, <1>3 DEF Answer, Retry

LEMMA QuitBoot == ASSUME TypeOK, QuitInv, Bootstrap PROVE QuitInv'
  <1>1. Boot \in Procs /\ call[Boot].pc = "start"
    BY DEF Procs, Bootstrap
  <1>2. CASE LimitReached /\ call' = [call EXCEPT ![Boot] = NoCall] /\ user' = 0
             /\ UNCHANGED <<server, cookie, access, manager, rf, form, cache, crossed, quit>>
    <2>1. \A q \in Procs : call'[q] \in {call[q], NoCall}
      BY <1>2 DEF TypeOK
    <2> QED BY <1>2, <2>1, QuitFails DEF server
  <1>3. CASE /\ Join(Boot, "booting") \/ StartRefresh(Boot, "booting")
             /\ UNCHANGED <<server, cookie, access, provider, form, cache, crossed, quit>>
    BY <1>1, <1>3, QuitAsks
  <1> QED BY <1>2, <1>3 DEF Bootstrap

LEMMA QuitLogins ==
    ASSUME TypeOK, QuitInv, LoginSend \/ LoginEnds \/ LoginFails
    PROVE  QuitInv'
  <1>1. CASE LoginEnds
    <2> DEFINE S == Named \cup {0, minted + 1}
    <2>1. cookie'.sess \in S /\ access'.sess \in S /\ user' \in S /\ form'.ref.sess \in S
      BY <1>1 DEF LoginEnds, Live, Fresh, NoForm, NoRef
    <2>2. UNCHANGED <<rf, call, quit>> /\ minted' = minted + 1
      BY <1>1 DEF LoginEnds
    <2>3. Named' \subseteq S
      BY <2>1, <2>2, NamedHas, NamedIn
    <2> QED BY <2>2, <2>3, QuitLogin DEF QuitInv
  <1>2. CASE LoginSend \/ LoginFails
    <2>1. form'.ref.sess = 0
      BY <1>2 DEF LoginSend, LoginFails, NoForm, NoRef
    <2> QED BY <1>2, <2>1, NamedHas, QuitMoves DEF LoginSend, LoginFails, server, provider
  <1> QED BY <1>1, <1>2

LEMMA QuitLogout ==
    ASSUME TypeOK, QuitInv, LogoutSend \/ LogoutServer \/ LogoutEnds
    PROVE  QuitInv'
  <1>1. CASE LogoutSend
    <2>1. form'.ref.sess \in Named
      BY <1>1, NamedHas DEF LogoutSend
    <2> QED BY <1>1, <2>1, NamedHas, QuitMoves DEF LogoutSend, server, provider
  <1>2. CASE LogoutServer
    <2> DEFINE s == form.ref.sess
               forget(ref) == IF ref.age = 1 THEN Older(ref, s) ELSE ref
    <2>1. \A ref \in Ref : forget(ref).sess = ref.sess
      BY DEF Older
    <2> HIDE DEF forget
    <2>2. cookie'.sess = cookie.sess /\ form'.ref.sess = form.ref.sess
      BY <1>2, <2>1 DEF LogoutServer, forget, TypeOK, Form
    <2>3. \A q \in Procs : rf'[q].pc = rf[q].pc /\ rf'[q].ref.sess = rf[q].ref.sess
      BY <1>2, <2>1 DEF LogoutServer, forget, TypeOK, Refresh, Presenting
    <2> QED BY <1>2, <2>2, <2>3, NamedHas, QuitMoves DEF LogoutServer, provider
  <1>3. CASE LogoutEnds /\ quit' = quit
    <2>1. {cookie'.sess, access'.sess, user', form'.ref.sess} \subseteq Named \cup {0}
      BY <1>3, NamedHas DEF LogoutEnds, ClearSession, NoToken, NoForm, NoRef
    <2> QED BY <1>3, <2>1, QuitMoves DEF LogoutEnds, server
  <1>4. CASE LogoutEnds /\ quit' # quit
    <2>1. /\ Refreshing = {} /\ Busy = {} /\ quit' = (quit \cup {form.ref.sess}) \ {0}
          /\ cookie' = NoRef /\ form' = NoForm /\ UNCHANGED <<server, rf, call>>
          /\ access' = NoToken /\ user' = 0
      BY <1>4 DEF LogoutEnds, ClearSession
    <2>2. Named' \subseteq {0}
      BY <2>1, NamedIn DEF NoRef, NoForm, NoToken, Refreshing, Busy
    <2>3. form.ref.sess <= minted /\ minted \in Nat
      <3>1. minted \in Nat
        BY DEF TypeOK
      <3>2. form.ref.sess \in Named
        BY NamedHas
      <3> QED BY <3>1, <3>2 DEF QuitInv
    <2>4. \A t \in Named' : t <= minted'
      BY <2>1, <2>2, <2>3 DEF server
    <2>5. \A t \in quit' : t <= minted' /\ t \notin Named'
      BY <2>1, <2>2, <2>3 DEF server, QuitInv, TypeOK, Sessions
    <2> QED BY <2>1, <2>4, <2>5 DEF QuitInv
  <1> QED BY <1>1, <1>2, <1>3, <1>4

LEMMA QuitWorld ==
    ASSUME TypeOK, QuitInv,
           SyncPassport \/ Expire \/ (\E s \in Sessions : Revoke(s)) \/ OtherTab \/ Reload
    PROVE  QuitInv'
  <1>1. CASE SyncPassport \/ \E s \in Sessions : Revoke(s)
    BY <1>1, NamedHas, QuitMoves DEF SyncPassport, Revoke, server, provider
  <1>2. CASE Expire
    <2>1. access'.sess = access.sess
      BY <1>2 DEF Expire, Stale
    <2>2. \A q \in Procs : rf'[q].pc = rf[q].pc /\ rf'[q].ref = rf[q].ref
      BY <1>2 DEF Expire
    <2>3. \A q \in Procs : call'[q].pc = call[q].pc /\ call'[q].tok.sess = call[q].tok.sess
      BY <1>2 DEF Expire, Stale
    <2> QED BY <1>2, <2>1, <2>2, <2>3, NamedHas, QuitMoves DEF Expire, server, provider
  <1>3. CASE OtherTab
    <2>1. CASE minted' = minted + 1 /\ cookie' = Live(minted + 1)
      <3> DEFINE S == Named \cup {0, minted + 1}
      <3>1. cookie'.sess \in S /\ access'.sess \in S /\ user' \in S /\ form'.ref.sess \in S
        BY <1>3, <2>1, NamedHas DEF OtherTab, Live, provider
      <3>2. UNCHANGED <<rf, call, quit>>
        BY <1>3 DEF OtherTab
      <3>3. Named' \subseteq S
        BY <3>1, <3>2, NamedHas, NamedIn
      <3> QED BY <2>1, <3>2, <3>3, QuitLogin DEF QuitInv
    <2>2. CASE minted' = minted /\ cookie' = NoRef
      <3>1. {cookie'.sess, access'.sess, user', form'.ref.sess} \subseteq Named \cup {0}
        BY <1>3, <2>2, NamedHas DEF OtherTab, NoRef, provider
      <3> QED BY <1>3, <2>2, <3>1, QuitMoves DEF OtherTab
    <2> QED BY <1>3, <2>1, <2>2 DEF OtherTab
  <1>4. CASE Reload
    <2>1. \A q \in Procs : rf'[q].pc = "none" /\ call'[q].tok.sess = 0
                           /\ call'[q].pc \in {"idle", "start"}
      BY <1>4 DEF Reload, NoRefresh, Loaded, NoCall, NoToken
    <2> DEFINE S == Named \cup {0}
    <2>2. cookie'.sess \in S /\ access'.sess \in S /\ user' \in S /\ form'.ref.sess \in S
      BY <1>4, NamedHas DEF Reload, NoToken, NoForm, NoRef
    <2>3. Named' \subseteq S
      BY <2>1, <2>2, NamedIn
    <2> QED BY <1>4, <2>1, <2>3, QuitSame DEF Reload, server
  <1> QED BY <1>1, <1>2, <1>3, <1>4

LEMMA StepQuit == TypeOK /\ QuitInv /\ [Next]_vars => QuitInv'
  <1> SUFFICES ASSUME TypeOK, QuitInv, [Next]_vars PROVE QuitInv'
    OBVIOUS
  <1>1. CASE UNCHANGED vars
    BY <1>1, NamedHas, QuitMoves DEF vars
  <1>2. ASSUME NEW p \in Procs, RefreshFails(p) PROVE QuitInv'
    <2>1. access' \in {access, NoToken} /\ user' \in {user, 0}
      BY <1>2 DEF RefreshFails, ClearSession
    <2>2. \A q \in Procs : rf'[q] \in {rf[q], NoRefresh} /\ call'[q] \in {call[q], NoCall}
      BY <1>2 DEF RefreshFails, TypeOK
    <2> QED BY <1>2, <2>1, <2>2, QuitFails DEF RefreshFails
  <1>3. ASSUME NEW p \in Callers, NEW kind, Fetch(p, kind) PROVE QuitInv'
    <2>1. p \in Procs
      BY DEF Procs
    <2>2. \A q \in Procs : \/ call'[q] = call[q]
                           \/ call'[q].pc = "sent" /\ call'[q].tok = access
      BY <1>3, <2>1 DEF Fetch, TypeOK
    <2> QED BY <1>3, <2>2, NamedHas, QuitMoves DEF Fetch, server, provider
  <1> QED BY <1>1, <1>2, <1>3, QuitServer, QuitEnds, QuitAnswers, QuitBoot, QuitLogins,
             QuitLogout, QuitWorld DEF Next

LEMMA QuitAlways == Spec => []QuitInv
  <1>1. Init => QuitInv
    <2> SUFFICES ASSUME Init PROVE QuitInv
      OBVIOUS
    <2>1. Named \subseteq {0}
      BY DEF Init, Named, Refreshing, Busy, NoRef, NoToken, NoForm, NoRefresh, Loaded, NoCall
    <2> QED BY <2>1 DEF Init, QuitInv, Loaded, NoCall, NoToken
  <1> QED BY <1>1, InitType, StepType, StepQuit, PTL DEF Spec

\* Nobody who signed out with nothing else under way is shown again.
THEOREM NoReturn == Spec => []SignedOutForGood
  <1>1. QuitInv => SignedOutForGood
    BY NamedHas DEF QuitInv, SignedOutForGood
  <1> QED BY <1>1, QuitAlways, PTL

----------------------------------------------------------------------------
(* One session, as long as nothing was overtaken                           *)

\* A step that shows nobody new while the page loads, and makes no call.
LEMMA LoadSame ==
    ASSUME TypeOK, LoadInv, loading' => loading, loading' => user' = 0,
           loading' = loading \/ call'[Boot].pc = "idle",
           form'.op \in {form.op, "none", "logout"},
           \A q \in Procs : \/ call'[q].pc = "idle"
                            \/ call[q].pc # "idle" /\ call'[q].kind = call[q].kind
    PROVE  LoadInv'
  BY DEF LoadInv, Procs

LEMMA LoadAsks ==
    ASSUME TypeOK, LoadInv, NEW p \in Procs, NEW pc, call[p].pc # "idle",
           Join(p, pc) \/ StartRefresh(p, pc), UNCHANGED <<provider, form>>
    PROVE  LoadInv'
  <1>1. \A q \in Procs : call'[q].kind = call[q].kind /\ (q = p \/ call'[q] = call[q])
    BY DEF Join, StartRefresh, Going, TypeOK
  <1> QED BY <1>1, LoadSame DEF provider, LoadInv

LEMMA StepLoad == TypeOK /\ LoadInv /\ [Next]_vars => LoadInv'
  <1> SUFFICES ASSUME TypeOK, LoadInv, [Next]_vars PROVE LoadInv'
    OBVIOUS
  <1>1. CASE UNCHANGED vars
    BY <1>1 DEF vars, LoadInv
  <1>2. ASSUME UNCHANGED <<provider, form, call>> PROVE LoadInv'
    BY <1>2 DEF LoadInv, provider
  <1>3. ASSUME NEW p \in Procs, RefreshServer(p) PROVE LoadInv'
    <2>1. form'.op = form.op
      BY <1>3 DEF RefreshServer, TypeOK, Form
    <2> QED BY <1>3, <2>1, LoadSame DEF RefreshServer, provider, LoadInv
  <1>4. ASSUME NEW p \in Procs, RefreshEnds(p) PROVE LoadInv'
    <2>1. \A q \in Procs : call'[q] = call[q] \/ (call[q].pc # "idle" /\ call'[q].kind = call[q].kind)
      BY <1>4 DEF RefreshEnds, Resumed, Waiters
    <2> QED BY <1>4, <2>1, LoadSame DEF RefreshEnds, provider, LoadInv
  <1>5. ASSUME NEW p \in Procs, RefreshFails(p) PROVE LoadInv'
    <2>1. \A q \in Procs : call'[q] = NoCall \/ (call'[q] = call[q] /\ q \notin Waiters(p))
      BY <1>5 DEF RefreshFails
    <2>2. user' \in {0, user} /\ loading' = (loading /\ Boot \notin Waiters(p)) /\ form' = form
      BY <1>5 DEF RefreshFails, ClearSession
    <2>3. Boot \in Waiters(p) => call'[Boot].pc = "idle"
      BY <2>1 DEF NoCall, Waiters
    <2>4. loading' = loading \/ call'[Boot].pc = "idle"
      BY <2>2, <2>3 DEF TypeOK
    <2>5. \A q \in Procs : \/ call'[q].pc = "idle"
                           \/ call[q].pc # "idle" /\ call'[q].kind = call[q].kind
      BY <2>1 DEF NoCall
    <2>6. (loading' => loading /\ user' = 0) /\ form'.op = form.op
      BY <2>2 DEF LoadInv
    <2> QED BY <2>4, <2>5, <2>6, LoadSame
  <1>6. ASSUME NEW p \in Callers, NEW kind \in {"api", "me", "passport"}, Fetch(p, kind)
        PROVE  LoadInv'
    <2>1. p \in Procs /\ p # Boot /\ Boot \in Procs
      BY DEF Procs
    <2>2. call'[p].kind = kind /\ \A q \in Procs : q # p => call'[q] = call[q]
      BY <1>6, <2>1 DEF Fetch, TypeOK
    <2>3. loading => kind = "api"
      BY <1>6 DEF Fetch, LoadInv
    <2> QED BY <1>6, <2>1, <2>2, <2>3 DEF Fetch, provider, LoadInv, Procs
  <1>7. ASSUME NEW p \in Procs, Answer(p) \/ Retry(p) PROVE LoadInv'
    <2>1. CASE Succeeds(p) \/ Fails(p) \/ Expels(p)
      <3>1. call' = [call EXCEPT ![p] = NoCall] /\ loading' = (loading /\ p # Boot) /\ form' = form
        BY <2>1 DEF Succeeds, Fails, Expels
      <3>2. \A q \in Procs : IF q = p THEN call'[q].pc = "idle" ELSE call'[q] = call[q]
        BY <3>1 DEF TypeOK, NoCall
      <3>3. loading' => user' = 0
        <4>1. CASE Succeeds(p)
          <5>1. call[p].pc # "idle"
            BY <1>7, <4>1 DEF Answer, Retry
          <5>2. loading /\ p # Boot => call[p].kind = "api" /\ user = 0
            BY <5>1 DEF LoadInv, Procs
          <5> QED BY <3>1, <4>1, <5>2 DEF Succeeds
        <4>2. CASE Fails(p) \/ Expels(p)
          BY <3>1, <4>2 DEF Fails, Expels, ClearSession, LoadInv
        <4> QED BY <2>1, <4>1, <4>2
      <3>4. loading' = loading \/ call'[Boot].pc = "idle"
        BY <3>1, <3>2 DEF TypeOK
      <3>5. \A q \in Procs : \/ call'[q].pc = "idle"
                             \/ call[q].pc # "idle" /\ call'[q].kind = call[q].kind
        BY <3>2
      <3> QED BY <3>1, <3>3, <3>4, <3>5, LoadSame
    <2>2. CASE /\ Join(p, "waiting") \/ StartRefresh(p, "waiting")
               /\ UNCHANGED <<provider, form>> /\ call[p].pc = "sent"
      BY <2>2, LoadAsks
    <2> QED BY <1>7, <2>1, <2>2 DEF Answer, Retry
  <1>8. CASE Bootstrap
    <2>1. Boot \in Procs /\ call[Boot].pc = "start"
      BY <1>8 DEF Procs, Bootstrap
    <2>2. CASE call' = [call EXCEPT ![Boot] = NoCall] /\ user' = 0 /\ loading' = FALSE /\ form' = form
      BY <2>1, <2>2 DEF LoadInv, TypeOK, NoCall
    <2>3. CASE /\ Join(Boot, "booting") \/ StartRefresh(Boot, "booting")
               /\ UNCHANGED <<provider, form>>
      BY <2>1, <2>3, LoadAsks
    <2> QED BY <1>8, <2>2, <2>3 DEF Bootstrap
  <1>9. CASE LoginSend
    BY <1>9 DEF LoginSend, LoadInv, provider
  <1>10. CASE LoginEnds
    BY <1>10 DEF LoginEnds, LoadInv
  <1>11. CASE LoginFails \/ LogoutSend \/ LogoutServer \/ LogoutEnds
    <2>1. form'.op \in {"none", "logout"}
      BY <1>11 DEF LoginFails, LogoutSend, LogoutServer, LogoutEnds, NoForm, TypeOK, Form
    <2>2. call' = call /\ loading' = loading /\ user' \in {user, 0}
      BY <1>11 DEF LoginFails, LogoutSend, LogoutServer, LogoutEnds, ClearSession, provider
    <2> QED BY <2>1, <2>2, LoadSame DEF LoadInv
  <1>12. CASE Expire
    <2>1. \A q \in Procs : call'[q].pc = call[q].pc /\ call'[q].kind = call[q].kind
      BY <1>12 DEF Expire
    <2> QED BY <1>12, <2>1, LoadSame DEF Expire, provider, LoadInv
  <1>13. CASE SyncPassport \/ (\E s \in Sessions : Revoke(s)) \/ OtherTab
    BY <1>2, <1>13 DEF SyncPassport, Revoke, OtherTab
  <1>14. CASE Reload
    BY <1>14 DEF Reload, LoadInv, Loaded, NoCall, NoForm, Procs
  <1> QED BY <1>1, <1>3, <1>4, <1>5, <1>6, <1>7, <1>8, <1>9, <1>10, <1>11, <1>12, <1>13,
             <1>14 DEF Next

\* A step that leaves who is who alone.
LEMMA CalmSame ==
    ASSUME TypeOK, OneSession, cookie'.sess = cookie.sess, access'.sess = access.sess,
           user' = user, cache'.of = cache.of, cache'.owner = cache.owner,
           \A q \in Procs : rf'[q].pc # "none" =>
                /\ rf'[q].ref.sess = cookie.sess
                /\ rf'[q].pc = "granted" => rf'[q].ref.sess # 0,
           \A q \in Procs : \/ call'[q].pc = "idle"
                            \/ call'[q].kind # "passport" /\ call'[q].pc \notin {"sent", "retry"}
                            \/ /\ call'[q].kind = call[q].kind
                               /\ call'[q].tok.sess = call[q].tok.sess
                               /\ call[q].pc \in {"sent", "retry"} \/ call'[q].pc = call[q].pc
    PROVE  OneSession'
  BY DEF OneSession, Refreshing, Asking, Busy

\* A step that clears the session and ends the refreshes of R and the calls of C.
LEMMA CalmCleared ==
    ASSUME TypeOK, OneSession, NEW R, NEW C, ClearSession(R, C), crossed' = {},
           \A q \in Procs : rf'[q].pc # "none" => q \in Refreshing \ R,
           \A q \in Procs : call'[q].pc = "idle" \/ (call'[q] = call[q] /\ q \notin C)
    PROVE  OneSession'
  <1>1. \A q \in Procs : rf'[q].pc = "none"
    BY DEF ClearSession, Overtakes
  <1>2. \A q \in Procs : call'[q].kind = "api" \/ call'[q].pc \in {"idle", "start"}
    BY DEF ClearSession, Overtakes, Busy
  <1>3. cache'.owner # 0 => cache'.owner = cache'.of
    <2>1. SyncUser(0) \in Cache /\ (SyncUser(0).owner # 0 => SyncUser(0).owner = SyncUser(0).of)
      BY Empty DEF SyncUser, Unknown, OneSession, TypeOK
    <2>2. \A c \in Cache : Settle(c, C).owner = c.owner /\ Settle(c, C).of = c.of
      BY DEF Settle, Cache
    <2> QED BY <2>1, <2>2 DEF ClearSession
  <1>4. access'.sess = 0 /\ user' = 0
    BY DEF ClearSession, NoToken
  <1> QED BY <1>1, <1>2, <1>3, <1>4 DEF OneSession, Refreshing, Asking, Busy

LEMMA CalmAsks ==
    ASSUME TypeOK, OneSession, NEW p \in Procs, NEW pc \in {"waiting", "booting"},
           call[p].pc = "sent" \/ call[p].kind = "me",
           Join(p, pc) \/ StartRefresh(p, pc),
           UNCHANGED <<cookie, access, provider, cache>>
    PROVE  OneSession'
  <1>1. /\ call'[p].pc = pc /\ call'[p].kind = call[p].kind /\ call'[p].tok = call[p].tok
        /\ \A q \in Procs \ {p} : rf'[q] = rf[q] /\ call'[q] = call[q]
    BY DEF Join, StartRefresh, Going, TypeOK
  <1>2. rf'[p] = rf[p] \/ (rf'[p].pc = "sent" /\ rf'[p].ref = cookie)
    BY DEF Join, StartRefresh, Sent, TypeOK
  <1>3. \A q \in Procs : rf'[q].pc # "none" =>
            rf'[q].ref.sess = cookie.sess /\ (rf'[q].pc = "granted" => rf'[q].ref.sess # 0)
    BY <1>1, <1>2 DEF OneSession, Refreshing
  <1> QED BY <1>1, <1>3, CalmSame DEF provider

LEMMA CalmRefresh ==
    ASSUME TypeOK, OneSession, NEW p \in Procs, RefreshServer(p) \/ RefreshEnds(p)
    PROVE  OneSession'
  <1>1. CASE RefreshServer(p)
    <2> DEFINE s == rf[p].ref.sess
    <2>1. \A ref \in Ref : Older(ref, s).sess = ref.sess
      BY DEF Older
    <2>2. cookie'.sess = cookie.sess /\ s # 0 /\ s = cookie.sess
      BY <1>1, <2>1 DEF RefreshServer, TypeOK, Sessions, OneSession, Refreshing
    <2>3. \A q \in Procs \ {p} : rf'[q].pc = rf[q].pc /\ rf'[q].ref.sess = rf[q].ref.sess
      BY <1>1, <2>1 DEF RefreshServer, TypeOK, Refresh, Presenting
    <2>4. rf'[p].ref.sess = s
      BY <1>1 DEF RefreshServer, TypeOK, Live
    <2>5. \A q \in Procs : rf'[q].pc # "none" =>
            rf'[q].ref.sess = cookie.sess /\ (rf'[q].pc = "granted" => rf'[q].ref.sess # 0)
      BY <2>2, <2>3, <2>4 DEF OneSession, Refreshing
    <2> QED BY <1>1, <2>2, <2>5, CalmSame DEF RefreshServer, provider
  <1>2. CASE RefreshEnds(p)
    <2> DEFINE s == cookie.sess
    <2>1. cookie'.sess = s /\ access'.sess = s /\ s # 0 /\ user' = user /\ cache' = cache
      BY <1>2 DEF RefreshEnds, Granted, provider, OneSession, Refreshing
    <2>2. \A q \in Procs : rf'[q].pc # "none" => rf'[q] = rf[q]
      BY <1>2 DEF RefreshEnds, NoRefresh, TypeOK
    <2>3. \A q \in Procs : \/ call'[q] = call[q]
                           \/ /\ call'[q].kind = call[q].kind /\ call'[q].tok.sess = s
                              /\ call[q].pc \in {"waiting", "booting"}
      BY <1>2 DEF RefreshEnds, Resumed, Granted, Waiters, OneSession, Refreshing
    <2>4. \A q \in Procs : rf'[q].pc # "none" =>
            rf'[q].ref.sess = s /\ (rf'[q].pc = "granted" => rf'[q].ref.sess # 0)
      BY <2>2 DEF OneSession, Refreshing
    <2>5. \A q \in Asking' : call'[q].kind # "api" => call'[q].tok.sess = s
      BY <2>3 DEF OneSession, Asking
    <2>6. \A q \in Busy' : call'[q].kind = "passport" => user # 0 /\ cache.of = user
      BY <2>3 DEF OneSession, Busy
    <2>7. user # 0 => user = s
      BY DEF OneSession
    <2> HIDE DEF s
    <2> QED BY <2>1, <2>4, <2>5, <2>6, <2>7 DEF OneSession, Refreshing
  <1> QED BY <1>1, <1>2

LEMMA CalmFails ==
    ASSUME TypeOK, LoadInv, OneSession, NEW p \in Procs, RefreshFails(p), crossed' = {}
    PROVE  OneSession'
  <1>1. \A q \in Procs : call'[q].pc = "idle" \/ (call'[q] = call[q] /\ q \notin Waiters(p))
    BY DEF RefreshFails, NoCall
  <1>2. \A q \in Procs : rf'[q].pc # "none" => q # p /\ rf'[q] = rf[q]
    BY DEF RefreshFails, NoRefresh, TypeOK
  <1>3. CASE ClearSession({p}, Waiters(p))
    BY <1>1, <1>2, <1>3, CalmCleared DEF Refreshing
  <1>4. CASE ~ClearSession({p}, Waiters(p))
    <2>1. Boot \in Waiters(p) => user = 0
      BY DEF Waiters, LoadInv
    <2>2. user' = user /\ UNCHANGED <<cookie, access, cache>>
      BY <1>4, <2>1 DEF RefreshFails
    <2>3. \A q \in Procs : rf'[q].pc # "none" =>
            rf'[q].ref.sess = cookie.sess /\ (rf'[q].pc = "granted" => rf'[q].ref.sess # 0)
      BY <1>2 DEF OneSession, Refreshing
    <2> QED BY <1>1, <2>2, <2>3, CalmSame
  <1> QED BY <1>3, <1>4

LEMMA CalmFetch ==
    ASSUME TypeOK, OneSession, NEW p \in Callers, NEW kind \in {"api", "me", "passport"},
           Fetch(p, kind)
    PROVE  OneSession'
  <1>1. p \in Procs
    BY DEF Procs
  <1>2. /\ call'[p].kind = kind /\ call'[p].tok = access
        /\ \A q \in Procs : q # p => call'[q] = call[q]
    BY <1>1 DEF Fetch, TypeOK
  <1>3. kind # "api" => user # 0 /\ access.sess = user
    BY DEF Fetch, OneSession
  <1>4. UNCHANGED <<cookie, access, user, rf>>
    BY DEF Fetch, provider
  <1>5. /\ kind = "passport" => cache'.of = user
        /\ cache.of = user => cache'.of = user
        /\ cache'.owner # 0 => cache'.owner = cache'.of
    <2>1. [cache EXCEPT !.flight = TRUE].of = cache.of
          /\ [cache EXCEPT !.flight = TRUE].owner = cache.owner
      BY DEF TypeOK, Cache
    <2> QED BY <2>1 DEF Fetch, SyncUser, Unknown, OneSession
  <1>6. \A q \in Asking' : call'[q].kind # "api" => call'[q].tok.sess = access.sess /\ access.sess # 0
    BY <1>2, <1>3 DEF Asking, OneSession
  <1>7. \A q \in Busy' : call'[q].kind = "passport" => user # 0 /\ cache'.of = user
    BY <1>2, <1>3, <1>5 DEF Busy, OneSession
  <1> QED BY <1>4, <1>5, <1>6, <1>7 DEF OneSession, Refreshing

LEMMA CalmAnswers ==
    ASSUME TypeOK, LoadInv, OneSession, NEW p \in Procs, Answer(p) \/ Retry(p), crossed' = {}
    PROVE  OneSession'
  <1>1. call[p].pc \in {"sent", "retry"}
    BY DEF Answer, Retry
  <1>2. ASSUME call' = [call EXCEPT ![p] = NoCall]
        PROVE  \A q \in Procs : call'[q].pc = "idle" \/ (call'[q] = call[q] /\ q # p)
    BY <1>2 DEF TypeOK, NoCall
  <1>3. \A c \in Cache : \A C : Settle(c, C).owner = c.owner /\ Settle(c, C).of = c.of
    BY DEF Settle, Cache
  <1>4. CASE Succeeds(p)
    <2> DEFINE who == call[p].tok.sess
    <2>1. call[p].kind # "api" => who = access.sess /\ access.sess # 0
      BY <1>1 DEF OneSession, Asking
    <2>2. call[p].kind = "passport" => cache.of = who
      BY <1>1, <2>1 DEF OneSession, Busy
    <2>3. who \in 0 .. MaxSessions
      BY DEF TypeOK, CallRecord, Token
    <2> DEFINE c == IF call[p].kind = "passport" THEN [cache EXCEPT !.owner = who] ELSE cache
    <2>4. c \in Cache /\ c.of = cache.of /\ (c.owner = cache.owner \/ c.owner = cache.of)
      BY <2>2, <2>3 DEF TypeOK, Cache
    <2>5. cache' = Settle(c, {p})
      BY <1>4 DEF Succeeds
    <2> HIDE DEF c
    <2>6. cache'.of = cache.of /\ (cache'.owner = cache.owner \/ cache'.owner = cache.of)
      BY <1>3, <2>4, <2>5
    <2>7. user' = user \/ (user' = access.sess /\ access.sess # 0)
      BY <1>4, <2>1 DEF Succeeds
    <2>8. user # 0 => user' = user
      BY <2>7 DEF OneSession
    <2>9. UNCHANGED <<cookie, access, rf>>
      BY <1>4 DEF Succeeds
    <2>10. \A q \in Procs : call'[q].pc = "idle" \/ call'[q] = call[q]
      BY <1>2, <1>4 DEF Succeeds
    <2>11. \A q \in Busy' : call'[q].kind = "passport" => user # 0 /\ cache.of = user
      BY <2>10 DEF OneSession, Busy
    <2>12. \A q \in Asking' : call'[q].kind # "api" =>
                call'[q].tok.sess = access.sess /\ access.sess # 0
      BY <2>10 DEF OneSession, Asking
    <2> QED BY <2>6, <2>7, <2>8, <2>9, <2>11, <2>12 DEF OneSession, Refreshing
  <1>5. CASE Fails(p)
    <2>1. p = Boot => user = 0
      BY <1>1 DEF LoadInv
    <2>2. user' = user /\ UNCHANGED <<cookie, access, rf>>
      BY <1>5, <2>1 DEF Fails
    <2>3. cache'.of = cache.of /\ cache'.owner = cache.owner
      BY <1>3, <1>5 DEF Fails, TypeOK
    <2>4. \A q \in Procs : call'[q].pc = "idle" \/ (call'[q] = call[q] /\ q # p)
      BY <1>2, <1>5 DEF Fails
    <2> QED BY <2>2, <2>3, <2>4, CalmSame DEF OneSession, Refreshing
  <1>6. CASE Expels(p)
    <2>1. \A q \in Procs : call'[q].pc = "idle" \/ (call'[q] = call[q] /\ q # p)
      BY <1>2, <1>6 DEF Expels
    <2> QED BY <1>6, <2>1, CalmCleared DEF Expels, Refreshing
  <1>7. CASE /\ Join(p, "waiting") \/ StartRefresh(p, "waiting")
             /\ UNCHANGED <<cookie, access, provider, cache>> /\ call[p].pc = "sent"
    BY <1>7, CalmAsks
  <1> QED BY <1>4, <1>5, <1>6, <1>7 DEF Answer, Retry

LEMMA CalmBoot ==
    ASSUME TypeOK, LoadInv, OneSession, Bootstrap
    PROVE  OneSession'
  <1>1. Boot \in Procs /\ call[Boot].pc = "start" /\ call[Boot].kind = "me" /\ user = 0
    BY DEF Procs, Bootstrap, LoadInv
  <1>2. CASE call' = [call EXCEPT ![Boot] = NoCall] /\ user' = 0
             /\ UNCHANGED <<cookie, access, rf, cache>>
    <2>1. \A q \in Procs : call'[q].pc = "idle" \/ call'[q] = call[q]
      BY <1>2 DEF TypeOK, NoCall
    <2> QED BY <1>1, <1>2, <2>1, CalmSame DEF OneSession, Refreshing
  <1>3. CASE /\ Join(Boot, "booting") \/ StartRefresh(Boot, "booting")
             /\ UNCHANGED <<cookie, access, provider, cache>>
    BY <1>1, <1>3, CalmAsks
  <1> QED BY <1>2, <1>3 DEF Bootstrap

LEMMA CalmForms ==
    ASSUME TypeOK, OneSession, crossed' = {},
           LoginSend \/ LoginEnds \/ LoginFails \/ LogoutSend \/ LogoutServer \/ LogoutEnds
    PROVE  OneSession'
  <1>1. CASE LoginSend \/ LoginFails \/ LogoutSend
    BY <1>1, CalmSame DEF LoginSend, LoginFails, LogoutSend, provider, OneSession, Refreshing
  <1>2. CASE LoginEnds
    <2>1. /\ cookie'.sess = minted + 1 /\ access'.sess = minted + 1 /\ user' = minted + 1
          /\ minted + 1 # 0 /\ UNCHANGED <<rf, call, cache>>
      BY <1>2 DEF LoginEnds, Live, Fresh, TypeOK
    <2>2. Refreshing = {} /\ \A q \in Busy : call[q].kind = "api"
      BY <1>2 DEF LoginEnds, Overtakes
    <2>3. Refreshing' = {} /\ Busy' = Busy
      BY <2>1, <2>2 DEF Refreshing, Busy
    <2>4. \A q \in Asking' : call'[q].kind = "api"
      BY <2>1, <2>2 DEF Busy, Asking
    <2> QED BY <2>1, <2>2, <2>3, <2>4 DEF OneSession
  <1>3. CASE LogoutServer
    <2> DEFINE s == form.ref.sess
               forget(ref) == IF ref.age = 1 THEN Older(ref, s) ELSE ref
    <2>1. \A ref \in Ref : forget(ref).sess = ref.sess
      BY DEF Older
    <2> HIDE DEF forget
    <2>2. cookie'.sess = cookie.sess
      BY <1>3, <2>1 DEF LogoutServer, forget, TypeOK
    <2>3. \A q \in Procs : rf'[q].pc = rf[q].pc /\ rf'[q].ref.sess = rf[q].ref.sess
      BY <1>3, <2>1 DEF LogoutServer, forget, TypeOK, Refresh, Presenting
    <2> QED BY <1>3, <2>2, <2>3, CalmSame DEF LogoutServer, provider, OneSession, Refreshing
  <1>4. CASE LogoutEnds
    BY <1>4, CalmCleared DEF LogoutEnds, Refreshing
  <1> QED BY <1>1, <1>2, <1>3, <1>4

LEMMA CalmWorld ==
    ASSUME TypeOK, OneSession, SyncPassport \/ Expire \/ \E s \in Sessions : Revoke(s)
    PROVE  OneSession'
  <1>1. CASE SyncPassport
    <2>1. /\ \A q \in Busy : call[q].kind # "passport"
          /\ cache'.owner # 0 => cache'.owner = cache'.of
          /\ UNCHANGED <<cookie, access, user, rf, call>>
      BY <1>1 DEF SyncPassport, SyncUser, Unknown, OneSession, provider
    <2> QED BY <2>1 DEF OneSession, Refreshing, Asking, Busy
  <1>2. CASE Expire
    <2>1. access'.sess = access.sess
      BY <1>2 DEF Expire, Stale
    <2>2. \A q \in Procs : rf'[q].pc = rf[q].pc /\ rf'[q].ref = rf[q].ref
      BY <1>2 DEF Expire
    <2>3. \A q \in Procs : /\ call'[q].pc = call[q].pc /\ call'[q].kind = call[q].kind
                           /\ call'[q].tok.sess = call[q].tok.sess
      BY <1>2 DEF Expire, Stale
    <2> QED BY <1>2, <2>1, <2>2, <2>3, CalmSame DEF Expire, provider, OneSession, Refreshing
  <1>3. CASE \E s \in Sessions : Revoke(s)
    BY <1>3, CalmSame DEF Revoke, provider, OneSession, Refreshing
  <1> QED BY <1>1, <1>2, <1>3

LEMMA StepCalm == TypeOK /\ CalmInv /\ [Next]_vars => CalmInv'
  <1> SUFFICES ASSUME TypeOK, CalmInv, [Next]_vars PROVE CalmInv'
    OBVIOUS
  <1>1. LoadInv'
    BY StepLoad DEF CalmInv
  <1>2. ASSUME Calm' PROVE OneSession'
    <2>1. CASE Reload
      BY <2>1 DEF Reload, OneSession, Refreshing, Asking, Busy, NoToken, NoRefresh, Loaded,
                  NoCall, Unknown
    <2>2. CASE OtherTab
      BY <1>2, <2>2 DEF OtherTab, Calm
    <2>3. CASE ~Reload /\ ~OtherTab
      <3>1. crossed \subseteq crossed'
        BY <2>3 DEF Next, vars, RefreshServer, RefreshEnds, RefreshFails, Fetch, Answer,
           Retry, Succeeds, Fails, Expels, Bootstrap, LoginSend, LoginEnds, LoginFails,
           LogoutSend, LogoutServer, LogoutEnds, SyncPassport, Expire, Revoke, ClearSession,
           Overtakes
      <3>2. crossed' = {} /\ OneSession /\ LoadInv
        BY <1>2, <3>1 DEF Calm, CalmInv
      <3>3. CASE UNCHANGED vars
        BY <3>2, <3>3, CalmSame DEF vars, OneSession, Refreshing
      <3>4. CASE Next
        BY <2>3, <3>2, <3>4, CalmRefresh, CalmFails, CalmFetch, CalmAnswers, CalmBoot,
           CalmForms, CalmWorld DEF Next
      <3> QED BY <3>3, <3>4
    <2> QED BY <2>1, <2>2, <2>3
  <1> QED BY <1>1, <1>2 DEF CalmInv

LEMMA CalmAlways == Spec => []CalmInv
  <1>1. Init => CalmInv
    BY DEF Init, CalmInv, LoadInv, OneSession, Loaded, NoCall, NoToken, NoForm, NoRefresh,
           Refreshing, Asking, Busy, Unknown, Procs
  <1> QED BY <1>1, InitType, StepType, StepCalm, PTL DEF Spec

\* As long as nothing was overtaken, the page shows who its calls are made for.
THEOREM ShowsWhoActs == Spec => []ShownIsActing
  <1>1. CalmInv => ShownIsActing
    BY DEF CalmInv, OneSession, ShownIsActing
  <1> QED BY <1>1, CalmAlways, PTL

\* As long as nothing was overtaken, a passport is served to its owner only.
THEOREM ServesOwnPassport == Spec => []OwnPassport
  <1>1. CalmInv => OwnPassport
    BY DEF CalmInv, OneSession, OwnPassport
  <1> QED BY <1>1, CalmAlways, PTL

=============================================================================
