-------------------------- MODULE RefreshRotation --------------------------
(***************************************************************************)
(* Refresh-token rotation of the authentication API: the rows of           *)
(* refresh_tokens (PostgreSQL, READ COMMITTED), the short-lived replay     *)
(* entries kept in Redis, and the requests that interleave on both.        *)
(*                                                                         *)
(* One action is one round trip to Redis or to the database.  A            *)
(* transaction that writes keeps the row lock of the token it consumed     *)
(* between its flush and its commit (pc = "commit").                       *)
(***************************************************************************)
EXTENDS Naturals

CONSTANTS
    Tokens,            \* refresh tokens that may ever be issued
    Reqs,              \* request slots: concurrent HTTP requests in flight
    Nil,               \* NULL, in columns and in request locals
    Events,            \* what the environment of this instance may do
    MaxClaimAttempts,  \* _MAX_CLAIM_ATTEMPTS
    MaxErrors          \* bound on transient database errors

AllEvents == {"slow", "crash", "redis", "dberror", "lostcommit", "logout",
              "reset", "suspend", "expire"}

ASSUME RotationAssumption ==
    /\ Nil \notin Tokens
    /\ Events \subseteq AllEvents
    /\ MaxClaimAttempts \in Nat \ {0}
    /\ MaxErrors \in Nat

VARIABLES
    status,      \* committed row of a token: see Status
    family,      \* family_id: the token the login issued
    replacedBy,  \* replaced_by_token_id
    active,      \* users.is_active of the account
    entry,       \* Redis value under the key derived from a token
    pc, tok, succ, tries, hit,  \* locals of a request
    held,        \* tokens some client received
    errors,      \* transient errors so far
    parent,      \* history: the token whose rotation issued this one
    closed       \* history: tokens whose replay window is over

rows    == <<status, family, replacedBy, parent>>
clocks  == <<active, errors>>
locals  == <<pc, tok, succ, tries, hit>>
vars    == <<rows, clocks, closed, locals, entry, held>>

Rotating == {"read", "write", "commit", "publish"}
Failing  == {"reuse", "revokeSnap", "revoke", "discard"}
Revoking == {"logoutRead", "logoutWrite", "resetApply"}
PCs == {"idle", "claim", "await", "replay", "replayDiscard"}
         \cup Rotating \cup Failing \cup Revoking

\* A row with revoked_at set is "revoked", whether or not expires_at is past;
\* one with revoked_at NULL is "live" before expires_at and "expired" after.
Status == {"absent", "live", "expired", "revoked"}

Entry == [kind : {"none", "pending", "fresh", "stale"},
          succ : Tokens \cup {Nil}]
NoEntry == [kind |-> "none", succ |-> Nil]
Pending == [kind |-> "pending", succ |-> Nil]
Fresh(n) == [kind |-> "fresh", succ |-> n]

TypeOK ==
    /\ status \in [Tokens -> Status]
    /\ family \in [Tokens -> Tokens \cup {Nil}]
    /\ replacedBy \in [Tokens -> Tokens \cup {Nil}]
    /\ parent \in [Tokens -> Tokens \cup {Nil}]
    /\ active \in BOOLEAN
    /\ entry \in [Tokens -> Entry]
    /\ pc \in [Reqs -> PCs]
    /\ tok \in [Reqs -> Tokens \cup {Nil}]
    /\ succ \in [Reqs -> Tokens \cup {Nil}]
    /\ tries \in [Reqs -> 0 .. MaxClaimAttempts]
    /\ hit \in [Reqs -> SUBSET Tokens]
    /\ held \subseteq Tokens
    /\ errors \in 0 .. MaxErrors
    /\ closed \subseteq Tokens

Init ==
    /\ status = [t \in Tokens |-> "absent"]
    /\ family = [t \in Tokens |-> Nil]
    /\ replacedBy = [t \in Tokens |-> Nil]
    /\ parent = [t \in Tokens |-> Nil]
    /\ active = TRUE
    /\ entry = [t \in Tokens |-> NoEntry]
    /\ pc = [r \in Reqs |-> "idle"]
    /\ tok = [r \in Reqs |-> Nil]
    /\ succ = [r \in Reqs |-> Nil]
    /\ tries = [r \in Reqs |-> 0]
    /\ hit = [r \in Reqs |-> {}]
    /\ held = {}
    /\ errors = 0
    /\ closed = {}

----------------------------------------------------------------------------
(* Helpers                                                                 *)

\* Neither in the table nor inserted by a transaction that is still open.
Unused == {t \in Tokens :
             /\ status[t] = "absent"
             /\ \A q \in Reqs : pc[q] = "commit" => succ[q] # t}
InFlight == {q \in Reqs : pc[q] # "idle"}

\* UPDATE keeps the row lock until COMMIT: writers of the same row wait.
RowLocked(t) == \E q \in Reqs : pc[q] = "commit" /\ tok[q] = t

\* reset_password holds the row of the user until its COMMIT.
UserLocked == \E q \in Reqs : pc[q] = "resetApply"

\* Some request is between its claim on t and the publication of its result.
Working(t) == \E q \in Reqs : tok[q] = t /\ pc[q] \in Rotating \cup Failing

\* WHERE revoked_at IS NULL.
Unrevoked(t) == status[t] \in {"live", "expired"}

Goto(r, l) == pc' = [pc EXCEPT ![r] = l]
Stay(r, l) == Goto(r, l) /\ UNCHANGED <<tok, succ, tries, hit>>

\* The end of a request: its slot is free again.
Forget(r) ==
    /\ Goto(r, "idle")
    /\ tok' = [tok EXCEPT ![r] = Nil]
    /\ succ' = [succ EXCEPT ![r] = Nil]
    /\ tries' = [tries EXCEPT ![r] = 0]
    /\ hit' = [hit EXCEPT ![r] = {}]

\* The answer, with the cookie it sets.  A response that is lost on the way is
\* one whose cookie the client never presents: it may still present the old one.
Answer(r, cookies) == Forget(r) /\ held' = held \cup cookies

\* DELETE of the key; with "redis" the call may raise and is swallowed.
Discard(t) ==
    \/ entry' = [entry EXCEPT ![t] = NoEntry]
    \/ "redis" \in Events /\ UNCHANGED entry

----------------------------------------------------------------------------
(* The client                                                              *)

Login ==
    /\ active
    /\ \E t \in Unused :
        /\ status' = [status EXCEPT ![t] = "live"]
        /\ family' = [family EXCEPT ![t] = t]
        /\ held' = held \cup {t}
    /\ UNCHANGED <<replacedBy, parent, clocks, closed, locals, entry>>

\* The token a new request of a client presents in its cookie.
Presented(r, t) ==
    /\ pc[r] = "idle"
    /\ t \in held
    /\ tok' = [tok EXCEPT ![r] = t]
    /\ UNCHANGED <<succ, tries, hit>>

----------------------------------------------------------------------------
(* claim_rotation                                                          *)

\* Mutant: SET without NX.
TryClaimAlways(r, t) ==
    /\ entry' = [entry EXCEPT ![t] = Pending]
    /\ Goto(r, "read")
    /\ UNCHANGED <<rows, clocks, closed, held>>

\* SET key "p:<deadline>" NX PX ttl.
TryClaim(r, t) ==
    /\ IF entry[t].kind = "none"
       THEN entry' = [entry EXCEPT ![t] = Pending] /\ Goto(r, "read")
       ELSE UNCHANGED entry /\ Goto(r, "await")
    /\ UNCHANGED <<rows, clocks, closed, held>>

\* The first attempt of a new refresh request ...
Refresh(r) == \E t \in Tokens : Presented(r, t) /\ TryClaim(r, t)

\* ... and the next ones.
Reclaim(r) ==
    /\ pc[r] = "claim"
    /\ TryClaim(r, tok[r])
    /\ UNCHANGED <<tok, succ, tries, hit>>

\* Mutants: attempts without a limit, attempts that are not counted.
AwaitVanishedForever(r) ==
    /\ pc[r] = "await"
    /\ entry[tok[r]].kind = "none"
    /\ tries' = [tries EXCEPT ![r] = @ + 1]
    /\ Goto(r, "claim")
    /\ UNCHANGED <<rows, clocks, closed, tok, succ, hit, entry, held>>

AwaitVanishedUncounted(r) ==
    /\ pc[r] = "await"
    /\ entry[tok[r]].kind = "none"
    /\ Goto(r, IF tries[r] + 1 < MaxClaimAttempts THEN "claim" ELSE "read")
    /\ UNCHANGED <<rows, clocks, closed, tok, succ, tries, hit, entry, held>>

\* GET key: nobody holds it any more, so the claim is tried again.
AwaitVanished(r) ==
    /\ pc[r] = "await"
    /\ entry[tok[r]].kind = "none"
    /\ tries' = [tries EXCEPT ![r] = @ + 1]
    /\ Goto(r, IF tries[r] + 1 < MaxClaimAttempts THEN "claim" ELSE "read")
    /\ UNCHANGED <<rows, clocks, closed, tok, succ, hit, entry, held>>

\* GET key: the successor is published and its deadline is not over.
AwaitResult(r) ==
    /\ pc[r] = "await"
    /\ entry[tok[r]].kind = "fresh"
    /\ succ' = [succ EXCEPT ![r] = entry[tok[r]].succ]
    /\ Goto(r, "replay")
    /\ UNCHANGED <<rows, clocks, closed, tok, tries, hit, entry, held>>

\* GET key: past the deadline the database decides.
AwaitStale(r) ==
    /\ pc[r] = "await"
    /\ entry[tok[r]].kind = "stale"
    /\ Stay(r, "read")
    /\ UNCHANGED <<rows, clocks, closed, entry, held>>

\* The polling budget (at most 3 s) ran out while the key was pending.
AwaitTimeout(r) ==
    /\ pc[r] = "await"
    /\ entry[tok[r]].kind = "pending"
    /\ Working(tok[r]) => "slow" \in Events
    /\ Stay(r, "read")
    /\ UNCHANGED <<rows, clocks, closed, entry, held>>

\* Redis raises: the module steps aside and the database decides.
RedisDegraded(r) ==
    /\ "redis" \in Events
    /\ \/ \E t \in Tokens : Presented(r, t)
       \/ pc[r] \in {"claim", "await"} /\ UNCHANGED <<tok, succ, tries, hit>>
    /\ Goto(r, "read")
    /\ UNCHANGED <<rows, clocks, closed, entry, held>>

----------------------------------------------------------------------------
(* _rotate_session                                                         *)

\* Mutant: revoked_at is not looked at.
RotateReadRevoked(r) ==
    LET t == tok[r] IN
    /\ pc[r] = "read"
    /\ \/ status[t] \in {"absent", "expired"} /\ Stay(r, "discard")
       \/ /\ status[t] \in {"live", "revoked"}
          /\ Stay(r, IF active THEN "write" ELSE "discard")
    /\ UNCHANGED <<rows, clocks, closed, entry, held>>

\* SELECT of the token (and of the user), then the checks on it.
RotateRead(r) ==
    LET t == tok[r] IN
    /\ pc[r] = "read"
    /\ \/ status[t] \in {"absent", "expired"} /\ Stay(r, "discard")
       \/ status[t] = "revoked" /\ Stay(r, "reuse")
       \/ status[t] = "live" /\ Stay(r, IF active THEN "write" ELSE "discard")
    /\ UNCHANGED <<rows, clocks, closed, entry, held>>

\* Mutant: the successor is published before the COMMIT.
RotateWritePublishing(r) ==
    /\ pc[r] = "write"
    /\ ~RowLocked(tok[r])
    /\ \E n \in Unused :
        /\ succ' = [succ EXCEPT ![r] = n]
        /\ entry' = [entry EXCEPT ![tok[r]] = Fresh(n)]
    /\ Goto(r, "commit")
    /\ UNCHANGED <<rows, clocks, closed, tok, tries, hit, held>>

\* INSERT of the successor and UPDATE of the consumed row, flushed.
RotateWrite(r) ==
    /\ pc[r] = "write"
    /\ ~RowLocked(tok[r])
    /\ \E n \in Unused : succ' = [succ EXCEPT ![r] = n]
    /\ Goto(r, "commit")
    /\ UNCHANGED <<rows, clocks, closed, tok, tries, hit, entry, held>>

\* Mutants: create without mark_rotated, revoke() in place of mark_rotated.
CommitWithoutMark(r) ==
    /\ pc[r] = "commit"
    /\ status' = [status EXCEPT ![succ[r]] = "live"]
    /\ family' = [family EXCEPT ![succ[r]] = family[tok[r]]]
    /\ parent' = [parent EXCEPT ![succ[r]] = tok[r]]
    /\ UNCHANGED replacedBy

CommitWithoutLink(r) ==
    /\ pc[r] = "commit"
    /\ status' = [status EXCEPT ![tok[r]] = "revoked", ![succ[r]] = "live"]
    /\ family' = [family EXCEPT ![succ[r]] = family[tok[r]]]
    /\ parent' = [parent EXCEPT ![succ[r]] = tok[r]]
    /\ UNCHANGED replacedBy

\* What COMMIT makes visible, all at once.
CommitRotation(r) ==
    /\ pc[r] = "commit"
    /\ status' = [status EXCEPT ![tok[r]] = "revoked", ![succ[r]] = "live"]
    /\ family' = [family EXCEPT ![succ[r]] = family[tok[r]]]
    /\ replacedBy' = [replacedBy EXCEPT ![tok[r]] = succ[r]]
    /\ parent' = [parent EXCEPT ![succ[r]] = tok[r]]

RotateCommit(r) ==
    /\ CommitRotation(r)
    /\ Stay(r, "publish")
    /\ UNCHANGED <<clocks, closed, entry, held>>

\* Mutant: the claim is released, the successor is not published.
PublishNothing(r) ==
    /\ pc[r] = "publish"
    /\ Discard(tok[r])
    /\ Answer(r, {succ[r]})
    /\ UNCHANGED <<rows, clocks, closed>>

\* publish_successor, then the answer.
RotatePublish(r) ==
    /\ pc[r] = "publish"
    /\ \/ entry' = [entry EXCEPT ![tok[r]] = Fresh(succ[r])]
       \/ "redis" \in Events /\ UNCHANGED entry
    /\ Answer(r, {succ[r]})
    /\ UNCHANGED <<rows, clocks, closed>>

\* A statement raises before COMMIT: the transaction is rolled back.
RotateError(r) ==
    /\ "dberror" \in Events
    /\ errors < MaxErrors
    /\ pc[r] \in {"read", "write", "commit", "revokeSnap", "revoke"}
    /\ errors' = errors + 1
    /\ Goto(r, "discard")
    /\ succ' = [succ EXCEPT ![r] = Nil]
    /\ UNCHANGED <<rows, active, closed, tok, tries, hit, entry, held>>

\* The connection is lost after the server committed: commit() raises.
RotateCommitLost(r) ==
    /\ "lostcommit" \in Events
    /\ errors < MaxErrors
    /\ errors' = errors + 1
    /\ CommitRotation(r)
    /\ Goto(r, "discard")
    /\ succ' = [succ EXCEPT ![r] = Nil]
    /\ UNCHANGED <<active, closed, tok, tries, hit, entry, held>>

\* Reuse: the replay entry goes first, then the whole family.
ReuseDiscard(r) ==
    /\ pc[r] = "reuse"
    /\ Discard(tok[r])
    /\ Stay(r, "revokeSnap")
    /\ UNCHANGED <<rows, clocks, closed, held>>

\* UPDATE ... WHERE revoked_at IS NULL waits for the locks on the rows its
\* snapshot found, then writes those rows and no other.
RevokeHit(r) ==
    /\ \A t \in hit[r] : ~RowLocked(t)
    /\ status' = [t \in Tokens |-> IF t \in hit[r] THEN "revoked" ELSE status[t]]

\* revoke_family: the UPDATE sees the rows committed when it starts ...
RevokeSnapshot(r) ==
    /\ pc[r] = "revokeSnap"
    /\ hit' = [hit EXCEPT ![r] =
                 {t \in Tokens : family[t] = family[tok[r]] /\ Unrevoked(t)}]
    /\ Goto(r, "revoke")
    /\ UNCHANGED <<rows, clocks, closed, tok, succ, tries, entry, held>>

\* ... and waits for the locks on them before it changes them.
RevokeApply(r) ==
    /\ pc[r] = "revoke"
    /\ RevokeHit(r)
    /\ Stay(r, "discard")
    /\ UNCHANGED <<family, replacedBy, parent, clocks, closed,
                   entry, held>>

\* Mutant: an exception leaves the claim.
FailKeepingClaim(r) ==
    /\ pc[r] = "discard"
    /\ Answer(r, {})
    /\ UNCHANGED <<rows, clocks, closed, entry>>

\* The except clause of refresh: release the claim and raise.
RefreshFails(r) ==
    /\ pc[r] = "discard"
    /\ Discard(tok[r])
    /\ Answer(r, {})
    /\ UNCHANGED <<rows, clocks, closed>>

----------------------------------------------------------------------------
(* _replay_rotation: no write to the database                              *)

ReplayRead(r) ==
    LET usable == status[succ[r]] = "live" IN
    /\ pc[r] = "replay"
    /\ \/ ~usable /\ Stay(r, "replayDiscard") /\ UNCHANGED held
       \/ usable /\ Answer(r, IF active THEN {succ[r]} ELSE {})
    /\ UNCHANGED <<rows, clocks, closed, entry>>

ReplayRefused(r) ==
    /\ pc[r] = "replayDiscard"
    /\ Discard(tok[r])
    /\ Answer(r, {})
    /\ UNCHANGED <<rows, clocks, closed>>

\* The SELECT raises; nothing is released, the entry stays as it was.
ReplayError(r) ==
    /\ "dberror" \in Events
    /\ errors < MaxErrors
    /\ pc[r] = "replay"
    /\ errors' = errors + 1
    /\ Answer(r, {})
    /\ UNCHANGED <<rows, active, closed, entry>>

----------------------------------------------------------------------------
(* logout                                                                  *)

\* The replay entry goes before the row is looked up.
Logout(r) ==
    /\ "logout" \in Events
    /\ \E t \in Tokens : Presented(r, t) /\ Discard(t)
    /\ Goto(r, "logoutRead")
    /\ UNCHANGED <<rows, clocks, closed, held>>

\* revoke() writes only when its own read found the row live.
LogoutRead(r) ==
    /\ pc[r] = "logoutRead"
    /\ \/ /\ Unrevoked(tok[r])
          /\ Stay(r, "logoutWrite")
          /\ UNCHANGED held
       \/ /\ ~Unrevoked(tok[r])
          /\ Answer(r, {})
    /\ UNCHANGED <<rows, clocks, closed, entry>>

LogoutWrite(r) ==
    /\ pc[r] = "logoutWrite"
    /\ ~RowLocked(tok[r])
    /\ status' = [status EXCEPT ![tok[r]] = "revoked"]
    /\ Answer(r, {})
    /\ UNCHANGED <<family, replacedBy, parent, clocks, closed,
                   entry>>

----------------------------------------------------------------------------
(* reset_password: revoke_all_for_user, then COMMIT                        *)

Reset(r) ==
    /\ "reset" \in Events
    /\ active /\ ~UserLocked
    /\ pc[r] = "idle"
    /\ hit' = [hit EXCEPT ![r] = {t \in Tokens : Unrevoked(t)}]
    /\ Goto(r, "resetApply")
    /\ UNCHANGED <<rows, clocks, closed, tok, succ, tries, entry, held>>

ResetApply(r) ==
    /\ pc[r] = "resetApply"
    /\ RevokeHit(r)
    /\ Answer(r, {})
    /\ UNCHANGED <<family, replacedBy, parent, clocks, closed,
                   entry>>

----------------------------------------------------------------------------
(* Time, failures and the administration                                   *)

\* The logical deadline of a published successor passes.
Deadline(t) ==
    /\ entry[t].kind = "fresh"
    /\ entry' = [entry EXCEPT ![t].kind = "stale"]
    /\ closed' = closed \cup {t}
    /\ UNCHANGED <<rows, clocks, locals, held>>

\* Mutant: a claim that expires before its rotation is over.
TtlTooShort(t) ==
    /\ entry[t].kind \in {"pending", "stale"}
    /\ entry' = [entry EXCEPT ![t] = NoEntry]
    /\ UNCHANGED <<rows, clocks, closed, locals, held>>

\* Redis drops the key.  A pending key outlives its owner's rotation (7 s)
\* unless that rotation is slow.
Ttl(t) ==
    /\ \/ entry[t].kind = "stale"
       \/ entry[t].kind = "pending" /\ (Working(t) => "slow" \in Events)
    /\ entry' = [entry EXCEPT ![t] = NoEntry]
    /\ UNCHANGED <<rows, clocks, closed, locals, held>>

\* expires_at passes.
Expire(t) ==
    /\ "expire" \in Events
    /\ status[t] = "live"
    /\ status' = [status EXCEPT ![t] = "expired"]
    /\ UNCHANGED <<family, replacedBy, parent, clocks, closed, locals, entry,
                   held>>

\* The worker dies, or the handler is cancelled: its transaction is rolled
\* back, what it wrote to Redis stays.
Crash(r) ==
    /\ "crash" \in Events
    /\ r \in InFlight
    /\ Forget(r)
    /\ UNCHANGED <<rows, clocks, closed, entry, held>>

\* suspend_account and reactivate_account of the staff service.
ToggleActive ==
    /\ "suspend" \in Events
    /\ ~UserLocked
    /\ active' = ~active
    /\ UNCHANGED <<rows, errors, closed, locals, entry, held>>

----------------------------------------------------------------------------
Rotate(r) ==
    \/ RotateRead(r) \/ RotateWrite(r) \/ RotateCommit(r) \/ RotatePublish(r)
    \/ ReuseDiscard(r) \/ RevokeSnapshot(r) \/ RevokeApply(r) \/ RefreshFails(r)

Await(r) ==
    AwaitVanished(r) \/ AwaitResult(r) \/ AwaitStale(r) \/ AwaitTimeout(r)

Leave(r) ==
    LogoutRead(r) \/ LogoutWrite(r) \/ ResetApply(r)

\* The steps a request takes on its own, without a fault.
Server(r) ==
    \/ Reclaim(r) \/ Await(r) \/ Rotate(r)
    \/ ReplayRead(r) \/ ReplayRefused(r) \/ Leave(r)

Fault(r) ==
    \/ RedisDegraded(r) \/ RotateError(r) \/ RotateCommitLost(r)
    \/ ReplayError(r) \/ Crash(r)

Client(r) == Refresh(r) \/ Logout(r) \/ Reset(r)

Next ==
    \/ Login
    \/ \E r \in Reqs : Client(r) \/ Server(r) \/ Fault(r)
    \/ \E t \in Tokens : Deadline(t) \/ Ttl(t) \/ Expire(t)
    \/ ToggleActive

Spec == Init /\ [][Next]_vars

\* The event loop runs every handler that can run.  Nothing obliges a client,
\* a fault, the clock or the administration to act.
Fairness == \A r \in Reqs : WF_vars(Server(r))

FairSpec == Spec /\ Fairness

----------------------------------------------------------------------------
(* Properties that hold whatever the environment does                      *)

\* A token that has a successor is revoked for good, in the family of its
\* successor, and its replaced_by_token_id is set: create and mark_rotated of
\* _rotate_session commit together, and no other writer ever undoes them.
ConsumedForGood ==
    \A u \in Tokens :
        parent[u] # Nil =>
            /\ status[parent[u]] = "revoked"
            /\ family[parent[u]] = family[u]
            /\ replacedBy[parent[u]] # Nil

\* What publish_successor leaves under a token, and what a refresh request is
\* about to hand over, is a token that the rotation of that very token
\* issued: a replay never gives a client the session of somebody else.
ReplayGivesOwnSuccessor ==
    /\ \A t \in Tokens :
        entry[t].kind \in {"fresh", "stale"} =>
            entry[t].succ # Nil /\ parent[entry[t].succ] = t
    /\ \A r \in Reqs :
        pc[r] \in {"publish", "replay"} =>
            succ[r] # Nil /\ parent[succ[r]] = tok[r]

\* A family with no live token and no rotation past its checks.
DeadFamily(f) ==
    /\ \A t \in Tokens : family[t] = f => status[t] # "live"
    /\ \A r \in Reqs :
        pc[r] \in {"write", "commit"} => family[tok[r]] # f

\* A session that logout, reset, reuse or expiry ended stays over: only a
\* rotation that read a live token before the end can issue one after it.
DeadFamilyStaysDead ==
    [][\A f \in Tokens : family[f] = f /\ DeadFamily(f) => DeadFamily(f)']_vars

\* Every request is answered: no wait of claim_rotation or for a row lock is
\* unbounded.  (The finite set Tokens may run out; the code never does.)
OutOfTokens(r) == pc[r] = "write" /\ Unused = {}

EveryRequestAnswered ==
    \A r \in Reqs : r \in InFlight ~> (r \notin InFlight \/ OutOfTokens(r))

----------------------------------------------------------------------------
(* Properties of the environments the replay window is designed for: a     *)
(* rotation ends within the waiters' budget, Redis answers, no worker dies *)
(* and nobody logs out or is suspended while a rotation is in flight.      *)

Calm == Events \cap {"slow", "crash", "redis", "dberror", "lostcommit",
                     "logout", "suspend"} = {}

\* claim_rotation: two requests that present the same token at the same time
\* never both rotate it ("jamais un second successeur, jamais une famille
\* branchee").
SingleSuccessor ==
    \A u, v \in Tokens : parent[u] # Nil /\ parent[u] = parent[v] => u = v

\* The whole of _rotate_session: a family never has two live tokens.
OneLivePerFamily ==
    \A t, u \in Tokens :
        status[t] = "live" /\ status[u] = "live" /\ family[t] = family[u] => t = u

\* Reuse detection: a client that replays a consumed token whose successor is
\* alive is taken for a thief only once the replay window of the token is over.
NoFalseReuse ==
    \A r \in Reqs, u \in Tokens :
        pc[r] = "reuse" /\ parent[u] = tok[r] /\ status[u] = "live" =>
            tok[r] \in closed

\* The except clause of refresh: a rotation that does not succeed releases the
\* claim, so that a pending entry always has a request at work on its token.
ClaimReleased ==
    \A t \in Tokens : entry[t].kind = "pending" => Working(t)

----------------------------------------------------------------------------
\* The columns seen as a chain of tokens.
Chain == INSTANCE TokenChain WITH
    issued <- {t \in Tokens : status[t] # "absent"},
    next <- replacedBy,
    live <- {t \in Tokens : status[t] = "live"}

\* In the environments of Calm the table refresh_tokens behaves as a chain:
\* a rotation only ever extends it at its end.
ImplementsChain == Chain!Spec

=============================================================================
