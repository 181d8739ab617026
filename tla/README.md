# Yunicity, modelled in TLA+

Yunicity is a local social network: a FastAPI backend (PostgreSQL, Redis, an
ARQ worker), a web, an admin and a mobile front end. This directory holds
specifications of the parts of the backend where requests meet on shared rows
and of the parts of the web front end where answers meet in one tab, their TLC
configurations, and proofs that TLAPS checks. Paths are relative to `src/`;
`app/` stands for `backend/app/`, `web/` for `frontend/apps/web/` and `utils/`
for `frontend/packages/utils/src/`.

    tlc -workers 2 -config wallet_calls.cfg MCYuniWallet
    tlc -workers 2 -config client_session.cfg AuthClient
    tlapm WalletProofs.tla

`RefreshRotation`, `YuniWallet` and `ChallengeReward` are checked through their
MC modules, which hold the symmetries and the environments; the other modules
are parameterised by constants that their configurations give directly. The
modules named `...Invariant` hold inductive invariants, those named `...Proofs`
the proofs.

`PROJECT.json` lists every run, theorem, hazard and finding, and maps each
definition to the lines it models.

## 1. Inventory

Backend services are asynchronous Python. A request has one SQLAlchemy session
(`app/db/session.py`); each `await` on it is a round trip, and requests
interleave there, within a worker and between workers. PostgreSQL runs at READ
COMMITTED: a statement sees what is committed when it starts, and only row
locks (an UPDATE, `FOR UPDATE`, an uncommitted INSERT under a unique index)
order transactions. Redis holds the replay entries of token rotation, rate
limits, caches and the job queue. A tab of the web application is one thread:
what follows the end of a request runs without interruption, and everything
that is awaited (requests, timers, effects) interleaves there. Hooks (awards, challenges, levels,
notifications) run after the commit of what triggers them, in the same session,
and swallow their errors.

| Component | State | Operations | What is hard | What makes it correct |
|---|---|---|---|---|
| Token rotation (`auth_service`, `refresh_rotation_grace`, `refresh_token_repository`, `password_reset_service`) | `refresh_tokens`, `users.is_active`, one Redis key per token | login, refresh, logout, reset, suspend | two stores without a common transaction, polling with a budget, TTLs, crashes, lost answers, revocations during a rotation | one successor per token, a family that is over stays over, no replay of another session, no false reuse, every request answered |
| YuniMonnaie wallet (`yuni_wallet_service`, hooks) | `yuni_wallets`, `yuni_transactions` | earn, spend, reverse, suspend, reactivate, award hook | stale objects in the identity map, two first calls, retries, suspension in between | ledger and balance agree, no overdraft, idempotent references, nothing moves while suspended |
| Challenges (`passport_challenge_*`) | `user_passport_challenges`, `passport_challenge_progress_events`, the wallet | progress of a stamp or redemption, claim, two backfills | read without lock then write, a claim in two commits, lock order with the wallet | a reward is deserved, paid once, and claimed only when paid |
| Passport stamps (`passport_stamp_claim_service`, `local_stamp_service`) | `passport_stamps`, `stamps_count` | claim by QR | check then insert, counter written from Python | one stamp per organisation, the counter counts them |
| Redemption (`passport_service`, `scan_redemption_service`) | `passport_offer_redemptions`, counters | redeem, partner scan | limit checked before the insert | at most `max_redemptions_total`, one per passport |
| Reputation, levels, badges | `reputation_events`, snapshot, tier | award, rebuild, evaluate | rebuild against award | snapshot = sum of the events |
| Rate limiting (`core/rate_limit`) | one Redis counter per key and window | enforce | INCR and EXPIRE are two calls | a window ends |
| Authentication client (`utils/auth`, `utils/passport-session-cache.ts`, `web/lib/auth/auth-provider.tsx`) | access token, refresh in flight, attempts, user shown, cache of the passport, cookie | first load, fetch with a refresh, login, logout, refreshUser | promises that end after a logout or a login, calls that wait for one refresh, a second tab, a reload | one refresh at a time, no session ended without a failure, the user shown is the one who acts, every call ends |
| Search box (`web/hooks/use-search.ts`) | query, debounced query, filter, city, page, groups, `requestId` | type, filter, "Voir plus", "Réessayer" | calls superseded while under way | what is shown answers the question, pages follow one another, a question at rest is answered |
| Wall of a tribe (`web/hooks/use-tribe-wall.ts`, `tribe_post_service`) | items, two cursors, polls, posts | page, poll, write, remove, moderate | pages and polls that overlap, posts seen in another order than their dates | no post is missed, shown twice, out of order or back after its removal |
| Local videos (`services/local_video`, `workers/video_worker`, `web/hooks/use-local-video-pending-tracker.ts`) | status of a video, a job, records of the session storage, what the tracker shows | publish, process, fail, deliver again, give up, poll, dismiss | a job that fails or comes back, rounds of polling that overlap, a page left and opened again | a publication stays, records outlive failures, the end is announced once and noticed |
| Scheduled posts | `scheduled_at`, `scheduled_published_at`, `is_active` | schedule, cron tick, delete | a tick after a deletion | published once, never after a deletion |
| Content workflows (offers, creator content, events) | a status, a feed post that follows it | submit, approve, reject, archive | the post and its origin | legal transitions, the post shows what is published |

How they interact: a stamp or a redemption commits first; then the session
evaluates the level, awards reputation, credits the wallet and counts the
challenges, each with commits of its own; a claim of a challenge credits the
wallet in the middle of its own transaction. All requests carry an access token
that the rotation renews. The other components, most of them CRUD and read
models, are listed in `PROJECT.json` with the reason why they are not modelled.

## 2. Plan

What is here, in the order it was built:

1. `RefreshRotation` and its abstraction `TokenChain`.
2. `YuniWallet` and its abstraction `YuniLedger`.
3. `ChallengeReward`, which composes challenge progress, rewards and the wallet
   (reduced to what step 2 establishes), and `ChallengeContract`.
4. `AuthClient`: the client of the tokens of step 1, which is reduced there to
   what it answers: a live token is rotated, a token just consumed gives its
   successor, an older one is refused and may end its session.
5. `SearchBox`, `TribeWall` and `PendingVideos`: three places of the web
   application where requests of one tab overlap, with the services they meet.

Candidates to come after, by what they would add:

- `PassportStamps`: stamp claim, redemption and partner scan, with
  `max_redemptions_total` and the counters that Python writes back.
- `WalletBackfill`: `YuniWallet` with several wallets in one session; lock order
  of the backfill against hooks.
- the moderation of videos and `ScheduledPosts`: who may write a status last.
- `RateLimiter` and `Reputation` (snapshot against the sum of its events).

## 3. What is modelled

One action stands for one round trip: the Python between two `await`s is atomic
with the statement that follows or precedes it. What a transaction has flushed
and not committed is in the locals of its request; a row lock is a request
being at a certain `pc`, or an element of `held`.

### RefreshRotation

`status`, `family`, `replacedBy` are the columns `revoked_at`/`expires_at`,
`family_id`, `replaced_by_token_id`; `entry` the Redis value under the key of a
token (pending `p:`, published `r:` before or after its deadline); `pc`, `tok`,
`succ`, `tries`, `hit` the locals of a request. `parent` (the token a rotation started
from) and `closed` (the tokens whose replay window is over) are history.

| Actions | Code |
|---|---|
| `Login` | `_issue_session` |
| `Refresh`, `Reclaim`, `Await*`, `RedisDegraded` | `claim_rotation`, `_await_result` |
| `RotateRead`, `RotateWrite`, `RotateCommit`, `RotatePublish` | `_rotate_session`, `publish_successor` |
| `ReuseDiscard`, `RevokeSnapshot`, `RevokeApply`, `RefreshFails` | reuse detection, `revoke_family`, the `except` of `refresh` |
| `Replay*` | `_replay_rotation` |
| `Logout`, `LogoutRead`, `LogoutWrite` | `logout` |
| `Reset`, `ResetApply` | `reset_password`, `revoke_all_for_user` |
| `Deadline`, `Ttl`, `Expire` | the clock |
| `RotateError`, `RotateCommitLost`, `ReplayError`, `Crash`, `ToggleActive` | faults and the staff service |

`revoke_family` is two steps because PostgreSQL makes it so: the UPDATE chooses
its rows in its snapshot, then waits for their locks, and never sees a row that
was inserted in between.

`Events` says what an instance allows. `Calm` excludes what the replay window
is not designed for: a rotation slower than a waiter's budget, crashes, a
failing Redis, database errors, and a logout or suspension during a rotation.

Abstractions. The SELECTs of the token and of its user are one step, so are the
applied UPDATE of a revocation and its COMMIT, and the reads of
`reset_password` and its UPDATE of the user. No Redis, or a window of 0, is
`RedisDegraded` taken each time. A response that is lost is a cookie that the
client never presents. A deadline is an event and not a number: what the
numbers guarantee (a pending key outlives a rotation that is not slow) is in
the guards of `Ttl` and `AwaitTimeout`.

### YuniWallet

`wallet` is the row (absent, active or suspended), `ledger` the transactions in
commit order (an id is a rank), `mine` the object in the identity map of a
session. `Hook` loads the row before the lock, as the award hooks do, and
`Lock` replaces it, as `populate_existing` does. `LockMissing`, `Insert`,
`InsertConflict` are the creation of the row by `_lock_wallet` and its retry;
`FindAnswer`, `Compute`, `Flush` and `Commit` the bodies of earn, spend and
reverse; suspend and reactivate go from the lock to the commit. `Abort` ends a
session anywhere.

Abstractions: one wallet, since wallets share no row; references are model
values; amounts are unbounded integers (the column has 32 bits and no amount
the code awards comes near). The metadata of a transaction is left out (`spend`
passes `metadata=` where the column attribute is `metadata_`, so that it is
dropped there).

### ChallengeReward

`row` and `events` are the two tables for one citizen and one challenge,
`stamps` the stamps of the passport, `seen` the object a session loaded.
`wallet` keeps a status, the stamps awarded and whether the reward was paid:
`LockIsEnough` and `WalletImplementsLedger` justify to take an earn as one step
that happens at most once per reference. What an earn does to the *transaction*
is kept: it commits (and so releases every lock of its caller), or answers
without ending the transaction and keeps the wallet locked.

`Stamp` starts the session of a stamp claim after its commit; `Check`,
`AwardNothing`, `Award` are the award; `Read`, `Create`, `Look`, `Insert`,
`Refer`, `Write` are `increment_progress`, with the wait of an INSERT for
another one under the unique index and the `FOR KEY SHARE` lock of its foreign
key; `LockRow`, `EarnRefused`, `EarnPaid`, `Earn`, `Mark` are `claim_reward`.
`AwardBackfill` and `ProgressBackfill` are the two scripts, one stamp at a
time. `Victim` is the deadlock detector of PostgreSQL (external).

Abstractions: one challenge in a session (the code goes through the active
challenges of the type, each with a commit of its own), each source counts for
1 as every caller passes, UPDATE and COMMIT are one step, a redemption behaves
as a stamp, the catalogue does not change. `Refer` and the INSERT it belongs to
are one statement with two waits.

### AuthClient

One tab of the web application: `access` is the access token of
`MemoryTokenStorage`, `inFlight` and `attempts` the fields of `RefreshManager`
(the promise is named by the call that started it), `rf[p]` that refresh on its
way, `call[p]` a call of `authenticatedFetch`, `form` the login or logout under
way, `user` and `loading` the state of `AuthProvider`, `cache` the module
`passport-session-cache`. `cookie` and `alive` are the browser and the server.
`crossed`, `failed` and `quit` are history.

| Actions | Code |
|---|---|
| `Bootstrap` | the first load of `AuthProvider`: a refresh, then `me` |
| `Fetch`, `Answer`, `Retry` | `authenticatedFetch`: the request, the 401, the request repeated; `refreshUser`, `tryGetPassportMe` |
| `Join`, `StartRefresh`, `LimitReached` (in `Answer`, `Bootstrap`) | `RefreshManager.refresh` |
| `RefreshServer`, `RefreshEnds`, `RefreshFails` | the request of `refreshAccessToken`, its answer, the `finally` of the manager |
| `LoginSend`, `LoginEnds`, `LoginFails`, `LogoutSend`, `LogoutServer`, `LogoutEnds` | login, logout, `clearSession`, `reset` |
| `SyncPassport` | the effect on `user.id` |
| `Expire`, `Revoke`, `OtherTab`, `Reload` | the clock, the server, another tab, F5 |

A `RefreshEnds` that belongs to a refresh a reset has forgotten still clears
`inFlight` and stores its token: that is what the code does, and why
`OneRefreshAtATime` and `ShownIsActing` are stated as long as no change of
session overtook what was under way (`crossed`). Within a page nothing makes
that happen but a login or a logout pressed, or a session lost, while requests
are out; a reload starts afresh.

Abstractions: the server of `RefreshRotation` is reduced to the age of a token
(live, just rotated, older); every login is by another user, so that a session
also names its user; access tokens expire together; a call is of the page
(`api`), `refreshUser` (`me`) or the passport, which is the only one with a
cache; registration is a login; the store of the mobile application, which is
asynchronous, is not modelled.

### SearchBox

The state of `useSearch`: `typed`, `debounced`, `filter`, `city`, `page`,
`groups` (the question they answer and the pages they hold), `loading`,
`failed`, `hasSearched`; `searched` is the question the effect last ran for and
`call` the calls under way. `requestId` only tells the last call from the
others, so that a call carries `current` and the next one takes it away.
`Type`, `Debounce`, `ChooseFilter`, `ChooseCity` change the question,
`SearchEffect` runs `runSearch` for it, `LoadMoreForGroup` and `Retry` are the
two buttons, `SearchAnswers` and `SearchFails` the end of a call. A question
that becomes too short (`RunNothing`) empties the page and leaves the call
under way current, as the code does. Answers are the name of their question and
page; one type of item stands for the seven groups; the history of searches is
left out.

### TribeWall

`begun`, `committed`, `removed` are the rows of the posts of one tribe, `wall`,
`oldest`, `latest` the items and the two cursors of `useTribeWall`, `wallPage`,
`poll[k]`, `writing`, `removing` its requests. A post is named by its
`created_at`, which is the start of its transaction, so that posts may become
visible in another order (`CommitPost`). `ListPosts` and `ListPostsSince` are
the two reads of the service with their limits, `PageArrives` and `PollArrives`
what the hook does with them (`mergeFeedItems` below, above), `WritePost` /
`PostArrives` and `RemovePost` / `SoftDeletePost` / `RemovalArrives` are
`createPost` and `deletePost`. `late`, `clean`, `overlaps` are history.
`MergeFeedItems` keeps what is there and adds what is new, each of it once. An
answer without a cursor (0 for null) leaves that of the polls alone. Rows are
ordered by counting (`OldestFirstSeq`: the k-th has k - 1 older ones) and
filtered by their places (`Kept`), not by the recursive operators of the
library, about which nothing could be proved.

Abstractions: no two posts begin at the same instant (the code breaks ties by
id); likes, reports and the content of a
post are left out; the number of polls under way together is a constant, since
nothing in the hook bounds it.

### PendingVideos

`status[v]` and `job[v]` are the row and the job of a video, `stored` the
records of the session storage, `track[v]` what the tracker shows, `polled` the
dependency of its effect, `round[k]` a run of `pollOnce` with what is left of
its loop, `focus` and `focusGot` the video of the URL and its request, `upload`
the publication the form waits for. `announced`, `dropped`, `overlapped` are
history.

`PublishVideo` is the commit and the queueing, `PublishUnqueued` the commit
whose queueing raises. `StartJob`, `JobCommits`, `JobEnds`, `JobFails`,
`JobComesBack`, `GiveUpJob` are the worker. An exception that the run raises,
and a `job_timeout`, end the job: arq delivers again what raises its `Retry`,
which nothing here does, and what a worker that stops or dies leaves behind,
before or after its commit, up to `max_tries` times. `PollEffect`, `PollTick`, `GetVideo`,
`GetVideoFails`, `PollHears` are the tracker, `AskFocus` to `FocusFails` the
effect of the page on its URL, `OpenPage` and `LeavePage` its mount and its
cleanup. `Prune` is the age limit of a record, `Dismiss` the button.

Abstractions: the loop of a round goes through the videos in any order (the
code: newest first); a round that was cancelled is forgotten, since it does
nothing more; one job per video is under way, as its `_job_id` makes it; the
queue is arq, external and modelled from `WorkerSettings` and from what arq
(0.28.0 in `backend/uv.lock`) makes of it. `on_job_failure` and `retry_delay`
are no settings of arq, which drops them: `mark_local_video_processing_exhausted`
is not called by a run of the worker, and is no action of the model.

## 4. Runs

Bounds are in the configurations. Symmetry is used where no liveness property
is checked, on sets whose elements have no identity.

| Run | Question | Bounds |
|---|---|---|
| `rotation_faults` | do consumed tokens stay consumed, replays in their session, and families that are over, under slowness, crashes, Redis failures, lost commits and resets? | 3 tokens, 2 requests, 1 error |
| `rotation_calm` | one successor, one live token per family, no false reuse, with resets and expiry; does the table implement `TokenChain`? | 3 tokens, 2 requests |
| `rotation_live` | is every claim released and every request answered? | 2 tokens, 2 requests, 1 error, slow rotations, lost commits, logouts, suspensions |
| `wallet_calls` | does the ledger explain the balance, does the lock spare the unique index, is a suspended wallet still, does a reference count once and a reversal undo an earlier SPEND; does the wallet implement `YuniLedger` (overdraft, idempotence); does every call end? | 2 sessions, 2 references, amount 1, 4 transactions |
| `challenge_rewards` | deserved, paid, claimed, nothing undone; do the services implement `ChallengeContract`; does every request end, a deadlock and a refused INSERT included? | 2 sessions, 3 stamps, target 2 |
| `client_session` | one refresh at a time, no session ended without a failed refresh, the user shown is who acts, nobody's passport for another, no return after a logout; does every call end? | 1 part of the page and the first load, 2 logins, the limit of 1 refresh of the code; everything else may happen |
| `search_box` | does what is shown answer the question, do its pages follow one another; is a question at rest answered? | 2 queries and one too short, 2 cities, a filter and none, 3 pages, 2 calls |
| `tribe_wall` | no post missed, doubled, out of order or back; do the cursors only move apart? | 3 posts, pages and deltas of 1, 2 polls |
| `pending_videos` | is a record kept until the end, the end announced once and noticed; does a publication stay? | 1 video, 2 tries, 2 rounds |

Why these bounds show enough. A race on a token needs its two requests and one
successor; a second successor, or a rotation of the successor, needs the third
token. A wallet race needs a call, or an award hook with what it read before
the lock, and one other session; a SPEND needs an EARN before it and a REVERSAL
after it, and the fourth transaction leaves room to repeat each of them. A lost
update needs two sessions and a target of 2; the third stamp lets the challenge
be completed afterwards, and claimed by the one session while the other writes.
The safety theorems of section 5 hold for every bound, any number of sessions
included.

In the tab, the first load and one part of the page are two calls that may meet
a 401 together, two logins are a session and the one that replaces it. Two
calls of the search are the one that is superseded and its successor. Three
posts with pages of one are a page, an older one and what a poll brings; a
delta of one makes any two posts too many; two polls overlap. A video has no
part in another one's processing or tracking but the place in the loop of a
round, and the theorems hold for any number of them; two rounds overlap, two
tries are the first and the last.

`challenge_rewards` starts from the reachable state `Stamped`, one stamp taken by
a session that ended before it awarded or counted it. The stamps have no
identity, so it does not matter which is the first, and the row of the challenge,
its events and the wallet are still as they were at the beginning. It takes three
stamps because the deadlock does: a backfill that awards the second before its
own session does, the third that completes the challenge, and a claim.

### What TLC refutes

Three runs expect a violation: each checks what a comment, a test or a document
of the repository says, and the code does otherwise.

- `challenge_lost`: two increments from the same row leave two events and one
  step of progress. The events stay, so nothing counts the lost one again.
- `wall_gap`: a post whose transaction ends after that of a newer one is behind
  the cursor of the polls and before that of the older pages: the wall does not
  show it until it is loaded again, although the service calls its polls
  gap-free.
- `video_stuck`: a job meets a transient error or a timeout and ends. It is not
  tried again and nobody marks its video, which stays processing for ever,
  although `docs/adr/ADR-VIDEO-03A-async-media-processing-worker.md:151` has it
  tried three times and the docstring of `mark_local_video_processing_exhausted`
  has it failed then. The fairness of `PendingVideos` is assumed. One video,
  two tries and one round are enough: the tab has no part in it.

### Met on the way

Facts of the code that the models show and that no property states, because
the code does not exclude them.

- A waiter that gives up on a slow rotation rotates the same token: the family
  gets two live branches (`RotateRead` after `AwaitTimeout`; `Calm` excludes
  it).
- A logout inside a rotation deletes a replay entry that does not exist yet and
  revokes only the token presented; the docstring of `_replay_rotation`
  (`app/services/auth_service.py:231`) says that a logout closes the window.
- `revoke_family` misses the successor that a rotation in flight has inserted.
- Two reversals of one SPEND under different references refund it twice.
- `earn` commits inside `claim_reward` and so releases the lock on the
  challenge: a concurrent claim may answer `claimed = True` as well; the wallet
  is credited once (`ImplementsContract`). Rule YM-05 of
  `docs/passport/PASSPORT-V2-B3-data-model-bmad.md` lets a suspended wallet
  earn; code and tests refuse it, and the model follows the code.
- A logout while a refresh is out leaves its access token in the tab when it is
  answered, with nobody shown (`docs/qa/beta-readiness-checklist.md:30` asks
  for a logout without ghost state). The first load of a page whose refresh
  fails leaves the attempt counted, so that the next 401 asks for none.
- "Voir plus" from the mode Tous asks for page 2 of a group, and the effect of
  the filter it sets supersedes that call: the page shows page 1
  (`docs/ux/search-ui-intent.md:34`). After a page that failed, "Voir plus"
  skips it and "Réessayer" shows it without the ones before.
- The tab does not cancel what it awaits, so that an answer may arrive after what
  replaced its question: a refresh that a reset forgot lets another start beside
  the next one, a `me` shows the user before a login, a passport is put into the
  cache of the next user, a page or a poll brings a removed post back, two rounds
  of polls announce a video twice. `OneRefreshAtATime`, `ShownIsActing`,
  `OwnPassport`, `SignedOutForGood`, `RemovedForGood` and `AnnouncedOnce` leave
  these answers out by their history variables: they say what holds without
  them, not that they do not happen. So do `SingleSuccessor`, `OneLivePerFamily`
  and `NoFalseReuse` with the slow rotation above.
- A wall that was empty when it was loaded has no cursor and is never polled.
- A video whose job could not be queued stays processing for ever, like one
  whose job failed; so it is for its tracker, until the record is a day old.

### Fairness

Handlers are coroutines of an event loop that runs whatever can run: weak
fairness on the steps a request takes on its own. Nothing is assumed of
clients, clocks, faults, administrators. Where requests queue for a row lock
weak fairness is not enough, since the lock may be taken by somebody else each
time it is free; PostgreSQL serves its queue in turn, hence strong fairness on
`Lock` and `Insert` of the wallet and on the steps of a session in
`ChallengeReward`. `Victim` is weakly fair: `deadlock_timeout` always runs out.
`EveryRequestAnswered` leaves out the one wait the code does not know: for a
fresh token when the finite set is used up.

The tab has weak fairness on what its event loop and the browser do on their
own: a request ends, well or not; an effect that is due runs; a timer fires.
Nothing is assumed of the citizen, and a network that always fails is a
behaviour of all three modules. `EveryCallEnds` of `AuthClient` says nothing of
a page that is reloaded for ever, `RestIsAnswered` speaks of a question that is
no longer changed and takes an error shown for an answer. `EndIsNoticed` needs
more: that the polls do not fail for ever, hence strong fairness on `GetVideo`
and on an answer that arrives. The worker is weakly fair to the start of a
queued job, to the end of a run and to the end of a job without tries left; it
owes no job a success, and `EveryVideoSettles` is refuted under this fairness.
`TribeWall` has no liveness property: the wall promises nothing when polls
fail.

`CHECK_DEADLOCK` is off because the instances may stop: tokens, transactions,
stamps, logins, posts or videos run out.

## 5. Proofs

All theorems have the form `Spec => []Inv`, `Spec => [][A]_vars` or
`Spec => Abstract!Spec`, for every value of the constants under the named
assumptions (`RotationAssumption`, `WalletAssumption`, `ChallengeAssumption`,
`AuthClientAssumption`, `SearchAssumption`, `TribeWallAssumption`,
`PendingAssumption`). Every safety property of a passing run is stated by one of
them.

**RotationProofs.** `TypeCorrect`, `ConsumedIsForGood`, `ReplayIsOwn`,
`OverIsOver`, for every environment; `ClaimsAreReleased` under
`ClaimsGivenBack`, that is as long as Redis answers and no worker dies, which
is all that a claim needs to be given back: the rotation may be slow, fail, lose
its commit, or meet a logout, a reset or a suspension. The invariant `SafetyInv` adds to the
properties that rows are well formed and that the row a rotation inserts is
its own until it commits: without it two transactions could hand out one
successor. `OverIsOver` is an action property that follows from it: a step that
makes a token live is a commit of a rotation past its checks.

**RotationCalmProofs.** `NoBranch`, `OneLive`, `RefinesChain` under `Locked`,
which is `Calm` with commits that may be lost; `ReuseIsLate` under `Calm`.
`LockInv` says that the pending key is a lock: the request past its checks is
alone on its token and still owns the key; `FamilyInv` that a family moves one
rotation at a time. A commit whose answer is lost gives the claim back with the
token consumed, so that the next owner of the key finds nothing to rotate: no
branch, but the client that comes back is taken for a reuse, which is why
`ReuseIsLate` needs `Calm`. `ReuseInv` says that while a session goes on, the
window of its last consumed token is still to open, open, or over, so that the
database decides only when it is over. With any of the other events that
`Locked` excludes (a slow rotation, a crash, a failing Redis, a database error,
a logout, a suspension) TLC refutes these invariants.

**WalletProofs.** `WalletTypeCorrect`, `AuditTrail`, `NoOverdraft`,
`LockIsEnough`, `SuspensionHolds`, `WalletImplementsLedger`, `HistoryIsSound`.
`WalletInv` has one holder of the row at a time, and says what the holder has in hand: between
`_lock_wallet` and its answer it works on the true row, its reference is not
recorded, its balance is covered. No invariant about sessions that wait is
needed, which is what `populate_existing` buys. `HistoryIsSound` is proved from
the abstract ledger: every step is one of its entries (`StepIsEntry`), so it is
enough that an entry keeps `LedgerHistory`, one entry per kind and reference
and every reversal the amount of an earlier SPEND; `wallet_calls` checks it.

**ChallengeProofs.** `ChallengeTypeCorrect`, `RewardDeserved`, `ClaimPaid`,
`NothingIsUndone`, `ImplementsTheContract`. No session excludes another from
the progress row, so the invariant does not try: `CountInv` says that nobody
has *seen* more progress than there are events, which a stale write cannot
break; `EntryInv` that two sessions never insert the event of one source;
`PayInv` that a claim past its checks is about a completed challenge, and at
`mark` about a paid one.

**AuthClientProofs.** `TypeCorrect`, `RefreshesOnce`, `LimitAfterFailure`,
`NoReturn`, `ShowsWhoActs`, `ServesOwnPassport`, for any number of parts of the
page, of logins and of attempts. `ManagerInv` says that the refresh on the wire
is the one the manager remembers and that a count is left over only by a
failure. `OneSession` is the heart: as long as nothing was overtaken, the
cookie, the access token, every refresh, every call for `me` or the passport
and the cache are about one session. It needs `LoadInv`, that the first load
shows nobody and lets nobody log in, or the `me` of the load could meet
another user. `QuitInv` says that no token, form or call still names a session
that was signed out in peace: a late answer has nothing to bring it back with.

**SearchProofs.** `SearchTypeCorrect`, `AnswersTheQuestion`,
`LoadsWhileCalling`, `NoPageLeftOut`, for any questions, pages and calls.
`ListenInv` (one call is listened to, exactly while the page loads), `AskInv`
(it asks the question, and completes only an answer to it), `ShowInv` and
`PageInv` (what it will complete is all the pages before its own).

**VideosProofs.** `VideosTypeCorrect`, `RecordsKept`, `AnnouncesOnce`,
`StaysPublished`, for any number of videos, tries and rounds. `WorkInv` says
that no job runs for a published video and that an answer about an end is still
right when it arrives, however late; `KnownInv` that no page knows of a video
before its publication is accepted; `AnnounceInv` that without overlap one
request is under way and nothing tracks a video that was announced.

**WallProofs.** `WallTypeCorrect`, `NoPostIsMissed`, `PostsShownOnce`,
`WallNewestFirst`, `RemovedStays`, `CursorsOnlyMoveApart`, for any number of
posts and polls and any size of a page and of a delta. The properties speak of
the wall once an answer has arrived, so `WallInv` says of each answer under way
what it will do to it. `NoHole`: the wall is covered up to the cursor that each
poll was *asked with*, and an answer holds all there is between its own
cursors; an answer may then come after another, late, or not at all, and the
cursor it brings is true. It needs `CursorsAgree` (a page goes on from the
oldest shown; no poll before the first page, nor from below the oldest shown)
and `HoldsCommitted`, or a post could commit below a cursor without being
`late`. `WrittenApart` has the post of a createPost nowhere in the tab before
its answer, unless it overlapped a read, and `TwiceAtMost` bounds what happens
otherwise; `RemovedStaysOut` says that no answer under way holds what was
removed in peace; `InOrder` that, in peace, a page continues the wall below and
a delta above. `CursorsOnlyMoveApart` needs one thing more: a poll that is alone
asks from the cursor of the wall (`PollFromCursor`). The lemmas about the
operators come first: `OldestFirst` (the rows of a set, by counting the older
ones), `KeptIs`, `MergeIs`, and `PageIs` and `DeltaIs`: what the limits cut off
lies beyond the cursor of the answer.

Model-checked only: liveness (`EveryRequestAnswered`, the three
`EveryCallEnds`, `RestIsAnswered`, `EndIsNoticed`), which is beyond the prover,
and the three refutations.

## 6. Not modelled

- Passport stamps, redemptions, the counters of likes, comments and
  redemptions, rate limits, scheduled posts, the reputation snapshot: what is
  hard in each is one check or one read before a write. `PROJECT.json` lists
  the gravest under `hazards`: the limit of redemptions, the rebuilt snapshot.
  Two claims of a stamp find none and the unique index refuses one, uncaught
  (`app/services/passport_stamp_claim_service.py:91`). `INCR` and `EXPIRE` are
  two calls (`app/core/rate_limit.py:43`). A scheduled post that was hidden or
  deleted before its date is inactive and unpublished, like one that waits
  (`app/services/scheduled_post_service.py:46`).
- Several wallets, or several challenges, in one session.
- The moderation of videos, which meets the object the worker has loaded; the
  upload and the encoding.
- The hooks of the front ends of one request each. Those worth a look: the feed
  of videos has no guard between its pages (`web/hooks/use-local-videos-feed.ts:41`),
  nor has the mobile feed (`frontend/apps/mobile/hooks/use-feed.ts:31`); a
  first page replaces a post written meanwhile (`web/hooks/use-feed.ts:51`);
  answers to two toggles may cross (`web/hooks/use-local-video-interactions.ts:33`);
  the unread count is decremented after it was read again
  (`web/hooks/use-notifications-page-context.ts:143`).
- Registration, password hashing and the reset e-mail (I/O).
- The other components are CRUD with permission checks, read models,
  presentation or data; the list gives a reason for each. They are most of the
  code, the presentation of the three front ends above all, which keeps no state
  that a step could take to a wrong one. The map names what the models translate
  and nothing else.
