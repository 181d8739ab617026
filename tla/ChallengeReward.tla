---------------------------- MODULE ChallengeReward ----------------------------
(***************************************************************************)
(* One challenge of one citizen: the progress that stamps bring it, the    *)
(* YuniMonnaie each stamp earns, and the reward that is claimed once it is *)
(* completed.                                                              *)
(*                                                                         *)
(* One action is one round trip to the database (READ COMMITTED), whose    *)
(* row locks are kept in held.  YuniWallet shows that an earn takes effect *)
(* at one COMMIT and at most once per reference, so the wallet is reduced  *)
(* to its status, its lock and the references it was credited for.         *)
(***************************************************************************)
EXTENDS Integers, FiniteSets

CONSTANTS
    Procs,    \* sessions: requests of the citizen and backfill scripts
    Sources,  \* stamps: source_id of a progress event
    Target,   \* target_value of the challenge
    YmReward, \* ym_reward of the challenge
    Nil

ASSUME ChallengeAssumption ==
    /\ Target \in Nat \ {0}
    /\ YmReward \in Nat
    /\ Nil \notin Sources

VARIABLES
    row,     \* the committed row of user_passport_challenges
    events,  \* sources in passport_challenge_progress_events
    stamps,  \* stamps of the passport
    wallet,  \* status, stamps awarded, reward paid
    granted, \* claims that answered claimed = True
    pc, task, seen, \* of a session: where, on what, the row it has loaded
    held     \* and what its transaction has locked or inserted

dbVars == <<row, events, stamps, wallet, granted>>
vars == <<row, events, stamps, wallet, granted, pc, task, seen, held>>

Row == [exists : BOOLEAN, progress : 0 .. Target, completed : BOOLEAN,
        claimed : BOOLEAN]
NoRow  == [exists |-> FALSE, progress |-> 0, completed |-> FALSE, claimed |-> FALSE]
NewRow == [exists |-> TRUE, progress |-> 0, completed |-> FALSE, claimed |-> FALSE]

Wallet == [suspended : BOOLEAN, awarded : SUBSET Sources, paid : BOOLEAN]

PCs == {"idle", "check", "award", "read", "create", "event", "insert", "refer",
        "write", "lock", "earn", "mark"}
Tasks == [kind : {"stamp", "award", "progress"}, source : Sources]
            \cup [kind : {"claim", "none"}, source : {Nil}]
NoTask == [kind |-> "none", source |-> Nil]

\* Locks of a transaction: the wallet, FOR UPDATE on the row of the challenge,
\* FOR KEY SHARE on it; and its uncommitted inserts: that row, an event.
Locks == {"wallet", "excl", "share", "new", "entry"}

TypeOK ==
    /\ row \in Row
    /\ events \subseteq Sources /\ stamps \subseteq Sources
    /\ wallet \in Wallet
    /\ granted \in Nat
    /\ pc \in [Procs -> PCs] /\ task \in [Procs -> Tasks]
    /\ seen \in [Procs -> Row] /\ held \in [Procs -> SUBSET Locks]

Init ==
    /\ row = NoRow /\ events = {} /\ stamps = {} /\ granted = 0
    /\ wallet = [suspended |-> FALSE, awarded |-> {}, paid |-> FALSE]
    /\ pc = [p \in Procs |-> "idle"]
    /\ task = [p \in Procs |-> NoTask]
    /\ seen = [p \in Procs |-> NoRow]
    /\ held = [p \in Procs |-> {}]

----------------------------------------------------------------------------
(* Locks                                                                   *)

Others(p, l) == {q \in Procs \ {p} : l \in held[q]}

SameEvent(p) == {q \in Others(p, "entry") : task[q].source = task[p].source}

\* Who a session waits for, according to its next statement.
Blockers(p) ==
    IF pc[p] \in {"award", "earn"} THEN Others(p, "wallet")
    ELSE IF pc[p] = "lock" /\ row.exists THEN Others(p, "excl") \cup Others(p, "share")
    ELSE IF pc[p] = "create" THEN Others(p, "new")
    ELSE IF pc[p] = "insert" THEN SameEvent(p)
    ELSE IF pc[p] \in {"refer", "write", "mark"} THEN Others(p, "excl")
    ELSE {}

Free(p) == Blockers(p) = {}

Goto(p, l) == pc' = [pc EXCEPT ![p] = l]
Work(p, t) == task' = [task EXCEPT ![p] = t]
See(p, r) == seen' = [seen EXCEPT ![p] = r]
Hold(p, ls) == held' = [held EXCEPT ![p] = ls]
Take(p, l) == Hold(p, held[p] \cup {l})

\* The transaction ends, by COMMIT or ROLLBACK, and the session with it.
Leave(p) == Goto(p, "idle") /\ Work(p, NoTask) /\ See(p, NoRow) /\ Hold(p, {})

----------------------------------------------------------------------------
(* What starts                                                             *)

\* PassportStampClaimService.claim, once add_stamp_if_missing is committed.
Stamp(p) ==
    /\ pc[p] = "idle"
    /\ \E s \in Sources \ stamps :
        stamps' = stamps \cup {s} /\ Work(p, [kind |-> "stamp", source |-> s])
    /\ Goto(p, "check")
    /\ UNCHANGED <<row, events, wallet, granted, seen, held>>

\* The scripts that award, or count, stamps already there.
AwardBackfill(p) ==
    /\ pc[p] = "idle"
    /\ \E s \in stamps : Work(p, [kind |-> "award", source |-> s])
    /\ Goto(p, "check")
    /\ UNCHANGED <<dbVars, seen, held>>

ProgressBackfill(p) ==
    /\ pc[p] = "idle"
    /\ \E s \in stamps : Work(p, [kind |-> "progress", source |-> s])
    /\ Goto(p, "read")
    /\ UNCHANGED <<dbVars, seen, held>>

Claim(p) ==
    /\ pc[p] = "idle"
    /\ Work(p, [kind |-> "claim", source |-> Nil])
    /\ Goto(p, "lock")
    /\ UNCHANGED <<dbVars, seen, held>>

\* An administrator suspends or reactivates the wallet: one locked COMMIT.
ToggleWallet ==
    /\ \A p \in Procs : "wallet" \notin held[p]
    /\ wallet' = [wallet EXCEPT !.suspended = ~@]
    /\ UNCHANGED <<row, events, stamps, granted, pc, task, seen, held>>

----------------------------------------------------------------------------
(* The award of a stamp                                                    *)

\* After the award a stamp goes on with the challenge, in the same session.
Awarded(p, ls) ==
    IF task[p].kind = "award" THEN Leave(p)
    ELSE Goto(p, "read") /\ Hold(p, ls) /\ UNCHANGED <<task, seen>>

\* _is_wallet_suspended, and has_existing_earn in the script, without a lock.
Check(p) ==
    /\ pc[p] = "check"
    /\ IF \/ wallet.suspended
          \/ task[p].kind = "award" /\ task[p].source \in wallet.awarded
       THEN Awarded(p, {})
       ELSE Goto(p, "award") /\ UNCHANGED <<task, seen, held>>
    /\ UNCHANGED dbVars

\* earn answers the transaction that exists, or refuses, without ending the
\* transaction of the session: the row of the wallet stays locked.
AwardNothing(p) ==
    /\ pc[p] = "award" /\ Free(p)
    /\ wallet.suspended \/ task[p].source \in wallet.awarded
    /\ Awarded(p, {"wallet"})
    /\ UNCHANGED dbVars

Award(p) ==
    /\ pc[p] = "award" /\ Free(p)
    /\ ~wallet.suspended /\ task[p].source \notin wallet.awarded
    /\ wallet' = [wallet EXCEPT !.awarded = @ \cup {task[p].source}]
    /\ Awarded(p, {})
    /\ UNCHANGED <<row, events, stamps, granted>>

----------------------------------------------------------------------------
(* increment_progress                                                      *)

\* The row as it is loaded; completed, it needs no more progress.
Loaded(p, r) ==
    IF r.completed THEN Leave(p)
    ELSE See(p, r) /\ Goto(p, "event") /\ UNCHANGED <<task, held>>

Read(p) ==
    /\ pc[p] = "read"
    /\ IF row.exists THEN Loaded(p, row)
       ELSE Goto(p, "create") /\ UNCHANGED <<task, seen, held>>
    /\ UNCHANGED dbVars

\* The INSERT waits for another one; refused by the unique index, the session
\* rolls back and loads the row that won.
Create(p) ==
    /\ pc[p] = "create" /\ Free(p)
    /\ IF row.exists
       THEN Hold(p, {}) /\ Goto(p, "read") /\ UNCHANGED <<task, seen>>
       ELSE Take(p, "new") /\ See(p, NewRow) /\ Goto(p, "event") /\ UNCHANGED task
    /\ UNCHANGED dbVars

\* Mutant: a counted source is tried again.
LookAgain(p) ==
    /\ pc[p] = "event"
    /\ Goto(p, IF task[p].source \in events THEN "read" ELSE "insert")
    /\ UNCHANGED <<dbVars, task, seen, held>>

\* _has_progress_event.
Look(p) ==
    /\ pc[p] = "event"
    /\ IF task[p].source \in events THEN Leave(p)
       ELSE Goto(p, "insert") /\ UNCHANGED <<task, seen, held>>
    /\ UNCHANGED dbVars

\* The INSERT of the event waits for one of the same source, and its conflict
\* rolls the session back ...
Insert(p) ==
    /\ pc[p] = "insert" /\ Free(p)
    /\ IF task[p].source \in events THEN Leave(p)
       ELSE Take(p, "entry") /\ Goto(p, "refer") /\ UNCHANGED <<task, seen>>
    /\ UNCHANGED dbVars

\* ... then its foreign key locks the row of the challenge FOR KEY SHARE.
Refer(p) ==
    /\ pc[p] = "refer" /\ Free(p)
    /\ Take(p, "share") /\ Goto(p, "write")
    /\ UNCHANGED <<dbVars, task, seen>>

\* Mutants: the event is left out of the commit; every column of the object is
\* written, not those that changed.
WriteWithoutEvent(p) ==
    /\ pc[p] = "write" /\ Free(p)
    /\ row' = [exists |-> TRUE, progress |-> seen[p].progress + 1,
               completed |-> row.completed \/ seen[p].progress + 1 >= Target,
               claimed |-> row.claimed]
    /\ Leave(p)
    /\ UNCHANGED <<events, stamps, wallet, granted>>

WriteWholeRow(p) ==
    /\ pc[p] = "write" /\ Free(p)
    /\ LET n == seen[p].progress + 1 IN
       row' = [seen[p] EXCEPT !.exists = TRUE, !.progress = n, !.completed = n >= Target]
    /\ events' = events \cup {task[p].source}
    /\ Leave(p)
    /\ UNCHANGED <<stamps, wallet, granted>>

\* UPDATE of the columns that changed, computed from the object, and COMMIT.
Write(p) ==
    /\ pc[p] = "write" /\ Free(p)
    /\ LET n == IF seen[p].progress < Target THEN seen[p].progress + 1 ELSE Target IN
       row' = [exists |-> TRUE, progress |-> n,
               completed |-> row.completed \/ n >= Target, claimed |-> row.claimed]
    /\ events' = events \cup {task[p].source}
    /\ Leave(p)
    /\ UNCHANGED <<stamps, wallet, granted>>

----------------------------------------------------------------------------
(* claim_reward                                                            *)

\* Mutant: the completion is not looked at.
LockRowUnchecked(p) ==
    /\ pc[p] = "lock" /\ Free(p)
    /\ IF ~row.exists \/ row.claimed THEN Leave(p)
       ELSE /\ Take(p, "excl") /\ Goto(p, IF YmReward > 0 THEN "earn" ELSE "mark")
            /\ UNCHANGED <<task, seen>>
    /\ UNCHANGED dbVars

\* SELECT ... FOR UPDATE, then the early answers.
LockRow(p) ==
    /\ pc[p] = "lock" /\ Free(p)
    /\ IF ~row.exists \/ ~row.completed \/ row.claimed THEN Leave(p)
       ELSE /\ Take(p, "excl") /\ Goto(p, IF YmReward > 0 THEN "earn" ELSE "mark")
            /\ UNCHANGED <<task, seen>>
    /\ UNCHANGED dbVars

\* Mutant: a suspended wallet does not stop the claim.
EarnRefusedMarking(p) ==
    /\ pc[p] = "earn" /\ Free(p)
    /\ wallet.suspended
    /\ Take(p, "wallet") /\ Goto(p, "mark")
    /\ UNCHANGED <<dbVars, task, seen>>

EarnRefused(p) ==
    /\ pc[p] = "earn" /\ Free(p)
    /\ wallet.suspended
    /\ Leave(p)
    /\ UNCHANGED dbVars

\* The reward was paid by a claim that did not get to mark it, or has not yet.
EarnPaid(p) ==
    /\ pc[p] = "earn" /\ Free(p)
    /\ ~wallet.suspended /\ wallet.paid
    /\ Take(p, "wallet") /\ Goto(p, "mark")
    /\ UNCHANGED <<dbVars, task, seen>>

\* earn commits, which also releases the row of the challenge.
Earn(p) ==
    /\ pc[p] = "earn" /\ Free(p)
    /\ ~wallet.suspended /\ ~wallet.paid
    /\ wallet' = [wallet EXCEPT !.paid = TRUE]
    /\ Hold(p, {}) /\ Goto(p, "mark")
    /\ UNCHANGED <<row, events, stamps, granted, task, seen>>

Mark(p) ==
    /\ pc[p] = "mark" /\ Free(p)
    /\ row' = [row EXCEPT !.claimed = TRUE]
    /\ granted' = granted + 1
    /\ Leave(p)
    /\ UNCHANGED <<events, stamps, wallet>>

----------------------------------------------------------------------------
\* An exception, a lost connection or the death of the worker.
Abort(p) ==
    /\ pc[p] # "idle"
    /\ Leave(p)
    /\ UNCHANGED dbVars

\* A cycle of sessions that wait for each other.
Deadlocked(p) ==
    \E D \in SUBSET Procs : p \in D /\ \A q \in D : Blockers(q) \cap D # {}

\* PostgreSQL breaks it after deadlock_timeout: one statement raises.
Victim(p) ==
    /\ Deadlocked(p)
    /\ Leave(p)
    /\ UNCHANGED dbVars

Handle(p) ==
    \/ Check(p) \/ AwardNothing(p) \/ Award(p)
    \/ Read(p) \/ Create(p) \/ Look(p) \/ Insert(p) \/ Refer(p) \/ Write(p)
    \/ LockRow(p) \/ EarnRefused(p) \/ EarnPaid(p) \/ Earn(p) \/ Mark(p)

Next ==
    \/ ToggleWallet
    \/ \E p \in Procs :
        \/ Stamp(p) \/ AwardBackfill(p) \/ ProgressBackfill(p) \/ Claim(p)
        \/ Handle(p) \/ Abort(p) \/ Victim(p)

Spec == Init /\ [][Next]_vars

\* Handlers run, lock queues are served in turn, deadlocks are broken.
Fairness ==
    \A p \in Procs : SF_vars(Handle(p)) /\ WF_vars(Victim(p))

FairSpec == Spec /\ Fairness

----------------------------------------------------------------------------
(* Properties                                                              *)

\* A reward is paid for Target distinct stamps: no source is counted twice,
\* by a hook, a retry or a backfill, and no claim slips in before completion.
RewardIsDeserved ==
    wallet.paid => row.completed /\ Cardinality(events) >= Target

\* A claim that answers claimed = True, and the flag it leaves, tell the
\* truth: the EARN is in the ledger, whatever fails between the two COMMITs.
ClaimedIsPaid ==
    /\ granted > 0 => row.claimed
    /\ row.claimed /\ YmReward > 0 => wallet.paid

\* A writer that works from a stale object never takes a completion or a
\* claim back.
NothingUndone ==
    [][/\ row.completed => row'.completed
       /\ row.claimed => row'.claimed]_vars

\* Every request ends: a stamp request that keeps the wallet after an award
\* that wrote nothing, and a claim that waits for it with the challenge locked,
\* may wait for each other, and then one of them gives up.
EveryCallEnds == \A p \in Procs : pc[p] # "idle" ~> pc[p] = "idle"

\* What the sources say, and TLC refutes: once the stamps of the challenge
\* are counted and nothing is under way, it is completed.
CountedIsCompleted ==
    (\A p \in Procs : pc[p] = "idle") /\ Cardinality(events) >= Target =>
        row.completed

----------------------------------------------------------------------------
\* The committed rows, seen as the contract of a challenge.
Contract == INSTANCE ChallengeContract WITH
    counted <- events,
    completed <- row.completed,
    paid <- wallet.paid,
    claimed <- row.claimed

\* Counting, completing, paying and claiming happen in that order, once each.
ImplementsContract == Contract!Spec

=============================================================================
