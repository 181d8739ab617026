---------------------------- MODULE ChallengeProofs ----------------------------
(***************************************************************************)
(* Proofs about ChallengeReward, for any number of sessions and stamps,    *)
(* any target and any reward.                                              *)
(***************************************************************************)
EXTENDS ChallengeInvariant, FiniteSetTheorems, TLAPS

LEMMA InitInv == Init => ChallengeInv
  <1> SUFFICES ASSUME Init PROVE ChallengeInv
    OBVIOUS
  <1>1. TypeOK
    BY ChallengeAssumption
       DEF Init, TypeOK, NoRow, NoTask, Row, Wallet, PCs, Tasks, Locks
  <1>2. IsFiniteSet(events) /\ Cardinality(events) = 0
    BY FS_EmptySet DEF Init
  <1>3. EntryInv /\ PayInv
    BY DEF Init, EntryInv, PayInv, Counting, NoRow
  <1>4. CountInv
    BY <1>2 DEF Init, CountInv, NoRow
  <1> QED BY <1>1, <1>3, <1>4 DEF ChallengeInv

----------------------------------------------------------------------------
(* Steps that leave the rows of the challenge alone                        *)

\* Only the cells of the session p change, and no counted event.
Alone(p) ==
    /\ UNCHANGED <<row, events, granted>>
    /\ wallet' \in Wallet /\ stamps' \subseteq Sources
    /\ wallet.paid => wallet'.paid
    /\ wallet'.paid => row.completed
    /\ pc' \in [Procs -> PCs] /\ task' \in [Procs -> Tasks]
    /\ seen' \in [Procs -> Row] /\ held' \in [Procs -> SUBSET Locks]
    /\ \A q \in Procs \ {p} :
        pc'[q] = pc[q] /\ task'[q] = task[q] /\ seen'[q] = seen[q] /\ held'[q] = held[q]

\* Such a step keeps the invariant if the new cells of p are right.
LEMMA AloneKeeps ==
    ASSUME ChallengeInv, NEW p \in Procs, Alone(p),
           pc'[p] \in Counting => task'[p].source \in Sources,
           seen'[p].progress <= Cardinality(events),
           pc'[p] \in {"earn", "mark"} => row.completed,
           pc'[p] = "mark" => (YmReward > 0 => wallet'.paid),
           pc'[p] \in {"refer", "write"} =>
               /\ "entry" \in held'[p] /\ task'[p].source \notin events
               /\ \A q \in Procs \ {p} : pc[q] \in {"refer", "write"} =>
                     task[q].source # task'[p].source
    PROVE  ChallengeInv'
  <1>1. TypeOK'
    BY DEF ChallengeInv, TypeOK, Alone
  <1>2. EntryInv'
    BY DEF ChallengeInv, EntryInv, Alone
  <1>3. CountInv'
    BY DEF ChallengeInv, CountInv, Alone
  <1>4. PayInv'
    BY DEF ChallengeInv, PayInv, Alone
  <1> QED BY <1>1, <1>2, <1>3, <1>4 DEF ChallengeInv

\* The cells of a session that ended.
LEMMA Left ==
    ASSUME TypeOK, NEW p \in Procs, Leave(p)
    PROVE  /\ pc' \in [Procs -> PCs] /\ task' \in [Procs -> Tasks]
           /\ seen' \in [Procs -> Row] /\ held' \in [Procs -> SUBSET Locks]
           /\ pc'[p] = "idle" /\ seen'[p].progress = 0
           /\ \A q \in Procs \ {p} :
                /\ pc'[q] = pc[q] /\ task'[q] = task[q]
                /\ seen'[q] = seen[q] /\ held'[q] = held[q]
  <1>1. NoRow \in Row /\ NoTask \in Tasks /\ "idle" \in PCs /\ NoRow.progress = 0
    BY ChallengeAssumption DEF NoRow, Row, NoTask, Tasks, PCs
  <1> QED BY <1>1 DEF TypeOK, Leave, Goto, Work, See, Hold

LEMMA LeaveKeeps ==
    ASSUME ChallengeInv, NEW p \in Procs, Leave(p), UNCHANGED <<row, events, granted>>,
           wallet' \in Wallet, stamps' \subseteq Sources,
           wallet.paid => wallet'.paid, wallet'.paid => row.completed
    PROVE  ChallengeInv'
  <1>1. Alone(p) /\ pc'[p] = "idle" /\ seen'[p].progress = 0
    BY Left DEF Alone, ChallengeInv
  <1>2. 0 <= Cardinality(events)
    BY FS_CardinalityType DEF ChallengeInv, CountInv
  <1> QED BY <1>1, <1>2, AloneKeeps DEF Counting

\* A step that moves p to another place, keeping its task and its rows in order.
LEMMA MoveKeeps ==
    ASSUME ChallengeInv, NEW p \in Procs, UNCHANGED <<dbVars, task>>,
           NEW l \in PCs, Goto(p, l),
           NEW r \in Row, See(p, r), r.progress <= Cardinality(events),
           NEW ls \in SUBSET Locks, Hold(p, ls),
           l \in Counting => pc[p] \in Counting,
           l \in {"earn", "mark"} => row.completed,
           l = "mark" => (YmReward > 0 => wallet.paid),
           l \in {"refer", "write"} =>
               /\ "entry" \in ls /\ task[p].source \notin events
               /\ \A q \in Procs \ {p} : pc[q] \in {"refer", "write"} =>
                     task[q].source # task[p].source
    PROVE  ChallengeInv'
  <1>1. /\ pc'[p] = l /\ task'[p] = task[p] /\ seen'[p] = r /\ held'[p] = ls
        /\ pc' \in [Procs -> PCs] /\ seen' \in [Procs -> Row]
        /\ held' \in [Procs -> SUBSET Locks]
        /\ \A q \in Procs \ {p} :
             pc'[q] = pc[q] /\ task'[q] = task[q] /\ seen'[q] = seen[q] /\ held'[q] = held[q]
    BY DEF ChallengeInv, TypeOK, Goto, See, Hold
  <1>2. Alone(p)
    BY <1>1 DEF Alone, dbVars, ChallengeInv, TypeOK, PayInv
  <1>3. l \in Counting => task[p].source \in Sources
    BY DEF ChallengeInv, EntryInv
  <1> QED BY <1>1, <1>2, <1>3, AloneKeeps DEF dbVars

\* What the cells of p hold before the step.
LEMMA Cells ==
    ASSUME ChallengeInv, NEW p \in Procs
    PROVE  /\ seen[p] \in Row /\ seen[p].progress <= Cardinality(events)
           /\ held[p] \in SUBSET Locks /\ pc[p] \in PCs /\ row \in Row
           /\ row.progress <= Cardinality(events)
           /\ wallet \in Wallet /\ stamps \subseteq Sources
           /\ wallet.paid => row.completed
           /\ Cardinality(events) \in Nat
           /\ UNCHANGED seen => See(p, seen[p])
           /\ UNCHANGED held => Hold(p, held[p])
  BY FS_CardinalityType DEF ChallengeInv, TypeOK, CountInv, PayInv, See, Hold

LEMMA StartKeeps ==
    ASSUME ChallengeInv, NEW p \in Procs,
           Stamp(p) \/ AwardBackfill(p) \/ ProgressBackfill(p) \/ Claim(p)
    PROVE  ChallengeInv'
  <1> USE Cells
  <1>1. PICK t \in Tasks : Work(p, t) /\ (pc'[p] # "lock" => t.source \in Sources)
    <2>1. CASE Claim(p)
      <3>1. [kind |-> "claim", source |-> Nil] \in Tasks
        BY DEF Tasks
      <3>2. pc'[p] = "lock"
        BY <2>1 DEF Claim, Goto, ChallengeInv, TypeOK
      <3> QED BY <2>1, <3>1, <3>2 DEF Claim
    <2>2. CASE Stamp(p) \/ AwardBackfill(p) \/ ProgressBackfill(p)
      <3>1. PICK s \in Sources, k \in {"stamp", "award", "progress"} :
              Work(p, [kind |-> k, source |-> s])
        BY <2>2 DEF Stamp, AwardBackfill, ProgressBackfill
      <3>2. [kind |-> k, source |-> s] \in Tasks /\ [kind |-> k, source |-> s].source = s
        BY DEF Tasks
      <3> QED BY <3>1, <3>2
    <2> QED BY <2>1, <2>2
  <1>2. pc' \in [Procs -> PCs] /\ pc'[p] \in {"check", "read", "lock"}
        /\ \A q \in Procs \ {p} : pc'[q] = pc[q]
    BY DEF Stamp, AwardBackfill, ProgressBackfill, Claim, Goto, ChallengeInv, TypeOK,
           PCs
  <1>3. /\ UNCHANGED <<row, events, wallet, granted, seen, held>>
        /\ stamps' \subseteq Sources
    BY DEF Stamp, AwardBackfill, ProgressBackfill, Claim, dbVars
  <1>4. task' \in [Procs -> Tasks] /\ task'[p] = t
        /\ \A q \in Procs \ {p} : task'[q] = task[q]
    BY <1>1 DEF Work, ChallengeInv, TypeOK
  <1>5. Alone(p)
    BY <1>2, <1>3, <1>4 DEF Alone, ChallengeInv, TypeOK
  <1>6. pc'[p] \in Counting => t.source \in Sources
    BY <1>1 DEF Counting
  <1> QED BY <1>2, <1>3, <1>4, <1>5, <1>6, AloneKeeps

----------------------------------------------------------------------------
(* Awards and progress                                                     *)

LEMMA AwardKeeps ==
    ASSUME ChallengeInv, NEW p \in Procs, Check(p) \/ AwardNothing(p) \/ Award(p)
    PROVE  ChallengeInv'
  <1> USE Cells
  <1>1. /\ UNCHANGED <<row, events, stamps, granted>>
        /\ wallet' \in Wallet /\ wallet'.paid = wallet.paid
        /\ pc[p] \in {"check", "award"} /\ task[p].source \in Sources
    <2>1. pc[p] \in {"check", "award"}
      BY DEF Check, AwardNothing, Award
    <2>2. task[p].source \in Sources
      BY <2>1 DEF ChallengeInv, EntryInv, Counting
    <2> QED BY <2>1, <2>2 DEF Check, AwardNothing, Award, dbVars, Wallet
  <1>2. CASE Leave(p)
    BY <1>1, <1>2, LeaveKeeps
  <1>3. CASE ~Leave(p)
    <2>1. PICK l \in {"read", "award"}, ls \in SUBSET Locks :
            Goto(p, l) /\ Hold(p, ls) /\ UNCHANGED <<task, seen>>
      BY <1>3 DEF Check, AwardNothing, Award, Awarded, Locks
    <2>2. Alone(p)
      BY <1>1, <2>1 DEF Alone, Goto, Hold, ChallengeInv, TypeOK, PCs
    <2>3. pc'[p] = l /\ task'[p] = task[p] /\ seen'[p] = seen[p]
      BY <2>1 DEF Goto, ChallengeInv, TypeOK
    <2> QED BY <1>1, <2>2, <2>3, AloneKeeps
  <1> QED BY <1>2, <1>3

LEMMA ProgressKeeps ==
    ASSUME ChallengeInv, NEW p \in Procs, Read(p) \/ Create(p) \/ Look(p)
    PROVE  ChallengeInv'
  <1> USE Cells
  <1>1. UNCHANGED dbVars /\ pc[p] \in Counting
    BY DEF Read, Create, Look, Counting
  <1>2. CASE Leave(p)
    BY <1>1, <1>2, LeaveKeeps DEF dbVars
  <1>3. CASE ~Leave(p)
    <2>1. NewRow \in Row /\ NewRow.progress = 0
      BY ChallengeAssumption DEF NewRow, Row
    <2>2. CASE Read(p)
      BY <1>1, <1>3, <2>1, <2>2, MoveKeeps DEF Read, Loaded, PCs
    <2>3. CASE Create(p)
      <3>1. CASE row.exists
        BY <1>1, <2>3, <3>1, MoveKeeps DEF Create, PCs
      <3>2. CASE ~row.exists
        BY <1>1, <2>1, <2>3, <3>2, MoveKeeps DEF Create, Take, PCs, Locks
      <3> QED BY <3>1, <3>2
    <2>4. CASE Look(p)
      BY <1>1, <1>3, <2>4, MoveKeeps DEF Look, PCs
    <2> QED BY <2>2, <2>3, <2>4
  <1> QED BY <1>2, <1>3

LEMMA InsertKeeps ==
    ASSUME ChallengeInv, NEW p \in Procs, Insert(p) \/ Refer(p)
    PROVE  ChallengeInv'
  <1> USE Cells
  <1>1. UNCHANGED dbVars /\ pc[p] \in Counting
    BY DEF Insert, Refer, Counting
  <1>2. CASE Leave(p)
    BY <1>1, <1>2, LeaveKeeps DEF dbVars
  <1>3. CASE Insert(p) /\ ~Leave(p)
    <2>1. /\ Take(p, "entry") /\ Goto(p, "refer") /\ UNCHANGED <<task, seen>>
          /\ task[p].source \notin events
      BY <1>3 DEF Insert
    <2>2. \A q \in Procs \ {p} : "entry" \in held[q] => task[q].source # task[p].source
      BY <1>3 DEF Insert, Free, Blockers, SameEvent, Others
    <2>3. \A q \in Procs \ {p} : pc[q] \in {"refer", "write"} =>
            task[q].source # task[p].source
      BY <2>2 DEF ChallengeInv, EntryInv
    <2> QED BY <1>1, <2>1, <2>3, MoveKeeps DEF Take, PCs, Locks
  <1>4. CASE Refer(p)
    <2>1. /\ Take(p, "share") /\ Goto(p, "write") /\ UNCHANGED <<task, seen>>
          /\ pc[p] = "refer"
      BY <1>4 DEF Refer
    <2>2. /\ "entry" \in held[p] /\ task[p].source \notin events
          /\ \A q \in Procs \ {p} : pc[q] \in {"refer", "write"} =>
               task[q].source # task[p].source
      BY <2>1 DEF ChallengeInv, EntryInv
    <2> QED BY <1>1, <2>1, <2>2, MoveKeeps DEF Take, PCs, Locks
  <1> QED BY <1>2, <1>3, <1>4

\* What the COMMIT of a counted source does to the rows.
LEMMA WriteEffect ==
    ASSUME ChallengeInv, NEW p \in Procs, Write(p)
    PROVE  /\ task[p].source \in Sources \ events
           /\ events' = events \cup {task[p].source} /\ IsFiniteSet(events')
           /\ Cardinality(events') = Cardinality(events) + 1
           /\ row' \in Row /\ row'.claimed = row.claimed
           /\ row'.progress <= Cardinality(events')
           /\ row.completed => row'.completed
           /\ row'.completed => Cardinality(events') >= Target
           /\ Leave(p) /\ UNCHANGED <<stamps, wallet, granted>>
  <1> USE Cells
  <1> DEFINE n == IF seen[p].progress < Target THEN seen[p].progress + 1 ELSE Target
  <1>1. task[p].source \in Sources \ events
    BY DEF Write, ChallengeInv, EntryInv, Counting
  <1>2. /\ events' = events \cup {task[p].source}
        /\ row' = [exists |-> TRUE, progress |-> n,
                   completed |-> row.completed \/ n >= Target, claimed |-> row.claimed]
        /\ Leave(p) /\ UNCHANGED <<stamps, wallet, granted>>
    BY DEF Write
  <1>3. IsFiniteSet(events') /\ Cardinality(events') = Cardinality(events) + 1
    BY <1>1, <1>2, FS_AddElement DEF ChallengeInv, CountInv
  <1>4. n \in 0 .. Target /\ n <= Cardinality(events) + 1
    BY ChallengeAssumption DEF Row
  <1>5. row' \in Row
    BY <1>2, <1>4 DEF Row
  <1>6. row'.progress = n /\ row'.claimed = row.claimed
        /\ (row'.completed <=> row.completed \/ n >= Target)
    BY <1>2
  <1>7. row'.completed => Cardinality(events') >= Target
    BY <1>3, <1>4, <1>6, ChallengeAssumption DEF ChallengeInv, CountInv
  <1> QED BY <1>1, <1>2, <1>3, <1>4, <1>5, <1>6, <1>7

LEMMA WriteKeeps ==
    ASSUME ChallengeInv, NEW p \in Procs, Write(p)
    PROVE  ChallengeInv'
  <1> USE WriteEffect, Left, Cells
  <1>0. TypeOK /\ pc[p] = "write"
    BY DEF ChallengeInv, Write
  <1>1. TypeOK'
    BY <1>0 DEF TypeOK
  <1>2. EntryInv'
    <2>1. \A q \in Procs \ {p} : pc[q] \in {"refer", "write"} =>
            task[q].source # task[p].source
      BY <1>0 DEF ChallengeInv, EntryInv
    <2> QED BY <1>0, <2>1 DEF ChallengeInv, EntryInv, Counting
  <1>3. CountInv'
    <2>1. \A q \in Procs : seen[q].progress \in Nat
      BY <1>0, ChallengeAssumption DEF TypeOK, Row
    <2> QED BY <1>0, <2>1 DEF ChallengeInv, CountInv
  <1>4. PayInv'
    BY <1>0 DEF ChallengeInv, PayInv
  <1> QED BY <1>1, <1>2, <1>3, <1>4 DEF ChallengeInv

----------------------------------------------------------------------------
(* Claims                                                                  *)

LEMMA ClaimKeeps ==
    ASSUME ChallengeInv, NEW p \in Procs,
           LockRow(p) \/ EarnRefused(p) \/ EarnPaid(p)
    PROVE  ChallengeInv'
  <1> USE Cells
  <1>1. UNCHANGED dbVars
    BY DEF LockRow, EarnRefused, EarnPaid
  <1>2. CASE Leave(p)
    BY <1>1, <1>2, LeaveKeeps DEF dbVars
  <1>3. CASE LockRow(p) /\ ~Leave(p)
    <2>1. /\ row.completed /\ Take(p, "excl") /\ UNCHANGED <<task, seen>>
          /\ Goto(p, IF YmReward > 0 THEN "earn" ELSE "mark")
      BY <1>3 DEF LockRow
    <2>2. CASE YmReward > 0
      BY <1>1, <2>1, <2>2, MoveKeeps DEF Take, PCs, Locks, Counting
    <2>3. CASE ~(YmReward > 0)
      BY <1>1, <2>1, <2>3, MoveKeeps DEF Take, PCs, Locks, Counting
    <2> QED BY <2>2, <2>3
  <1>4. CASE EarnPaid(p)
    <2>1. /\ wallet.paid /\ Take(p, "wallet") /\ UNCHANGED <<task, seen>>
          /\ Goto(p, "mark")
      BY <1>4 DEF EarnPaid
    <2> QED BY <1>1, <2>1, MoveKeeps DEF Take, PCs, Locks, Counting
  <1> QED BY <1>2, <1>3, <1>4 DEF EarnRefused

\* The COMMIT of earn pays a completed challenge.
LEMMA EarnEffect ==
    ASSUME ChallengeInv, NEW p \in Procs, Earn(p)
    PROVE  /\ row.completed /\ ~wallet.paid /\ wallet'.paid /\ wallet' \in Wallet
           /\ UNCHANGED <<row, events, stamps, granted>>
  BY Cells DEF Earn, ChallengeInv, PayInv, Wallet

LEMMA EarnKeeps ==
    ASSUME ChallengeInv, NEW p \in Procs, Earn(p)
    PROVE  ChallengeInv'
  <1> USE Cells, EarnEffect
  <1>1. Goto(p, "mark") /\ Hold(p, {}) /\ UNCHANGED <<task, seen>>
    BY DEF Earn
  <1>2. Alone(p)
    BY <1>1 DEF Alone, Goto, Hold, ChallengeInv, TypeOK, PCs, Locks
  <1>3. pc'[p] = "mark"
    BY <1>1 DEF Goto, ChallengeInv, TypeOK
  <1> QED BY <1>1, <1>2, <1>3, AloneKeeps DEF Counting

\* A claim marks a challenge that is completed, and paid if it is worth it.
LEMMA MarkEffect ==
    ASSUME ChallengeInv, NEW p \in Procs, Mark(p)
    PROVE  /\ row.completed /\ (YmReward > 0 => wallet.paid)
           /\ row' = [row EXCEPT !.claimed = TRUE]
           /\ row' \in Row /\ row'.claimed /\ row'.completed = row.completed
           /\ row'.progress = row.progress
           /\ Leave(p) /\ UNCHANGED <<events, stamps, wallet>>
           /\ granted' = granted + 1
  BY Cells DEF Mark, ChallengeInv, PayInv, Row

LEMMA MarkKeeps ==
    ASSUME ChallengeInv, NEW p \in Procs, Mark(p)
    PROVE  ChallengeInv'
  <1> USE MarkEffect, Left, Cells
  <1>1. TypeOK
    BY DEF ChallengeInv
  <1>2. TypeOK'
    BY <1>1 DEF TypeOK
  <1>3. EntryInv'
    BY <1>1 DEF ChallengeInv, EntryInv, Counting
  <1>4. CountInv'
    BY <1>1 DEF ChallengeInv, CountInv
  <1>5. PayInv'
    BY <1>1 DEF ChallengeInv, PayInv
  <1> QED BY <1>2, <1>3, <1>4, <1>5 DEF ChallengeInv

----------------------------------------------------------------------------
(* The invariant                                                           *)

LEMMA ToggleKeeps ==
    ASSUME ChallengeInv, ToggleWallet
    PROVE  ChallengeInv'
  <1>1. wallet' \in Wallet /\ wallet'.paid = wallet.paid
    BY DEF ToggleWallet, ChallengeInv, TypeOK, Wallet
  <1>2. UNCHANGED <<row, events, stamps, granted, pc, task, seen, held>>
    BY DEF ToggleWallet
  <1> QED BY <1>1, <1>2 DEF ChallengeInv, TypeOK, EntryInv, CountInv, PayInv

LEMMA StepInv == ChallengeInv /\ [Next]_vars => ChallengeInv'
  <1> SUFFICES ASSUME ChallengeInv, [Next]_vars PROVE ChallengeInv'
    OBVIOUS
  <1>1. CASE UNCHANGED vars
    BY <1>1 DEF vars, ChallengeInv, TypeOK, EntryInv, CountInv, PayInv
  <1>2. CASE ToggleWallet
    BY <1>2, ToggleKeeps
  <1>3. ASSUME NEW p \in Procs,
               \/ Stamp(p) \/ AwardBackfill(p) \/ ProgressBackfill(p) \/ Claim(p)
               \/ Handle(p) \/ Abort(p) \/ Victim(p)
        PROVE  ChallengeInv'
    <2>1. CASE Stamp(p) \/ AwardBackfill(p) \/ ProgressBackfill(p) \/ Claim(p)
      BY <2>1, StartKeeps
    <2>2. CASE Abort(p) \/ Victim(p)
      BY <2>2, LeaveKeeps, Cells DEF Abort, Victim, dbVars
    <2>3. CASE Check(p) \/ AwardNothing(p) \/ Award(p)
      BY <2>3, AwardKeeps
    <2>4. CASE Read(p) \/ Create(p) \/ Look(p)
      BY <2>4, ProgressKeeps
    <2>5. CASE Insert(p) \/ Refer(p)
      BY <2>5, InsertKeeps
    <2>6. CASE Write(p)
      BY <2>6, WriteKeeps
    <2>7. CASE LockRow(p) \/ EarnRefused(p) \/ EarnPaid(p)
      BY <2>7, ClaimKeeps
    <2>8. CASE Earn(p)
      BY <2>8, EarnKeeps
    <2>9. CASE Mark(p)
      BY <2>9, MarkKeeps
    <2> QED BY <1>3, <2>1, <2>2, <2>3, <2>4, <2>5, <2>6, <2>7, <2>8, <2>9 DEF Handle
  <1> QED BY <1>1, <1>2, <1>3 DEF Next

LEMMA ChallengeAlways == Spec => []ChallengeInv
  BY InitInv, StepInv, PTL DEF Spec

----------------------------------------------------------------------------
(* Theorems                                                                *)

\* The rows of a challenge are well typed; progress stays within 0 .. Target.
THEOREM ChallengeTypeCorrect == Spec => []TypeOK
  BY ChallengeAlways, PTL DEF ChallengeInv

\* A paid reward stands for Target distinct stamps.
THEOREM RewardDeserved == Spec => []RewardIsDeserved
  <1>1. ChallengeInv => RewardIsDeserved
    BY DEF ChallengeInv, CountInv, PayInv, RewardIsDeserved
  <1> QED BY <1>1, ChallengeAlways, PTL

\* A claim that succeeded has been paid.
THEOREM ClaimPaid == Spec => []ClaimedIsPaid
  <1>1. ChallengeInv => ClaimedIsPaid
    BY DEF ChallengeInv, PayInv, ClaimedIsPaid
  <1> QED BY <1>1, ChallengeAlways, PTL

\* Every other step leaves the rows of the challenge and its reward alone.
LEMMA OtherSteps ==
    ASSUME ChallengeInv, [Next]_vars,
           \A p \in Procs : ~Write(p) /\ ~Earn(p) /\ ~Mark(p)
    PROVE  UNCHANGED <<row, events>> /\ wallet'.paid = wallet.paid
  <1>1. wallet \in Wallet
    BY DEF ChallengeInv, TypeOK
  <1>2. CASE UNCHANGED vars
    BY <1>2 DEF vars
  <1>3. CASE ToggleWallet
    BY <1>1, <1>3 DEF ToggleWallet, Wallet
  <1>4. ASSUME NEW p \in Procs,
               \/ Stamp(p) \/ AwardBackfill(p) \/ ProgressBackfill(p) \/ Claim(p)
               \/ Handle(p) \/ Abort(p) \/ Victim(p)
        PROVE  UNCHANGED <<row, events>> /\ wallet'.paid = wallet.paid
    <2>1. CASE Award(p)
      BY <1>1, <2>1 DEF Award, Wallet
    <2>2. CASE ~Award(p)
      BY <1>4, <2>2 DEF Stamp, AwardBackfill, ProgressBackfill, Claim, Handle, Abort,
        Victim, Check, AwardNothing, Read, Create, Look, Insert, Refer, LockRow,
        EarnRefused, EarnPaid, dbVars
    <2> QED BY <2>1, <2>2
  <1> QED BY <1>2, <1>3, <1>4 DEF Next

\* Stale writers take nothing back.
THEOREM NothingIsUndone == Spec => NothingUndone
  <1> DEFINE Kept == /\ row.completed => row'.completed
                     /\ row.claimed => row'.claimed
  <1>1. ChallengeInv /\ [Next]_vars => [Kept]_vars
    <2> SUFFICES ASSUME ChallengeInv, [Next]_vars PROVE Kept
      OBVIOUS
    <2>1. CASE \E p \in Procs : Write(p)
      BY <2>1, WriteEffect
    <2>2. CASE \E p \in Procs : Earn(p)
      BY <2>2, EarnEffect
    <2>3. CASE \E p \in Procs : Mark(p)
      BY <2>3, MarkEffect
    <2>4. CASE \A p \in Procs : ~Write(p) /\ ~Earn(p) /\ ~Mark(p)
      BY <2>4, OtherSteps
    <2> QED BY <2>1, <2>2, <2>3, <2>4
  <1> QED BY <1>1, ChallengeAlways, PTL DEF Spec, NothingUndone

\* The contract counts as this module does.
LEMMA SameCardinality ==
    ASSUME NEW S PROVE Contract!Cardinality(S) = Cardinality(S)
  BY Zenon DEF Cardinality, Contract!Cardinality

\* Counting, completing, paying and claiming keep to the contract.
THEOREM ImplementsTheContract == Spec => ImplementsContract
  <1>1. Init => Contract!Init
    BY DEF Init, NoRow, Contract!Init
  <1>2. ChallengeInv /\ [Next]_vars => [Contract!Next]_(Contract!vars)
    <2> SUFFICES ASSUME ChallengeInv, [Next]_vars
                 PROVE  Contract!Next \/ UNCHANGED Contract!vars
      OBVIOUS
    <2>1. ASSUME NEW p \in Procs, Write(p) PROVE Contract!Next
      <3>1. row'.completed \in BOOLEAN
        BY <2>1, WriteEffect DEF Row
      <3>2. \E s \in Sources \ events : events' = events \cup {s}
        BY <2>1, WriteEffect
      <3>3. /\ row.completed => row'.completed
            /\ row'.completed => Cardinality(events') >= Target
            /\ wallet' = wallet /\ row'.claimed = row.claimed
        BY <2>1, WriteEffect
      <3>4. wallet'.paid = wallet.paid
        BY <3>3
      <3>5. Contract!Count
        BY <3>1, <3>2, <3>3, <3>4, SameCardinality, Zenon DEF Contract!Count
      <3> QED BY <3>5, Zenon DEF Contract!Next
    <2>2. ASSUME NEW p \in Procs, Earn(p) PROVE Contract!Next
      <3>1. wallet'.paid = TRUE
        BY <2>2, EarnEffect DEF Earn, Wallet
      <3> QED BY <2>2, <3>1, EarnEffect DEF Contract!Next, Contract!Pay
    <2>3. ASSUME NEW p \in Procs, Mark(p)
          PROVE  Contract!Next \/ UNCHANGED Contract!vars
      <3>1. row'.claimed = TRUE /\ row'.completed = row.completed
            /\ row.claimed \in BOOLEAN
        BY <2>3, MarkEffect, Cells DEF Row
      <3>2. /\ row.completed /\ (YmReward > 0 => wallet.paid)
            /\ UNCHANGED <<events, wallet>>
        BY <2>3, MarkEffect
      <3>3. CASE row.claimed
        BY <3>1, <3>2, <3>3 DEF Contract!vars
      <3>4. CASE ~row.claimed
        BY <3>1, <3>2, <3>4 DEF Contract!Next, Contract!Grant
      <3> QED BY <3>3, <3>4
    <2>4. CASE \A p \in Procs : ~Write(p) /\ ~Earn(p) /\ ~Mark(p)
      BY <2>4, OtherSteps DEF Contract!vars
    <2> QED BY <2>1, <2>2, <2>3, <2>4
  <1> QED BY <1>1, <1>2, ChallengeAlways, PTL DEF Spec, ImplementsContract,
             Contract!Spec

=============================================================================
