------------------------- MODULE RotationCalmProofs -------------------------
(***************************************************************************)
(* For every number of tokens and requests.  Under Locked, which lets       *)
(* commits be lost: the pending entry acts as a lock on a token (LockInv),  *)
(* hence a family rotates one token at a time (FamilyInv), and the table    *)
(* refines TokenChain.  Under Calm, a reuse is reported only after the      *)
(* replay window (ReuseInv).                                                *)
(***************************************************************************)
EXTENDS RotationProofs

(* What the writes to Redis do, once their encoding is forgotten.          *)

\* The two outcomes of a claim.
Claimed(r, t) ==
    /\ \A x \in Tokens \ {t} : entry'[x] = entry[x]
    /\ \/ /\ entry[t].kind = "none"
          /\ entry'[t].kind = "pending"
          /\ Goto(r, "read")
       \/ /\ entry[t].kind # "none"
          /\ entry'[t].kind = entry[t].kind
          /\ Goto(r, "await")
    /\ UNCHANGED <<rows, clocks, closed>>

LEMMA DiscardEffect ==
    ASSUME TypeOK, Locked, NEW t \in Tokens, Discard(t)
    PROVE  /\ entry'[t].kind = "none"
           /\ \A x \in Tokens \ {t} : entry'[x] = entry[x]
BY DEF TypeOK, Locked, Discard, NoEntry

LEMMA ClaimEffect ==
    ASSUME TypeOK, NEW r \in Reqs, NEW t \in Tokens, TryClaim(r, t)
    PROVE  Claimed(r, t)
<1>1. CASE entry[t].kind = "none"
  BY <1>1 DEF TypeOK, TryClaim, Pending, Claimed
<1>2. CASE entry[t].kind # "none"
  BY <1>2 DEF TryClaim, Claimed
<1> QED BY <1>1, <1>2

LEMMA PublishEffect ==
    ASSUME TypeOK, Locked, NEW r \in Reqs, tok[r] \in Tokens, RotatePublish(r)
    PROVE  /\ entry'[tok[r]].kind = "fresh"
           /\ \A x \in Tokens \ {tok[r]} : entry'[x] = entry[x]
BY DEF TypeOK, Locked, RotatePublish, Fresh

\* A token that has a published successor is revoked.
LEMMA RotatedTokenDead ==
    ASSUME SafetyInv, NEW t \in Tokens, entry[t].kind \in {"fresh", "stale"}
    PROVE  status[t] # "live"
<1>1. entry[t].succ \in Tokens /\ parent[entry[t].succ] = t
  BY DEF SafetyInv, TypeInv, TypeOK, Entry, HandoverInv,
     ReplayGivesOwnSuccessor
<1> QED BY <1>1, RotationAssumption DEF SafetyInv, HandoverInv, ConsumedForGood

-----------------------------------------------------------------------------
(* Under Locked, the pending entry is a lock on the token.                 *)

LEMMA CalmIsLocked == Calm => Locked
BY DEF Calm, Locked

LEMMA LockedExcludes ==
    ASSUME Locked
    PROVE  /\ ~ToggleActive
           /\ \A r \in Reqs : /\ ~Logout(r) /\ ~RedisDegraded(r) /\ ~RotateError(r)
                             /\ ~ReplayError(r) /\ ~Crash(r)
BY DEF Locked, ToggleActive, Logout, RedisDegraded, RotateError, ReplayError, Crash

LEMMA CalmExcludes ==
    ASSUME Calm
    PROVE  ~ToggleActive /\ \A r \in Reqs : ~Logout(r) /\ ~Fault(r)
BY DEF Calm, ToggleActive, Logout, Fault, RedisDegraded, RotateError,
       RotateCommitLost, ReplayError, Crash

LEMMA LockInit == Init => LockInv
BY RotationAssumption
   DEF Init, LockInv, WriterAlone, ReaderAlone, FailsOnDeadToken,
       WaitersHaveOwner, ClaimReleased, SingleSuccessor, NoEntry, Failing

LEMMA LockStep ==
    ASSUME Locked, SafetyInv, LockInv, [Next]_vars
    PROVE  LockInv'
<1> USE RotationAssumption
    DEF SafetyInv, HandoverInv, TypeInv, TypeOK, RequestsWellFormed, LockInv
<1>1. ASSUME Login PROVE LockInv'
  <2>1. active' /\ WriterAlone' /\ ReaderAlone' /\ FailsOnDeadToken'
       /\ WaitersHaveOwner' /\ ClaimReleased'
    BY <1>1 DEF Login, Unused, clocks, locals, WriterAlone, Contends,
       HasSuccessor, Failing, ReaderAlone, FailsOnDeadToken, WaitersHaveOwner,
       ClaimReleased, Working, Rotating
  <2>2. SingleSuccessor'
    BY <1>1 DEF Login, Unused, clocks, locals, SingleSuccessor
  <2> QED BY <2>1, <2>2
<1>2. ASSUME NEW r \in Reqs, Refresh(r) PROVE LockInv'
  <2>1. PICK t \in Tokens : Presented(r, t) /\ TryClaim(r, t)
    BY <1>2 DEF Refresh
  <2>2. Claimed(r, t)
    BY <2>1, ClaimEffect
  <2>3. active' /\ WriterAlone'
    BY <2>1, <2>2 DEF Presented, Goto, rows, clocks, WriterAlone,
       Contends, HasSuccessor, Failing, Claimed
  <2>4. ReaderAlone' /\ FailsOnDeadToken'
    BY <2>1, <2>2 DEF Presented, Goto, rows, clocks, ReaderAlone,
       Contends, Failing, WriterAlone, FailsOnDeadToken, HasSuccessor, Claimed
  <2>5. WaitersHaveOwner'
    BY <2>1, <2>2 DEF Presented, Goto, rows, clocks, WaitersHaveOwner,
       Claimed
  <2>6. ClaimReleased'
    BY <2>1, <2>2 DEF Presented, Goto, rows, clocks, ClaimReleased,
       Working, Rotating, Failing, Claimed
  <2>7. SingleSuccessor'
    BY <2>1, <2>2 DEF Presented, Goto, rows, clocks, SingleSuccessor,
       Claimed
  <2> QED BY <2>3, <2>4, <2>5, <2>6, <2>7
<1>3. ASSUME NEW r \in Reqs, Reset(r) PROVE LockInv'
  BY <1>3 DEF Reset, Goto, Revoking, rows, clocks, WriterAlone,
     Contends, HasSuccessor, Failing, ReaderAlone, FailsOnDeadToken,
     WaitersHaveOwner, ClaimReleased, Working, Rotating, SingleSuccessor
<1>4. ASSUME NEW r \in Reqs, Reclaim(r) PROVE LockInv'
  <2>1. Claimed(r, tok[r])
    BY <1>4, ClaimEffect DEF Reclaim
  <2>2. active' /\ WriterAlone'
    BY <1>4, <2>1 DEF Reclaim, Goto, rows, clocks, WriterAlone,
       Contends, HasSuccessor, Failing, Claimed
  <2>3. ReaderAlone'
    BY <1>4, <2>1 DEF Reclaim, Goto, rows, clocks, ReaderAlone,
       Contends, Failing, WriterAlone, FailsOnDeadToken, Claimed
  <2>4. FailsOnDeadToken'
    BY <1>4, <2>1 DEF Reclaim, Goto, rows, clocks, FailsOnDeadToken,
       HasSuccessor, Failing, Claimed
  <2>5. WaitersHaveOwner' /\ ClaimReleased'
    BY <1>4, <2>1 DEF Reclaim, Goto, rows, clocks, WaitersHaveOwner,
       ClaimReleased, Working, Rotating, Failing, Claimed
  <2>6. SingleSuccessor'
    BY <1>4, <2>1 DEF Reclaim, Goto, rows, clocks, SingleSuccessor,
       Claimed
  <2> QED BY <2>2, <2>3, <2>4, <2>5, <2>6
<1>5. ASSUME NEW r \in Reqs, AwaitVanished(r) PROVE LockInv'
  BY <1>5 DEF AwaitVanished, Goto, rows, clocks, WriterAlone,
     Contends, HasSuccessor, Failing, ReaderAlone, WaitersHaveOwner,
     FailsOnDeadToken, ClaimReleased, Working, Rotating, SingleSuccessor
<1>6. ASSUME NEW r \in Reqs, AwaitResult(r) PROVE LockInv'
  BY <1>6 DEF AwaitResult, Goto, rows, clocks, WriterAlone, Contends,
     HasSuccessor, Failing, ReaderAlone, FailsOnDeadToken, WaitersHaveOwner,
     ClaimReleased, Working, Rotating, SingleSuccessor
<1>7. ASSUME NEW r \in Reqs, AwaitStale(r) PROVE LockInv'
  <2>1. status[tok[r]] # "live"
    BY <1>7, RotatedTokenDead DEF AwaitStale
  <2> QED BY <1>7, <2>1 DEF AwaitStale, Stay, Goto, rows, clocks,
     WriterAlone, Contends, HasSuccessor, Failing, ReaderAlone,
     FailsOnDeadToken, WaitersHaveOwner, ClaimReleased, Working, Rotating,
     SingleSuccessor
<1>8. ASSUME NEW r \in Reqs, AwaitTimeout(r) PROVE LockInv'
  <2>1. FALSE
    BY <1>8 DEF AwaitTimeout, Locked, ClaimReleased
  <2> QED BY <2>1
<1>9. ASSUME NEW r \in Reqs, RotateRead(r) PROVE LockInv'
  <2>1. active' /\ WriterAlone' /\ ReaderAlone' /\ FailsOnDeadToken'
       /\ WaitersHaveOwner' /\ ClaimReleased'
    BY <1>9 DEF RotateRead, Stay, Goto, rows, clocks, WriterAlone,
       Contends, HasSuccessor, Failing, ReaderAlone, ConsumedForGood,
       FailsOnDeadToken, WaitersHaveOwner, ClaimReleased, Working, Rotating
  <2>2. SingleSuccessor'
    BY <1>9 DEF RotateRead, Stay, Goto, rows, clocks, SingleSuccessor
  <2> QED BY <2>1, <2>2
<1>10. ASSUME NEW r \in Reqs, RotateWrite(r) PROVE LockInv'
  BY <1>10 DEF RotateWrite, Unused, Goto, rows, clocks, WriterAlone,
     Contends, HasSuccessor, Failing, ReaderAlone, FailsOnDeadToken,
     WaitersHaveOwner, ClaimReleased, Working, Rotating, SingleSuccessor
<1>11. ASSUME NEW r \in Reqs, RotateCommit(r) PROVE LockInv'
  <2>1. /\ succ[r] \in Tokens /\ tok[r] \in Tokens /\ tok[r] # succ[r]
        /\ \A q \in Reqs : pc[q] \notin {"idle", "resetApply"} =>
                tok[q] # succ[r]
    BY <1>11 DEF RotateCommit, CommitRotation, InsertsReserved
  <2>2. active' /\ WriterAlone' /\ ReaderAlone'
    BY <1>11, <2>1 DEF RotateCommit, CommitRotation, Stay, Goto, clocks, WriterAlone, Contends, HasSuccessor, Failing, ReaderAlone
  <2>3. WaitersHaveOwner'
    BY <1>11, <2>1 DEF RotateCommit, CommitRotation, Stay, Goto, clocks, WaitersHaveOwner
  <2>4. ClaimReleased' /\ SingleSuccessor'
    BY <1>11, <2>1 DEF RotateCommit, CommitRotation, Stay, Goto, clocks, ClaimReleased, Working, Rotating, Failing, SingleSuccessor,
       WriterAlone, HasSuccessor, InsertsReserved, RowsWellFormed
  <2>5. FailsOnDeadToken'
    <3>1. ASSUME NEW p \in Reqs, pc'[p] \in Failing
          PROVE  status'[tok'[p]] # "live"
      BY <1>11, <2>1, <3>1 DEF RotateCommit, CommitRotation, Stay, Goto,
         Failing, FailsOnDeadToken
    <3>2. ASSUME NEW p \in Reqs, pc'[p] = "replayDiscard"
          PROVE  HasSuccessor(tok[p])'
      <4>1. PICK u \in Tokens : parent[u] = tok[p]
        BY <1>11, <3>2 DEF RotateCommit, CommitRotation, Stay, Goto,
           FailsOnDeadToken, HasSuccessor
      <4>2. u # succ[r]
        BY <1>11, <3>2, <4>1 DEF RotateCommit, CommitRotation, Stay, Goto,
           InsertsReserved, RowsWellFormed
      <4> QED BY <1>11, <4>1, <4>2 DEF RotateCommit, CommitRotation, Stay,
                 HasSuccessor
    <3> QED BY <3>1, <3>2 DEF FailsOnDeadToken
  <2> QED BY <2>2, <2>3, <2>4, <2>5
<1>12. ASSUME NEW r \in Reqs, RotatePublish(r) PROVE LockInv'
  <2>1. /\ entry'[tok[r]].kind = "fresh"
        /\ \A x \in Tokens \ {tok[r]} : entry'[x] = entry[x]
    BY <1>12, PublishEffect DEF RotatePublish
  <2>2. active'
    BY <1>12, <2>1 DEF RotatePublish, Answer, Forget, Goto, rows, clocks
  <2>3. WriterAlone'
    BY <1>12, <2>1 DEF RotatePublish, Answer, Forget, Goto, rows, clocks, WriterAlone, Contends, HasSuccessor, Failing,
       ReplayGivesOwnSuccessor
  <2>4. ReaderAlone' /\ FailsOnDeadToken'
    BY <1>12, <2>1 DEF RotatePublish, Answer, Forget, Goto, rows, clocks, ReaderAlone, Contends, Failing, ReplayGivesOwnSuccessor,
       ConsumedForGood, FailsOnDeadToken, HasSuccessor
  <2>5. WaitersHaveOwner'
    BY <1>12, <2>1 DEF RotatePublish, Answer, Forget, Goto, rows, clocks, WaitersHaveOwner
  <2>6. ClaimReleased' /\ SingleSuccessor'
    BY <1>12, <2>1 DEF RotatePublish, Answer, Forget, Goto, rows, clocks, ClaimReleased, Working, Rotating, Failing, SingleSuccessor
  <2> QED BY <2>2, <2>3, <2>4, <2>5, <2>6
<1>13. ASSUME NEW r \in Reqs, ReuseDiscard(r) PROVE LockInv'
  <2>1. /\ entry'[tok[r]].kind = "none"
        /\ \A x \in Tokens \ {tok[r]} : entry'[x] = entry[x]
    BY <1>13, DiscardEffect DEF ReuseDiscard
  <2>2. active'
    BY <1>13, <2>1 DEF ReuseDiscard, Stay, Goto, rows, clocks
  <2>3. WriterAlone'
    BY <1>13, <2>1 DEF ReuseDiscard, Stay, Goto, rows, clocks,
       WriterAlone, Contends, HasSuccessor, Failing
  <2>4. FailsOnDeadToken'
    BY <1>13, <2>1 DEF ReuseDiscard, Stay, Goto, rows, clocks,
       FailsOnDeadToken, HasSuccessor, Failing
  <2>5. ClaimReleased'
    BY <1>13, <2>1 DEF ReuseDiscard, Stay, Goto, rows, clocks,
       ClaimReleased, Working, Rotating, Failing
  <2>6. SingleSuccessor'
    BY <1>13, <2>1 DEF ReuseDiscard, Stay, Goto, rows, clocks,
       SingleSuccessor
  <2>7. ReaderAlone'
    BY <1>13, <2>1 DEF ReuseDiscard, Stay, Goto, rows, clocks,
       ReaderAlone, Contends, Failing, FailsOnDeadToken
  <2>8. WaitersHaveOwner'
    BY <1>13, <2>1 DEF ReuseDiscard, Stay, Goto, rows, clocks,
       WaitersHaveOwner, FailsOnDeadToken, Failing
  <2> QED BY <2>2, <2>3, <2>4, <2>5, <2>6, <2>7, <2>8
<1>14. ASSUME NEW r \in Reqs, RevokeSnapshot(r) PROVE LockInv'
  BY <1>14 DEF RevokeSnapshot, Goto, rows, clocks, WriterAlone,
     Contends, HasSuccessor, Failing, ReaderAlone, FailsOnDeadToken,
     WaitersHaveOwner, ClaimReleased, Working, Rotating, SingleSuccessor
<1>15. ASSUME NEW r \in Reqs, RevokeApply(r) PROVE LockInv'
  <2>1. active' /\ WriterAlone' /\ ReaderAlone' /\ FailsOnDeadToken'
    BY <1>15 DEF RevokeApply, RevokeHit, Stay, Goto, clocks, WriterAlone,
       Contends, HasSuccessor, Failing, ReaderAlone, FailsOnDeadToken
  <2>2. WaitersHaveOwner' /\ ClaimReleased' /\ SingleSuccessor'
    BY <1>15 DEF RevokeApply, RevokeHit, Stay, Goto, clocks, WaitersHaveOwner,
       ClaimReleased, Working, Rotating, Failing, SingleSuccessor
  <2> QED BY <2>1, <2>2
<1>16. ASSUME NEW r \in Reqs, RefreshFails(r) PROVE LockInv'
  <2>1. /\ entry'[tok[r]].kind = "none"
        /\ \A x \in Tokens \ {tok[r]} : entry'[x] = entry[x]
    BY <1>16, DiscardEffect DEF RefreshFails
  <2>2. active' /\ WriterAlone'
    BY <1>16, <2>1 DEF RefreshFails, Answer, Forget, Goto, rows, clocks, WriterAlone, Contends, HasSuccessor, Failing
  <2>3. ReaderAlone' /\ FailsOnDeadToken'
    BY <1>16, <2>1 DEF RefreshFails, Answer, Forget, Goto, rows, clocks, ReaderAlone, Contends, Failing, FailsOnDeadToken, HasSuccessor
  <2>4. WaitersHaveOwner'
    BY <1>16, <2>1 DEF RefreshFails, Answer, Forget, Goto, rows, clocks, WaitersHaveOwner, FailsOnDeadToken, Failing
  <2>5. ClaimReleased'
    BY <1>16, <2>1 DEF RefreshFails, Answer, Forget, Goto, rows, clocks, ClaimReleased, Working, Rotating, Failing
  <2>6. SingleSuccessor'
    BY <1>16, <2>1 DEF RefreshFails, Answer, Forget, Goto, rows, clocks, SingleSuccessor
  <2> QED BY <2>2, <2>3, <2>4, <2>5, <2>6
<1>17. ASSUME NEW r \in Reqs, ReplayRead(r) PROVE LockInv'
  <2>1. active' /\ WriterAlone'
    BY <1>17 DEF ReplayRead, Stay, Answer, Forget, Goto, rows, clocks,
       WriterAlone, Contends, HasSuccessor, Failing
  <2>2. ReaderAlone'
    BY <1>17 DEF ReplayRead, Stay, Answer, Forget, Goto, rows, clocks,
       ReaderAlone, Contends, Failing
  <2>3. FailsOnDeadToken' /\ WaitersHaveOwner'
    BY <1>17 DEF ReplayRead, Stay, Answer, Forget, Goto, rows, clocks,
       FailsOnDeadToken, HasSuccessor, Failing, ReplayGivesOwnSuccessor,
       WaitersHaveOwner
  <2>4. ClaimReleased' /\ SingleSuccessor'
    BY <1>17 DEF ReplayRead, Stay, Answer, Forget, Goto, rows, clocks,
       ClaimReleased, Working, Rotating, Failing, SingleSuccessor
  <2> QED BY <2>1, <2>2, <2>3, <2>4
<1>18. ASSUME NEW r \in Reqs, ReplayRefused(r) PROVE LockInv'
  <2>1. /\ entry'[tok[r]].kind = "none"
        /\ \A x \in Tokens \ {tok[r]} : entry'[x] = entry[x]
    BY <1>18, DiscardEffect DEF ReplayRefused
  <2>2. active' /\ WriterAlone'
    BY <1>18, <2>1 DEF ReplayRefused, Answer, Forget, Goto, rows, clocks, WriterAlone, Contends, HasSuccessor, Failing, FailsOnDeadToken
  <2>3. ReaderAlone' /\ FailsOnDeadToken'
    BY <1>18, <2>1 DEF ReplayRefused, Answer, Forget, Goto, rows, clocks, ReaderAlone, Contends, Failing, FailsOnDeadToken, HasSuccessor,
       ConsumedForGood
  <2>4. WaitersHaveOwner'
    BY <1>18, <2>1 DEF ReplayRefused, Answer, Forget, Goto, rows, clocks, WaitersHaveOwner, FailsOnDeadToken, HasSuccessor,
       ConsumedForGood
  <2>5. ClaimReleased'
    BY <1>18, <2>1 DEF ReplayRefused, Answer, Forget, Goto, rows, clocks, ClaimReleased, Working, Rotating, Failing
  <2>6. SingleSuccessor'
    BY <1>18, <2>1 DEF ReplayRefused, Answer, Forget, Goto, rows, clocks, SingleSuccessor
  <2> QED BY <2>2, <2>3, <2>4, <2>5, <2>6
<1>19. ASSUME NEW r \in Reqs, LogoutRead(r) PROVE LockInv'
  <2>1. active'
    BY <1>19 DEF LogoutRead, Stay, Answer, Forget, Goto, Revoking, rows, clocks
  <2>2. WriterAlone'
    BY <1>19 DEF LogoutRead, Stay, Answer, Forget, Goto, Revoking, rows,
       clocks, WriterAlone, Contends, HasSuccessor, Failing
  <2>3. ReaderAlone' /\ FailsOnDeadToken' /\ WaitersHaveOwner'
    BY <1>19 DEF LogoutRead, Stay, Answer, Forget, Goto, Revoking, rows,
       clocks, ReaderAlone, Contends, Failing, FailsOnDeadToken, HasSuccessor,
       WaitersHaveOwner
  <2>4. ClaimReleased' /\ SingleSuccessor'
    BY <1>19 DEF LogoutRead, Stay, Answer, Forget, Goto, Revoking, rows,
       clocks, ClaimReleased, Working, Rotating, Failing, SingleSuccessor
  <2> QED BY <2>1, <2>2, <2>3, <2>4
<1>20. ASSUME NEW r \in Reqs, LogoutWrite(r) PROVE LockInv'
  <2>1. active' /\ WriterAlone' /\ ReaderAlone' /\ FailsOnDeadToken'
       /\ WaitersHaveOwner'
    BY <1>20 DEF LogoutWrite, Answer, Forget, Goto, clocks, WriterAlone,
       Contends, HasSuccessor, Failing, ReaderAlone, FailsOnDeadToken,
       WaitersHaveOwner
  <2>2. ClaimReleased' /\ SingleSuccessor'
    BY <1>20 DEF LogoutWrite, Answer, Forget, Goto, clocks, ClaimReleased,
       Working, Rotating, Failing, SingleSuccessor
  <2> QED BY <2>1, <2>2
<1>21. ASSUME NEW r \in Reqs, ResetApply(r) PROVE LockInv'
  <2>1. active' /\ WriterAlone' /\ ReaderAlone'
    BY <1>21 DEF ResetApply, RevokeHit, Answer, Forget, Goto, clocks,
       WriterAlone, Contends, HasSuccessor, Failing, ReaderAlone
  <2>2. FailsOnDeadToken' /\ WaitersHaveOwner'
    BY <1>21 DEF ResetApply, RevokeHit, Answer, Forget, Goto, clocks,
       FailsOnDeadToken, HasSuccessor, Failing, WaitersHaveOwner
  <2>3. ClaimReleased' /\ SingleSuccessor'
    BY <1>21 DEF ResetApply, RevokeHit, Answer, Forget, Goto, clocks,
       ClaimReleased, Working, Rotating, Failing, SingleSuccessor
  <2> QED BY <2>1, <2>2, <2>3
<1>22. ASSUME NEW t \in Tokens, Deadline(t) PROVE LockInv'
  BY <1>22 DEF Deadline, rows, clocks, locals, WriterAlone, Contends,
     HasSuccessor, Failing, ReaderAlone, FailsOnDeadToken, WaitersHaveOwner,
     ClaimReleased, Working, Rotating, SingleSuccessor
<1>23. ASSUME NEW t \in Tokens, Ttl(t) PROVE LockInv'
  <2>1. entry[t].kind = "stale" /\ status[t] # "live"
    BY <1>23, RotatedTokenDead DEF Ttl, Locked, ClaimReleased
  <2> QED BY <1>23, <2>1 DEF Ttl, NoEntry, rows, clocks, locals,
     WriterAlone, Contends, HasSuccessor, Failing, ReaderAlone,
     FailsOnDeadToken, WaitersHaveOwner, ClaimReleased, Working, Rotating,
     SingleSuccessor
<1>24. ASSUME NEW t \in Tokens, Expire(t) PROVE LockInv'
  BY <1>24 DEF Expire, clocks, locals, WriterAlone, Contends,
     HasSuccessor, Failing, ReaderAlone, FailsOnDeadToken, WaitersHaveOwner,
     ClaimReleased, Working, Rotating, SingleSuccessor
<1>25. ASSUME UNCHANGED vars PROVE LockInv'
  BY <1>25 DEF vars, rows, clocks, locals, WriterAlone, Contends,
     HasSuccessor, Failing, ReaderAlone, FailsOnDeadToken, WaitersHaveOwner,
     ClaimReleased, Working, Rotating, SingleSuccessor
<1>26. ASSUME NEW r \in Reqs, RotateCommitLost(r) PROVE LockInv'
  <2>1. /\ succ[r] \in Tokens /\ tok[r] \in Tokens /\ tok[r] # succ[r]
        /\ \A q \in Reqs : pc[q] \notin {"idle", "resetApply"} =>
                tok[q] # succ[r]
    BY <1>26 DEF RotateCommitLost, CommitRotation, InsertsReserved
  <2>2. active' /\ WriterAlone' /\ ReaderAlone'
    BY <1>26, <2>1 DEF RotateCommitLost, CommitRotation, Goto, clocks, WriterAlone, Contends, HasSuccessor, Failing, ReaderAlone
  <2>3. WaitersHaveOwner'
    BY <1>26, <2>1 DEF RotateCommitLost, CommitRotation, Goto, clocks, WaitersHaveOwner
  <2>4. ClaimReleased' /\ SingleSuccessor'
    BY <1>26, <2>1 DEF RotateCommitLost, CommitRotation, Goto, clocks, ClaimReleased, Working, Rotating, Failing, SingleSuccessor,
       WriterAlone, HasSuccessor, InsertsReserved, RowsWellFormed
  <2>5. FailsOnDeadToken'
    <3>1. ASSUME NEW p \in Reqs, pc'[p] \in Failing
          PROVE  status'[tok'[p]] # "live"
      BY <1>26, <2>1, <3>1 DEF RotateCommitLost, CommitRotation, Goto,
         Failing, FailsOnDeadToken
    <3>2. ASSUME NEW p \in Reqs, pc'[p] = "replayDiscard"
          PROVE  HasSuccessor(tok[p])'
      <4>1. PICK u \in Tokens : parent[u] = tok[p]
        BY <1>26, <3>2 DEF RotateCommitLost, CommitRotation, Goto,
           FailsOnDeadToken, HasSuccessor
      <4>2. u # succ[r]
        BY <1>26, <3>2, <4>1 DEF RotateCommitLost, CommitRotation, Goto,
           InsertsReserved, RowsWellFormed
      <4> QED BY <1>26, <4>1, <4>2 DEF RotateCommitLost, CommitRotation, Goto,
                 HasSuccessor
    <3> QED BY <3>1, <3>2 DEF FailsOnDeadToken
  <2> QED BY <2>2, <2>3, <2>4, <2>5
<1> QED BY ONLY [Next]_vars, LockedExcludes, Locked, <1>1, <1>2, <1>3, <1>4, <1>5,
   <1>6, <1>7, <1>8, <1>9, <1>10, <1>11, <1>12, <1>13, <1>14, <1>15, <1>16,
   <1>17, <1>18, <1>19, <1>20, <1>21, <1>22, <1>23, <1>24, <1>25, <1>26
       DEF Next, Client, Server, Fault, Await, Rotate, Leave

-----------------------------------------------------------------------------
(* A family rotates one token at a time.                                   *)

LEMMA FamilyInit == Init => FamilyInv
BY RotationAssumption
   DEF Init, NoEntry, FamilyInv, OneLivePerFamily, WriterHoldsTip,
       OneWriterPerFamily, ReplacedHasSuccessor, Writing, HasSuccessor

LEMMA FamilyStep ==
    ASSUME Locked, SafetyInv, LockInv, FamilyInv, [Next]_vars
    PROVE  FamilyInv'
<1> USE RotationAssumption
    DEF SafetyInv, HandoverInv, TypeInv, TypeOK, RequestsWellFormed, LockInv,
        FamilyInv
<1>1. ASSUME Login PROVE FamilyInv'
  BY <1>1 DEF Login, Unused, clocks, locals, OneLivePerFamily,
     RowsWellFormed, WriterHoldsTip, Writing, OneWriterPerFamily,
     ReplacedHasSuccessor, HasSuccessor
<1>2. ASSUME NEW r \in Reqs, Refresh(r) PROVE FamilyInv'
  <2>1. PICK t \in Tokens : Presented(r, t) /\ TryClaim(r, t)
    BY <1>2 DEF Refresh
  <2>2. Claimed(r, t)
    BY <2>1, ClaimEffect
  <2> QED BY <2>1, <2>2 DEF Presented, Goto, rows, clocks,
     OneLivePerFamily, WriterHoldsTip, Writing, OneWriterPerFamily,
     ReplacedHasSuccessor, HasSuccessor, Claimed
<1>3. ASSUME NEW r \in Reqs, Reset(r) PROVE FamilyInv'
  BY <1>3 DEF Reset, Goto, Revoking, rows, clocks, OneLivePerFamily,
     WriterHoldsTip, Writing, OneWriterPerFamily, ReplacedHasSuccessor,
     HasSuccessor
<1>4. ASSUME NEW r \in Reqs, Reclaim(r) PROVE FamilyInv'
  <2>1. Claimed(r, tok[r])
    BY <1>4, ClaimEffect DEF Reclaim
  <2> QED BY <1>4, <2>1 DEF Reclaim, Goto, rows, clocks,
     OneLivePerFamily, WriterHoldsTip, Writing, OneWriterPerFamily,
     ReplacedHasSuccessor, HasSuccessor, Claimed
<1>5. ASSUME NEW r \in Reqs, AwaitVanished(r) PROVE FamilyInv'
  BY <1>5 DEF AwaitVanished, Goto, rows, clocks, OneLivePerFamily,
     WriterHoldsTip, Writing, OneWriterPerFamily, ReplacedHasSuccessor,
     HasSuccessor
<1>6. ASSUME NEW r \in Reqs, AwaitResult(r) PROVE FamilyInv'
  BY <1>6 DEF AwaitResult, Goto, rows, clocks, OneLivePerFamily,
     WriterHoldsTip, Writing, OneWriterPerFamily, ReplacedHasSuccessor,
     HasSuccessor
<1>7. ASSUME NEW r \in Reqs, AwaitStale(r) PROVE FamilyInv'
  <2>1. status[tok[r]] # "live"
    BY <1>7, RotatedTokenDead DEF AwaitStale
  <2> QED BY <1>7, <2>1 DEF AwaitStale, Stay, Goto, rows, clocks,
     OneLivePerFamily, WriterHoldsTip, Writing, OneWriterPerFamily,
     ReplacedHasSuccessor, HasSuccessor
<1>8. ASSUME NEW r \in Reqs, AwaitTimeout(r) PROVE FamilyInv'
  <2>1. FALSE
    BY <1>8 DEF AwaitTimeout, Locked, ClaimReleased
  <2> QED BY <2>1
<1>9. ASSUME NEW r \in Reqs, RotateRead(r) PROVE FamilyInv'
  BY <1>9 DEF RotateRead, Stay, Goto, rows, clocks, OneLivePerFamily,
     WriterHoldsTip, Writing, OneWriterPerFamily, WriterAlone, ReaderAlone,
     Contends, ReplacedHasSuccessor, HasSuccessor
<1>10. ASSUME NEW r \in Reqs, RotateWrite(r) PROVE FamilyInv'
  BY <1>10 DEF RotateWrite, Unused, Goto, rows, clocks,
     OneLivePerFamily, WriterHoldsTip, Writing, OneWriterPerFamily,
     ReplacedHasSuccessor, HasSuccessor
<1>11. ASSUME NEW r \in Reqs, RotateCommit(r) PROVE FamilyInv'
  <2>1. /\ succ[r] \in Tokens /\ tok[r] \in Tokens /\ tok[r] # succ[r]
        /\ \A q \in Reqs : pc[q] \notin {"idle", "resetApply"} =>
                tok[q] # succ[r]
    BY <1>11 DEF RotateCommit, CommitRotation, InsertsReserved
  <2>2. OneLivePerFamily'
    BY <1>11, <2>1 DEF RotateCommit, CommitRotation, Stay, Goto, clocks, OneLivePerFamily, WriterHoldsTip, Writing, Status,
       InsertsReserved, RowsWellFormed
  <2>3. WriterHoldsTip'
    BY <1>11, <2>1 DEF RotateCommit, CommitRotation, Stay, Goto, clocks, WriterHoldsTip, Writing, OneWriterPerFamily, InsertsReserved
  <2>4. OneWriterPerFamily' /\ ReplacedHasSuccessor'
    BY <1>11, <2>1 DEF RotateCommit, CommitRotation, Stay, Goto, clocks, OneWriterPerFamily, Writing, InsertsReserved,
       ReplacedHasSuccessor, HasSuccessor, RowsWellFormed
  <2> QED BY <2>2, <2>3, <2>4
<1>12. ASSUME NEW r \in Reqs, RotatePublish(r) PROVE FamilyInv'
  <2>1. /\ entry'[tok[r]].kind = "fresh"
        /\ \A x \in Tokens \ {tok[r]} : entry'[x] = entry[x]
    BY <1>12, PublishEffect DEF RotatePublish
  <2> QED BY <1>12, <2>1 DEF RotatePublish, Answer, Forget, Goto, rows, clocks, OneLivePerFamily, WriterHoldsTip, Writing, OneWriterPerFamily,
     ReplacedHasSuccessor, HasSuccessor
<1>13. ASSUME NEW r \in Reqs, ReuseDiscard(r) PROVE FamilyInv'
  <2>1. /\ entry'[tok[r]].kind = "none"
        /\ \A x \in Tokens \ {tok[r]} : entry'[x] = entry[x]
    BY <1>13, DiscardEffect DEF ReuseDiscard
  <2> QED BY <1>13, <2>1 DEF ReuseDiscard, Stay, Goto, rows, clocks,
     OneLivePerFamily, WriterHoldsTip, Writing, OneWriterPerFamily,
     ReplacedHasSuccessor, HasSuccessor
<1>14. ASSUME NEW r \in Reqs, RevokeSnapshot(r) PROVE FamilyInv'
  BY <1>14 DEF RevokeSnapshot, Goto, rows, clocks, OneLivePerFamily,
     WriterHoldsTip, Writing, OneWriterPerFamily, ReplacedHasSuccessor,
     HasSuccessor
<1>15. ASSUME NEW r \in Reqs, RevokeApply(r) PROVE FamilyInv'
  BY <1>15 DEF RevokeApply, RevokeHit, Stay, Goto, clocks, OneLivePerFamily,
     WriterHoldsTip, Writing, OneWriterPerFamily, ReplacedHasSuccessor,
     HasSuccessor
<1>16. ASSUME NEW r \in Reqs, RefreshFails(r) PROVE FamilyInv'
  <2>1. /\ entry'[tok[r]].kind = "none"
        /\ \A x \in Tokens \ {tok[r]} : entry'[x] = entry[x]
    BY <1>16, DiscardEffect DEF RefreshFails
  <2> QED BY <1>16, <2>1 DEF RefreshFails, Answer, Forget, Goto, rows, clocks, OneLivePerFamily, WriterHoldsTip, Writing, OneWriterPerFamily,
     ReplacedHasSuccessor, HasSuccessor
<1>17. ASSUME NEW r \in Reqs, ReplayRead(r) PROVE FamilyInv'
  <2>1. OneLivePerFamily' /\ WriterHoldsTip'
    BY <1>17 DEF ReplayRead, Stay, Answer, Forget, Goto, rows, clocks,
       OneLivePerFamily, WriterHoldsTip, Writing
  <2>2. OneWriterPerFamily' /\ ReplacedHasSuccessor'
    BY <1>17 DEF ReplayRead, Stay, Answer, Forget, Goto, rows, clocks,
       OneWriterPerFamily, Writing, ReplacedHasSuccessor, HasSuccessor
  <2> QED BY <2>1, <2>2
<1>18. ASSUME NEW r \in Reqs, ReplayRefused(r) PROVE FamilyInv'
  <2>1. /\ entry'[tok[r]].kind = "none"
        /\ \A x \in Tokens \ {tok[r]} : entry'[x] = entry[x]
    BY <1>18, DiscardEffect DEF ReplayRefused
  <2> QED BY <1>18, <2>1 DEF ReplayRefused, Answer, Forget, Goto, rows, clocks, OneLivePerFamily, WriterHoldsTip, Writing, OneWriterPerFamily,
     ReplacedHasSuccessor, HasSuccessor
<1>19. ASSUME NEW r \in Reqs, LogoutRead(r) PROVE FamilyInv'
  <2>1. OneLivePerFamily' /\ WriterHoldsTip'
    BY <1>19 DEF LogoutRead, Stay, Answer, Forget, Goto, Revoking, rows,
       clocks, OneLivePerFamily, WriterHoldsTip, Writing
  <2>2. OneWriterPerFamily' /\ ReplacedHasSuccessor'
    BY <1>19 DEF LogoutRead, Stay, Answer, Forget, Goto, Revoking, rows,
       clocks, OneWriterPerFamily, Writing, ReplacedHasSuccessor, HasSuccessor
  <2> QED BY <2>1, <2>2
<1>20. ASSUME NEW r \in Reqs, LogoutWrite(r) PROVE FamilyInv'
  BY <1>20 DEF LogoutWrite, Answer, Forget, Goto, clocks, OneLivePerFamily,
     WriterHoldsTip, Writing, OneWriterPerFamily, ReplacedHasSuccessor,
     HasSuccessor
<1>21. ASSUME NEW r \in Reqs, ResetApply(r) PROVE FamilyInv'
  BY <1>21 DEF ResetApply, RevokeHit, Answer, Forget, Goto, clocks,
     OneLivePerFamily, WriterHoldsTip, Writing, OneWriterPerFamily,
     ReplacedHasSuccessor, HasSuccessor
<1>22. ASSUME NEW t \in Tokens, Deadline(t) PROVE FamilyInv'
  BY <1>22 DEF Deadline, rows, clocks, locals, OneLivePerFamily,
     WriterHoldsTip, Writing, OneWriterPerFamily, ReplacedHasSuccessor,
     HasSuccessor
<1>23. ASSUME NEW t \in Tokens, Ttl(t) PROVE FamilyInv'
  <2>1. entry[t].kind = "stale" /\ status[t] # "live"
    BY <1>23, RotatedTokenDead DEF Ttl, Locked, ClaimReleased
  <2> QED BY <1>23, <2>1 DEF Ttl, NoEntry, rows, clocks, locals,
     OneLivePerFamily, WriterHoldsTip, Writing, OneWriterPerFamily,
     ReplacedHasSuccessor, HasSuccessor
<1>24. ASSUME NEW t \in Tokens, Expire(t) PROVE FamilyInv'
  BY <1>24 DEF Expire, clocks, locals, OneLivePerFamily,
     WriterHoldsTip, Writing, OneWriterPerFamily, ReplacedHasSuccessor,
     HasSuccessor
<1>25. ASSUME UNCHANGED vars PROVE FamilyInv'
  BY <1>25 DEF vars, rows, clocks, locals, OneLivePerFamily,
     WriterHoldsTip, Writing, OneWriterPerFamily, ReplacedHasSuccessor,
     HasSuccessor
<1>26. ASSUME NEW r \in Reqs, RotateCommitLost(r) PROVE FamilyInv'
  <2>1. /\ succ[r] \in Tokens /\ tok[r] \in Tokens /\ tok[r] # succ[r]
        /\ \A q \in Reqs : pc[q] \notin {"idle", "resetApply"} =>
                tok[q] # succ[r]
    BY <1>26 DEF RotateCommitLost, CommitRotation, InsertsReserved
  <2>2. OneLivePerFamily'
    BY <1>26, <2>1 DEF RotateCommitLost, CommitRotation, Goto, clocks, OneLivePerFamily, WriterHoldsTip, Writing, Status,
       InsertsReserved, RowsWellFormed
  <2>3. WriterHoldsTip'
    BY <1>26, <2>1 DEF RotateCommitLost, CommitRotation, Goto, clocks, WriterHoldsTip, Writing, OneWriterPerFamily, InsertsReserved
  <2>4. OneWriterPerFamily' /\ ReplacedHasSuccessor'
    BY <1>26, <2>1 DEF RotateCommitLost, CommitRotation, Goto, clocks, OneWriterPerFamily, Writing, InsertsReserved,
       ReplacedHasSuccessor, HasSuccessor, RowsWellFormed
  <2> QED BY <2>2, <2>3, <2>4
<1> QED BY ONLY [Next]_vars, LockedExcludes, Locked, <1>1, <1>2, <1>3, <1>4, <1>5,
   <1>6, <1>7, <1>8, <1>9, <1>10, <1>11, <1>12, <1>13, <1>14, <1>15, <1>16,
   <1>17, <1>18, <1>19, <1>20, <1>21, <1>22, <1>23, <1>24, <1>25, <1>26
       DEF Next, Client, Server, Fault, Await, Rotate, Leave

-----------------------------------------------------------------------------
(* The replay window is the only way from a live successor to a reuse.     *)

LEMMA ReuseInit == Init => ReuseInv
BY RotationAssumption
   DEF Init, NoEntry, ReuseInv, StaleIsClosed, PublisherAlone, WindowOpens,
       DatabaseDecidesLate, RefusesDeadSuccessor, Continues, Failing

LEMMA ReuseStep ==
    ASSUME Calm, SafetyInv, LockInv, ReuseInv, [Next]_vars
    PROVE  ReuseInv'
<1> USE RotationAssumption, CalmIsLocked
    DEF SafetyInv, HandoverInv, TypeInv, TypeOK, RequestsWellFormed, LockInv,
        ReuseInv
<1>1. ASSUME Login PROVE ReuseInv'
  BY <1>1 DEF Login, Unused, clocks, locals, StaleIsClosed,
     PublisherAlone, Rotating, Failing, WindowOpens, Continues, RowsWellFormed,
     DatabaseDecidesLate, RefusesDeadSuccessor
<1>2. ASSUME NEW r \in Reqs, Refresh(r) PROVE ReuseInv'
  <2>1. PICK t \in Tokens : Presented(r, t) /\ TryClaim(r, t)
    BY <1>2 DEF Refresh
  <2>2. Claimed(r, t)
    BY <2>1, ClaimEffect
  <2>3. StaleIsClosed'
    BY <2>1, <2>2 DEF Presented, Goto, rows, clocks, StaleIsClosed,
       Claimed
  <2>4. PublisherAlone'
    BY <2>1, <2>2 DEF Presented, Goto, rows, clocks, PublisherAlone,
       Rotating, Failing, Claimed
  <2>5. WindowOpens'
    BY <2>1, <2>2 DEF Presented, Goto, rows, clocks, WindowOpens,
       Continues, Claimed
  <2>6. DatabaseDecidesLate'
    BY <2>1, <2>2 DEF Presented, Goto, rows, clocks,
       DatabaseDecidesLate, Continues, Failing, WindowOpens, PublisherAlone,
       Claimed
  <2>7. RefusesDeadSuccessor'
    BY <2>1, <2>2 DEF Presented, Goto, rows, clocks,
       RefusesDeadSuccessor, Continues, Claimed
  <2> QED BY <2>3, <2>4, <2>5, <2>6, <2>7
<1>3. ASSUME NEW r \in Reqs, Reset(r) PROVE ReuseInv'
  BY <1>3 DEF Reset, Goto, Revoking, rows, clocks, StaleIsClosed,
     PublisherAlone, Rotating, Failing, WindowOpens, Continues,
     DatabaseDecidesLate, RefusesDeadSuccessor
<1>4. ASSUME NEW r \in Reqs, Reclaim(r) PROVE ReuseInv'
  <2>1. Claimed(r, tok[r])
    BY <1>4, ClaimEffect DEF Reclaim
  <2>2. StaleIsClosed'
    BY <1>4, <2>1 DEF Reclaim, Goto, rows, clocks, StaleIsClosed,
       Claimed
  <2>3. PublisherAlone'
    BY <1>4, <2>1 DEF Reclaim, Goto, rows, clocks, PublisherAlone,
       Rotating, Failing, Claimed
  <2>4. WindowOpens'
    BY <1>4, <2>1 DEF Reclaim, Goto, rows, clocks, WindowOpens,
       Continues, Claimed
  <2>5. DatabaseDecidesLate'
    BY <1>4, <2>1 DEF Reclaim, Goto, rows, clocks,
       DatabaseDecidesLate, Continues, Failing, WindowOpens, PublisherAlone,
       Claimed
  <2>6. RefusesDeadSuccessor'
    BY <1>4, <2>1 DEF Reclaim, Goto, rows, clocks,
       RefusesDeadSuccessor, Continues, Claimed
  <2> QED BY <2>2, <2>3, <2>4, <2>5, <2>6
<1>5. ASSUME NEW r \in Reqs, AwaitVanished(r) PROVE ReuseInv'
  BY <1>5 DEF AwaitVanished, Goto, rows, clocks, StaleIsClosed,
     PublisherAlone, Rotating, Failing, WindowOpens, Continues,
     DatabaseDecidesLate, RefusesDeadSuccessor
<1>6. ASSUME NEW r \in Reqs, AwaitResult(r) PROVE ReuseInv'
  BY <1>6 DEF AwaitResult, Goto, rows, clocks, StaleIsClosed,
     PublisherAlone, Rotating, Failing, WindowOpens, Continues,
     DatabaseDecidesLate, RefusesDeadSuccessor
<1>7. ASSUME NEW r \in Reqs, AwaitStale(r) PROVE ReuseInv'
  <2>1. status[tok[r]] # "live"
    BY <1>7, RotatedTokenDead DEF AwaitStale
  <2> QED BY <1>7, <2>1 DEF AwaitStale, Stay, Goto, rows, clocks,
     StaleIsClosed, PublisherAlone, Rotating, Failing, WindowOpens, Continues,
     DatabaseDecidesLate, RefusesDeadSuccessor
<1>8. ASSUME NEW r \in Reqs, AwaitTimeout(r) PROVE ReuseInv'
  <2>1. FALSE
    BY <1>8 DEF AwaitTimeout, Calm, ClaimReleased
  <2> QED BY <2>1
<1>9. ASSUME NEW r \in Reqs, RotateRead(r) PROVE ReuseInv'
  <2>1. StaleIsClosed'
    BY <1>9 DEF RotateRead, Stay, Goto, rows, clocks, StaleIsClosed
  <2>2. PublisherAlone'
    BY <1>9 DEF RotateRead, Stay, Goto, rows, clocks, PublisherAlone,
       Rotating, Failing
  <2>3. WindowOpens'
    BY <1>9 DEF RotateRead, Stay, Goto, rows, clocks, WindowOpens,
       Continues
  <2>4. DatabaseDecidesLate'
    BY <1>9 DEF RotateRead, Stay, Goto, rows, clocks,
       DatabaseDecidesLate, Continues, Failing
  <2>5. RefusesDeadSuccessor'
    BY <1>9 DEF RotateRead, Stay, Goto, rows, clocks,
       RefusesDeadSuccessor, Continues
  <2> QED BY <2>1, <2>2, <2>3, <2>4, <2>5
<1>10. ASSUME NEW r \in Reqs, RotateWrite(r) PROVE ReuseInv'
  BY <1>10 DEF RotateWrite, Unused, Goto, rows, clocks, StaleIsClosed,
     PublisherAlone, Rotating, Failing, WindowOpens, Continues,
     DatabaseDecidesLate, RefusesDeadSuccessor
<1>11. ASSUME NEW r \in Reqs, RotateCommit(r) PROVE ReuseInv'
  <2>1. /\ succ[r] \in Tokens /\ tok[r] \in Tokens /\ tok[r] # succ[r]
        /\ \A q \in Reqs : pc[q] \notin {"idle", "resetApply"} =>
                tok[q] # succ[r]
    BY <1>11 DEF RotateCommit, CommitRotation, InsertsReserved
  <2>2. StaleIsClosed' /\ PublisherAlone'
    BY <1>11, <2>1 DEF RotateCommit, CommitRotation, Stay, Goto, clocks, StaleIsClosed, PublisherAlone, Rotating, Failing, WriterAlone,
       Contends, HasSuccessor, FailsOnDeadToken, ReplayGivesOwnSuccessor
  <2>3. WindowOpens'
    BY <1>11, <2>1 DEF RotateCommit, CommitRotation, Stay, Goto, clocks, WindowOpens, Continues, InsertsReserved, RowsWellFormed
  <2>4. DatabaseDecidesLate' /\ RefusesDeadSuccessor'
    BY <1>11, <2>1 DEF RotateCommit, CommitRotation, Stay, Goto, clocks, DatabaseDecidesLate, Continues, Failing, WriterAlone, Contends,
       InsertsReserved, RowsWellFormed, RefusesDeadSuccessor, HasSuccessor,
       FailsOnDeadToken
  <2> QED BY <2>2, <2>3, <2>4
<1>12. ASSUME NEW r \in Reqs, RotatePublish(r) PROVE ReuseInv'
  <2>1. /\ entry'[tok[r]].kind = "fresh"
        /\ \A x \in Tokens \ {tok[r]} : entry'[x] = entry[x]
    BY <1>12, PublishEffect DEF RotatePublish
  <2>2. StaleIsClosed'
    BY <1>12, <2>1 DEF RotatePublish, Answer, Forget, Goto, rows, clocks, StaleIsClosed
  <2>3. PublisherAlone'
    BY <1>12, <2>1 DEF RotatePublish, Answer, Forget, Goto, rows, clocks, PublisherAlone, Rotating, Failing
  <2>4. WindowOpens' /\ DatabaseDecidesLate'
    BY <1>12, <2>1 DEF RotatePublish, Answer, Forget, Goto, rows, clocks, WindowOpens, Continues, DatabaseDecidesLate, Failing
  <2>5. RefusesDeadSuccessor'
    BY <1>12, <2>1 DEF RotatePublish, Answer, Forget, Goto, rows, clocks, RefusesDeadSuccessor, Continues
  <2> QED BY <2>2, <2>3, <2>4, <2>5
<1>13. ASSUME NEW r \in Reqs, ReuseDiscard(r) PROVE ReuseInv'
  <2>1. /\ entry'[tok[r]].kind = "none"
        /\ \A x \in Tokens \ {tok[r]} : entry'[x] = entry[x]
    BY <1>13, DiscardEffect DEF ReuseDiscard
  <2>2. StaleIsClosed' /\ PublisherAlone' /\ DatabaseDecidesLate'
       /\ RefusesDeadSuccessor'
    BY <1>13, <2>1 DEF ReuseDiscard, Stay, Goto, rows, clocks,
       StaleIsClosed, PublisherAlone, Rotating, Failing, DatabaseDecidesLate,
       Continues, RefusesDeadSuccessor
  <2>3. WindowOpens'
    BY <1>13, <2>1 DEF ReuseDiscard, Stay, Goto, rows, clocks,
       WindowOpens, Continues, DatabaseDecidesLate, Failing
  <2> QED BY <2>2, <2>3
<1>14. ASSUME NEW r \in Reqs, RevokeSnapshot(r) PROVE ReuseInv'
  BY <1>14 DEF RevokeSnapshot, Goto, rows, clocks, StaleIsClosed,
     PublisherAlone, Rotating, Failing, WindowOpens, Continues,
     DatabaseDecidesLate, RefusesDeadSuccessor
<1>15. ASSUME NEW r \in Reqs, RevokeApply(r) PROVE ReuseInv'
  BY <1>15 DEF RevokeApply, RevokeHit, Stay, Goto, clocks, StaleIsClosed,
     PublisherAlone, Rotating, Failing, WindowOpens, Continues,
     DatabaseDecidesLate, RefusesDeadSuccessor
<1>16. ASSUME NEW r \in Reqs, RefreshFails(r) PROVE ReuseInv'
  <2>1. /\ entry'[tok[r]].kind = "none"
        /\ \A x \in Tokens \ {tok[r]} : entry'[x] = entry[x]
    BY <1>16, DiscardEffect DEF RefreshFails
  <2>2. StaleIsClosed'
    BY <1>16, <2>1 DEF RefreshFails, Answer, Forget, Goto, rows, clocks, StaleIsClosed
  <2>3. PublisherAlone'
    BY <1>16, <2>1 DEF RefreshFails, Answer, Forget, Goto, rows, clocks, PublisherAlone, Rotating, Failing
  <2>4. WindowOpens' /\ DatabaseDecidesLate'
    BY <1>16, <2>1 DEF RefreshFails, Answer, Forget, Goto, rows, clocks, WindowOpens, Continues, DatabaseDecidesLate, Failing
  <2>5. RefusesDeadSuccessor'
    BY <1>16, <2>1 DEF RefreshFails, Answer, Forget, Goto, rows, clocks, RefusesDeadSuccessor, Continues
  <2> QED BY <2>2, <2>3, <2>4, <2>5
<1>17. ASSUME NEW r \in Reqs, ReplayRead(r) PROVE ReuseInv'
  <2>1. StaleIsClosed'
    BY <1>17 DEF ReplayRead, Stay, Answer, Forget, Goto, rows, clocks,
       StaleIsClosed
  <2>2. PublisherAlone'
    BY <1>17 DEF ReplayRead, Stay, Answer, Forget, Goto, rows, clocks,
       PublisherAlone, Rotating, Failing
  <2>3. WindowOpens'
    BY <1>17 DEF ReplayRead, Stay, Answer, Forget, Goto, rows, clocks,
       WindowOpens, Continues
  <2>4. DatabaseDecidesLate'
    BY <1>17 DEF ReplayRead, Stay, Answer, Forget, Goto, rows, clocks,
       DatabaseDecidesLate, Continues, Failing
  <2>5. RefusesDeadSuccessor'
    BY <1>17 DEF ReplayRead, Stay, Answer, Forget, Goto, rows, clocks,
       RefusesDeadSuccessor, Continues, SingleSuccessor,
       ReplayGivesOwnSuccessor
  <2> QED BY <2>1, <2>2, <2>3, <2>4, <2>5
<1>18. ASSUME NEW r \in Reqs, ReplayRefused(r) PROVE ReuseInv'
  <2>1. /\ entry'[tok[r]].kind = "none"
        /\ \A x \in Tokens \ {tok[r]} : entry'[x] = entry[x]
    BY <1>18, DiscardEffect DEF ReplayRefused
  <2>2. StaleIsClosed'
    BY <1>18, <2>1 DEF ReplayRefused, Answer, Forget, Goto, rows, clocks, StaleIsClosed
  <2>3. PublisherAlone'
    BY <1>18, <2>1 DEF ReplayRefused, Answer, Forget, Goto, rows, clocks, PublisherAlone, Rotating, Failing
  <2>4. DatabaseDecidesLate'
    BY <1>18, <2>1 DEF ReplayRefused, Answer, Forget, Goto, rows, clocks, DatabaseDecidesLate, Continues, Failing
  <2>5. RefusesDeadSuccessor'
    BY <1>18, <2>1 DEF ReplayRefused, Answer, Forget, Goto, rows, clocks, RefusesDeadSuccessor, Continues
  <2>6. WindowOpens'
    BY <1>18, <2>1 DEF ReplayRefused, Answer, Forget, Goto, rows, clocks, WindowOpens, Continues, RefusesDeadSuccessor
  <2> QED BY <2>2, <2>3, <2>4, <2>5, <2>6
<1>19. ASSUME NEW r \in Reqs, LogoutRead(r) PROVE ReuseInv'
  <2>1. StaleIsClosed' /\ PublisherAlone'
    BY <1>19 DEF LogoutRead, Stay, Answer, Forget, Goto, Revoking, rows,
       clocks, StaleIsClosed, PublisherAlone, Rotating, Failing
  <2>2. WindowOpens'
    BY <1>19 DEF LogoutRead, Stay, Answer, Forget, Goto, Revoking, rows,
       clocks, WindowOpens, Continues
  <2>3. DatabaseDecidesLate' /\ RefusesDeadSuccessor'
    BY <1>19 DEF LogoutRead, Stay, Answer, Forget, Goto, Revoking, rows,
       clocks, DatabaseDecidesLate, Continues, Failing, RefusesDeadSuccessor
  <2> QED BY <2>1, <2>2, <2>3
<1>20. ASSUME NEW r \in Reqs, LogoutWrite(r) PROVE ReuseInv'
  BY <1>20 DEF LogoutWrite, Answer, Forget, Goto, clocks, StaleIsClosed,
     PublisherAlone, Rotating, Failing, WindowOpens, Continues,
     DatabaseDecidesLate, RefusesDeadSuccessor
<1>21. ASSUME NEW r \in Reqs, ResetApply(r) PROVE ReuseInv'
  BY <1>21 DEF ResetApply, RevokeHit, Answer, Forget, Goto, clocks,
     StaleIsClosed, PublisherAlone, Rotating, Failing, WindowOpens, Continues,
     DatabaseDecidesLate, RefusesDeadSuccessor
<1>22. ASSUME NEW t \in Tokens, Deadline(t) PROVE ReuseInv'
  BY <1>22 DEF Deadline, rows, clocks, locals, StaleIsClosed, PublisherAlone,
     Rotating, Failing, WindowOpens, Continues, DatabaseDecidesLate,
     RefusesDeadSuccessor
<1>23. ASSUME NEW t \in Tokens, Ttl(t) PROVE ReuseInv'
  <2>1. entry[t].kind = "stale" /\ status[t] # "live"
    BY <1>23, RotatedTokenDead DEF Ttl, Calm, ClaimReleased
  <2> QED BY <1>23, <2>1 DEF Ttl, NoEntry, rows, clocks, locals,
     StaleIsClosed, PublisherAlone, Rotating, Failing, WindowOpens, Continues,
     DatabaseDecidesLate, RefusesDeadSuccessor
<1>24. ASSUME NEW t \in Tokens, Expire(t) PROVE ReuseInv'
  BY <1>24 DEF Expire, clocks, locals, StaleIsClosed, PublisherAlone,
     Rotating, Failing, WindowOpens, Continues, DatabaseDecidesLate,
     RefusesDeadSuccessor
<1>25. ASSUME UNCHANGED vars PROVE ReuseInv'
  BY <1>25 DEF vars, rows, clocks, locals, StaleIsClosed,
     PublisherAlone, Rotating, Failing, WindowOpens, Continues,
     DatabaseDecidesLate, RefusesDeadSuccessor
<1> QED BY ONLY [Next]_vars, CalmExcludes, Calm, <1>1, <1>2, <1>3, <1>4, <1>5,
   <1>6, <1>7, <1>8, <1>9, <1>10, <1>11, <1>12, <1>13, <1>14, <1>15, <1>16,
   <1>17, <1>18, <1>19, <1>20, <1>21, <1>22, <1>23, <1>24, <1>25
       DEF Next, Client, Server, Await, Rotate, Leave

-----------------------------------------------------------------------------
(* What the lock guarantees.                                               *)

LEMMA LockedAlways == ASSUME Locked PROVE Spec => []LockedInv
<1>1. Init => LockedInv
  BY InitSafetyInv, LockInit, FamilyInit DEF LockedInv
<1>2. LockedInv /\ [Next]_vars => LockedInv'
  BY Locked, SafetyStep, LockStep, FamilyStep DEF LockedInv
<1> QED BY <1>1, <1>2, PTL DEF Spec

LEMMA CalmAlways == ASSUME Calm PROVE Spec => []CalmInv
<1>1. Init => CalmInv
  BY InitSafetyInv, LockInit, FamilyInit, ReuseInit DEF CalmInv, LockedInv
<1>2. CalmInv /\ [Next]_vars => CalmInv'
  BY Calm, CalmIsLocked, SafetyStep, LockStep, FamilyStep, ReuseStep DEF CalmInv, LockedInv
<1> QED BY <1>1, <1>2, PTL DEF Spec

\* Two concurrent refreshes of one token never branch its family, not even when
\* the COMMIT of one is lost.
THEOREM NoBranch == ASSUME Locked PROVE Spec => []SingleSuccessor
<1>1. LockedInv => SingleSuccessor
  BY DEF LockedInv, LockInv
<1> QED BY <1>1, LockedAlways, PTL

\* A session has at most one usable refresh token at any time: mark_rotated and
\* create commit together or not at all.
THEOREM OneLive == ASSUME Locked PROVE Spec => []OneLivePerFamily
<1>1. LockedInv => OneLivePerFamily
  BY DEF LockedInv, FamilyInv
<1> QED BY <1>1, LockedAlways, PTL

\* A session that goes on is never reported as a reuse inside the window.
THEOREM ReuseIsLate == ASSUME Calm PROVE Spec => []NoFalseReuse
<1>1. CalmInv => NoFalseReuse
  BY DEF CalmInv, ReuseInv, DatabaseDecidesLate, Continues, Failing,
         NoFalseReuse
<1> QED BY <1>1, CalmAlways, PTL

-------------------------------------------------------------------------------
(* The table refresh_tokens refines TokenChain.                            *)

LEMMA ChainInit == Init => Chain!Init
BY DEF Init, Chain!Init

LEMMA ChainStep ==
    ASSUME Locked, LockedInv, [Next]_vars PROVE [Chain!Next]_(Chain!chain)
<1> DEFINE issued == {t \in Tokens : status[t] # "absent"}
           live == {t \in Tokens : status[t] = "live"}
<1> USE RotationAssumption
    DEF LockedInv, SafetyInv, TypeInv, TypeOK, RequestsWellFormed,
        InsertsReserved, RowsWellFormed, Status
<1>1. ASSUME Login PROVE Chain!Open
  <2>1. PICK t \in Unused : status' = [status EXCEPT ![t] = "live"]
    BY <1>1 DEF Login
  <2>2. /\ issued' = issued \cup {t} /\ live' = live \cup {t}
        /\ t \in Tokens \ issued
    BY <2>1 DEF Unused
  <2> QED BY <1>1, <2>2 DEF Chain!Open, Login
<1>2. ASSUME NEW r \in Reqs, RotateCommit(r) \/ RotateCommitLost(r) PROVE Chain!Extend
  <2> DEFINE t == tok[r]
             n == succ[r]
  <2>1. t \in issued /\ n \in Tokens \ issued /\ t # n
    BY <1>2 DEF RotateCommit, RotateCommitLost, CommitRotation
  <2>2. replacedBy[t] = Nil
    BY <1>2, <2>1 DEF RotateCommit, RotateCommitLost, CommitRotation, LockInv, WriterAlone,
       FamilyInv, ReplacedHasSuccessor
  <2>3. replacedBy' = [replacedBy EXCEPT ![t] = n]
    BY <1>2 DEF RotateCommit, RotateCommitLost, CommitRotation
  <2>4. \A x \in Tokens : /\ x \notin {t, n} => status'[x] = status[x]
                         /\ status'[t] = "revoked" /\ status'[n] = "live"
    BY <1>2, <2>1 DEF RotateCommit, RotateCommitLost, CommitRotation
  <2>5. issued' = issued \cup {n}
    BY <2>1, <2>4
  <2>6. live' = (live \ {t}) \cup {n}
    BY <2>1, <2>4
  <2> HIDE DEF issued, live, n, t
  <2> QED BY <2>1, <2>2, <2>3, <2>5, <2>6 DEF Chain!Extend, issued, live
<1>3. ASSUME UNCHANGED replacedBy,
             \A t \in Tokens : /\ status'[t] = "absent" <=> status[t] = "absent"
                               /\ status'[t] = "live" => status[t] = "live"
      PROVE  Chain!Close
  <2>1. issued' = issued /\ live' \in SUBSET live
    BY <1>3
  <2> QED BY <1>3, <2>1 DEF Chain!Close
<1>4. ASSUME NEW r \in Reqs,
             RevokeApply(r) \/ ResetApply(r) \/ LogoutWrite(r)
      PROVE  Chain!Close
  BY <1>3, <1>4 DEF RevokeApply, ResetApply, LogoutWrite, RevokeHit
<1>5. ASSUME NEW t \in Tokens, Expire(t) PROVE Chain!Close
  BY <1>3, <1>5 DEF Expire
<1>6. ASSUME UNCHANGED rows PROVE UNCHANGED Chain!chain
  BY <1>6 DEF rows, Chain!chain
<1>7. ASSUME NEW r \in Reqs,
             \/ Refresh(r) \/ Reset(r) \/ Reclaim(r) \/ Await(r)
             \/ RotateRead(r) \/ RotateWrite(r) \/ RotatePublish(r)
             \/ ReuseDiscard(r) \/ RevokeSnapshot(r) \/ RefreshFails(r)
             \/ ReplayRead(r) \/ ReplayRefused(r) \/ LogoutRead(r)
      PROVE  UNCHANGED rows
  BY <1>7 DEF Refresh, Reset, Reclaim, TryClaim, Await, AwaitVanished,
     AwaitResult, AwaitStale, AwaitTimeout, RotateRead, RotateWrite,
     RotatePublish, ReuseDiscard, RevokeSnapshot, RefreshFails, ReplayRead,
     ReplayRefused, LogoutRead
<1>8. ASSUME NEW t \in Tokens, Deadline(t) \/ Ttl(t) PROVE UNCHANGED rows
  BY <1>8 DEF Deadline, Ttl
<1>9. ASSUME UNCHANGED vars PROVE UNCHANGED rows
  BY <1>9 DEF vars
<1> QED BY ONLY [Next]_vars, Locked, LockedExcludes, <1>1, <1>2, <1>4, <1>5, <1>6,
                <1>7, <1>8, <1>9
        DEF Next, Client, Server, Fault, Rotate, Leave, Chain!Next

\* Under Locked, refresh_tokens behaves as the chain of tokens the rotation
\* promises: a rotation only ever extends a session at its end.
THEOREM RefinesChain == ASSUME Locked PROVE Spec => ImplementsChain
<1>1. Spec => []LockedInv
  BY LockedAlways
<1>2. LockedInv /\ [Next]_vars => [Chain!Next]_(Chain!chain)
  BY Locked, ChainStep
<1> QED BY <1>1, <1>2, ChainInit, PTL DEF Spec, ImplementsChain, Chain!Spec

=============================================================================
