---------------------------- MODULE RotationProofs ----------------------------
(***************************************************************************)
(* Safety of RefreshRotation for every number of tokens and requests.      *)
(*                                                                         *)
(* TypeInv and SafetyInv hold in every environment, and every claim is     *)
(* given back where Redis answers and no worker dies.  What holds only     *)
(* while the pending entry is a lock is in RotationCalmProofs.             *)
(***************************************************************************)
EXTENDS RotationInvariant, TLAPS

-------------------------------------------------------------------------------
LEMMA InitTypeInv == Init => TypeInv
BY RotationAssumption
   DEF Init, TypeInv, TypeOK, TriesLeft, RowsWellFormed, RequestsWellFormed,
       InsertsReserved, NoEntry, Entry, Status, PCs

\* The two writes of a request to Redis keep the shape of the entries.
LEMMA DiscardType ==
    ASSUME entry \in [Tokens -> Entry], NEW t, Discard(t)
    PROVE  entry' \in [Tokens -> Entry]
BY DEF Discard, NoEntry, Entry

LEMMA ClaimType ==
    ASSUME entry \in [Tokens -> Entry], NEW r \in Reqs, NEW t, TryClaim(r, t)
    PROVE  entry' \in [Tokens -> Entry]
<1>1. CASE entry[t].kind = "none"
  <2>1. Pending \in Entry
    BY DEF Pending, Entry
  <2> QED BY <1>1, <2>1 DEF TryClaim
<1>2. CASE entry[t].kind # "none"
  <2>1. UNCHANGED entry
    BY <1>2 DEF TryClaim
  <2> QED BY <2>1
<1> QED BY <1>1, <1>2

LEMMA TypeStep == SafetyInv /\ [Next]_vars => TypeInv'
<1> SUFFICES ASSUME SafetyInv, [Next]_vars PROVE TypeInv'
  OBVIOUS
<1> USE RotationAssumption
    DEF SafetyInv, TypeInv, TypeOK, TriesLeft, RowsWellFormed,
        RequestsWellFormed, InsertsReserved
<1>1. ASSUME Login PROVE TypeInv'
  BY <1>1 DEF Login, Unused, clocks, locals, Status
<1>2. ASSUME NEW r \in Reqs, Refresh(r) PROVE TypeInv'
  BY <1>2, ClaimType DEF Refresh, Presented, TryClaim, Goto, PCs, Rotating,
     rows, clocks
<1>3. ASSUME NEW r \in Reqs, Logout(r) PROVE TypeInv'
  BY <1>3, DiscardType DEF Logout, Presented, Goto, PCs, Revoking, rows,
     clocks
<1>4. ASSUME NEW r \in Reqs, Reset(r) PROVE TypeInv'
  BY <1>4 DEF Reset, Unrevoked, Goto, PCs, Revoking, rows, clocks
<1>5. ASSUME NEW r \in Reqs, Reclaim(r) PROVE TypeInv'
  BY <1>5, ClaimType DEF Reclaim, TryClaim, Goto, PCs, Rotating, rows, clocks
<1>6. ASSUME NEW r \in Reqs, AwaitVanished(r) PROVE TypeInv'
  BY <1>6 DEF AwaitVanished, Goto, PCs, Rotating, rows, clocks
<1>7. ASSUME NEW r \in Reqs, AwaitResult(r) PROVE TypeInv'
  BY <1>7 DEF AwaitResult, Goto, PCs, Entry, rows, clocks
<1>8. ASSUME NEW r \in Reqs, AwaitStale(r) PROVE TypeInv'
  BY <1>8 DEF AwaitStale, Stay, Goto, PCs, Rotating, rows, clocks
<1>9. ASSUME NEW r \in Reqs, AwaitTimeout(r) PROVE TypeInv'
  BY <1>9 DEF AwaitTimeout, Stay, Goto, PCs, Rotating, rows, clocks
<1>10. ASSUME NEW r \in Reqs, RotateRead(r) PROVE TypeInv'
  BY <1>10 DEF RotateRead, Stay, Goto, PCs, Rotating, Failing, rows, clocks
<1>11. ASSUME NEW r \in Reqs, RotateWrite(r) PROVE TypeInv'
  BY <1>11 DEF RotateWrite, Unused, Goto, PCs, Rotating, rows, clocks
<1>12. ASSUME NEW r \in Reqs, RotateCommit(r) PROVE TypeInv'
  BY <1>12 DEF RotateCommit, CommitRotation, Stay, Goto, Status, PCs,
     Rotating, clocks
<1>13. ASSUME NEW r \in Reqs, RotatePublish(r) PROVE TypeInv'
  <2>1. succ[r] \in Tokens /\ status[succ[r]] # "absent"
    BY <1>13 DEF RotatePublish, HandoverInv, ReplayGivesOwnSuccessor
  <2>2. Fresh(succ[r]) \in Entry
    BY <2>1 DEF Fresh, Entry
  <2>3. entry' \in [Tokens -> Entry]
    BY <1>13, <2>2 DEF RotatePublish
  <2> QED BY <1>13, <2>1, <2>3 DEF RotatePublish, Answer, Forget, Goto, PCs,
             rows, clocks
<1>14. ASSUME NEW r \in Reqs, ReuseDiscard(r) PROVE TypeInv'
  BY <1>14, DiscardType DEF ReuseDiscard, Stay, Goto, PCs, Failing, rows,
     clocks
<1>15. ASSUME NEW r \in Reqs, RevokeSnapshot(r) PROVE TypeInv'
  BY <1>15 DEF RevokeSnapshot, Unrevoked, Goto, PCs, Failing, rows, clocks
<1>16. ASSUME NEW r \in Reqs, RevokeApply(r) PROVE TypeInv'
  BY <1>16 DEF RevokeApply, RevokeHit, Stay, Goto, Status, PCs, Failing,
     clocks
<1>17. ASSUME NEW r \in Reqs, RefreshFails(r) PROVE TypeInv'
  BY <1>17, DiscardType DEF RefreshFails, Answer, Forget, Goto, PCs, rows,
     clocks
<1>18. ASSUME NEW r \in Reqs, ReplayRead(r) PROVE TypeInv'
  <2>1. succ[r] \in Tokens /\ status[succ[r]] # "absent"
    BY <1>18 DEF ReplayRead, HandoverInv, ReplayGivesOwnSuccessor
  <2>2. CASE Stay(r, "replayDiscard") /\ UNCHANGED held
    BY <1>18, <2>2 DEF ReplayRead, Stay, Goto, PCs, rows, clocks
  <2>3. CASE Answer(r, {succ[r]})
    <3>1. held' \subseteq Tokens /\ \A t \in held' : status[t] # "absent"
      BY <2>1, <2>3 DEF Answer
    <3> QED BY <1>18, <2>3, <3>1 DEF ReplayRead, Answer, Forget, Goto, PCs,
               rows, clocks
  <2>4. CASE Answer(r, {})
    BY <1>18, <2>4 DEF ReplayRead, Answer, Forget, Goto, PCs, rows, clocks
  <2> QED BY <1>18, <2>2, <2>3, <2>4 DEF ReplayRead
<1>19. ASSUME NEW r \in Reqs, ReplayRefused(r) PROVE TypeInv'
  BY <1>19, DiscardType DEF ReplayRefused, Answer, Forget, Goto, PCs, rows,
     clocks
<1>20. ASSUME NEW r \in Reqs, LogoutRead(r) PROVE TypeInv'
  <2>1. CASE Unrevoked(tok[r])
    BY <1>20, <2>1 DEF LogoutRead, Unrevoked, Stay, Goto, PCs, Revoking, rows,
       clocks
  <2>2. CASE ~Unrevoked(tok[r])
    BY <1>20, <2>2 DEF LogoutRead, Answer, Forget, Goto, PCs, rows, clocks
  <2> QED BY <2>1, <2>2
<1>21. ASSUME NEW r \in Reqs, LogoutWrite(r) PROVE TypeInv'
  BY <1>21 DEF LogoutWrite, Answer, Forget, Goto, Status, PCs, clocks
<1>22. ASSUME NEW r \in Reqs, ResetApply(r) PROVE TypeInv'
  BY <1>22 DEF ResetApply, RevokeHit, Answer, Forget, Goto, Status, PCs,
     clocks
<1>23. ASSUME NEW r \in Reqs, RedisDegraded(r) PROVE TypeInv'
  BY <1>23 DEF RedisDegraded, Presented, Goto, PCs, Rotating, rows, clocks
<1>24. ASSUME NEW r \in Reqs, RotateError(r) PROVE TypeInv'
  BY <1>24 DEF RotateError, Goto, PCs, Failing, rows
<1>25. ASSUME NEW r \in Reqs, RotateCommitLost(r) PROVE TypeInv'
  BY <1>25 DEF RotateCommitLost, CommitRotation, Goto, Status, PCs, Failing
<1>26. ASSUME NEW r \in Reqs, ReplayError(r) PROVE TypeInv'
  BY <1>26 DEF ReplayError, Answer, Forget, Goto, PCs, rows
<1>27. ASSUME NEW r \in Reqs, Crash(r) PROVE TypeInv'
  BY <1>27 DEF Crash, InFlight, Forget, Goto, PCs, rows, clocks
<1>28. ASSUME NEW t \in Tokens, Deadline(t) PROVE TypeInv'
  BY <1>28 DEF Deadline, Entry, rows, clocks, locals
<1>29. ASSUME NEW t \in Tokens, Ttl(t) PROVE TypeInv'
  BY <1>29 DEF Ttl, NoEntry, Entry, rows, clocks, locals
<1>30. ASSUME NEW t \in Tokens, Expire(t) PROVE TypeInv'
  BY <1>30 DEF Expire, Status, clocks, locals
<1>31. ASSUME ToggleActive PROVE TypeInv'
  BY <1>31 DEF ToggleActive, rows, locals
<1>32. ASSUME UNCHANGED vars PROVE TypeInv'
  BY <1>32 DEF vars, rows, clocks, locals
<1> QED BY ONLY [Next]_vars, <1>1, <1>2, <1>3, <1>4, <1>5, <1>6, <1>7, <1>8,
    <1>9, <1>10, <1>11, <1>12, <1>13, <1>14, <1>15, <1>16, <1>17, <1>18,
    <1>19, <1>20, <1>21, <1>22, <1>23, <1>24, <1>25, <1>26, <1>27, <1>28,
    <1>29, <1>30, <1>31, <1>32
       DEF Next, Client, Server, Fault, Await, Rotate, Leave

LEMMA InitSafetyInv == Init => SafetyInv
BY InitTypeInv, RotationAssumption
   DEF SafetyInv, HandoverInv, Init, ConsumedForGood, ReplayGivesOwnSuccessor,
       NoEntry

LEMMA SafetyStep == SafetyInv /\ [Next]_vars => SafetyInv'
<1> SUFFICES ASSUME SafetyInv, [Next]_vars
             PROVE HandoverInv'
  BY TypeStep DEF SafetyInv
<1> USE RotationAssumption
    DEF SafetyInv, HandoverInv, TypeInv, TypeOK, RowsWellFormed,
        RequestsWellFormed, InsertsReserved, ConsumedForGood, ReplayGivesOwnSuccessor
<1>1. ASSUME Login PROVE HandoverInv'
  BY <1>1 DEF Login, Unused, clocks, locals
<1>2. ASSUME NEW r \in Reqs, Refresh(r) PROVE HandoverInv'
  BY <1>2 DEF Refresh, Presented, TryClaim, Goto, Pending, rows, clocks
<1>3. ASSUME NEW r \in Reqs, Logout(r) PROVE HandoverInv'
  BY <1>3 DEF Logout, Presented, Discard, Goto, NoEntry, Revoking, rows,
     clocks
<1>4. ASSUME NEW r \in Reqs, Reset(r) PROVE HandoverInv'
  BY <1>4 DEF Reset, Goto, Revoking, rows, clocks
<1>5. ASSUME NEW r \in Reqs, Reclaim(r) PROVE HandoverInv'
  BY <1>5 DEF Reclaim, TryClaim, Goto, Pending, rows, clocks
<1>6. ASSUME NEW r \in Reqs, AwaitVanished(r) PROVE HandoverInv'
  BY <1>6 DEF AwaitVanished, Goto, rows, clocks
<1>7. ASSUME NEW r \in Reqs, AwaitResult(r) PROVE HandoverInv'
  BY <1>7 DEF AwaitResult, Goto, rows, clocks
<1>8. ASSUME NEW r \in Reqs, AwaitStale(r) PROVE HandoverInv'
  BY <1>8 DEF AwaitStale, Stay, Goto, rows, clocks
<1>9. ASSUME NEW r \in Reqs, AwaitTimeout(r) PROVE HandoverInv'
  BY <1>9 DEF AwaitTimeout, Stay, Goto, rows, clocks
<1>10. ASSUME NEW r \in Reqs, RotateRead(r) PROVE HandoverInv'
  BY <1>10 DEF RotateRead, Stay, Goto, rows, clocks
<1>11. ASSUME NEW r \in Reqs, RotateWrite(r) PROVE HandoverInv'
  BY <1>11 DEF RotateWrite, Unused, Goto, rows, clocks
<1>12. ASSUME NEW r \in Reqs, RotateCommit(r) PROVE HandoverInv'
  BY <1>12 DEF RotateCommit, CommitRotation, Stay, Goto, clocks
<1>13. ASSUME NEW r \in Reqs, RotatePublish(r) PROVE HandoverInv'
  BY <1>13 DEF RotatePublish, Answer, Forget, Goto, Fresh, rows, clocks
<1>14. ASSUME NEW r \in Reqs, ReuseDiscard(r) PROVE HandoverInv'
  BY <1>14 DEF ReuseDiscard, Stay, Goto, Discard, NoEntry, rows, clocks
<1>15. ASSUME NEW r \in Reqs, RevokeSnapshot(r) PROVE HandoverInv'
  BY <1>15 DEF RevokeSnapshot, Goto, rows, clocks
<1>16. ASSUME NEW r \in Reqs, RevokeApply(r) PROVE HandoverInv'
  BY <1>16 DEF RevokeApply, RevokeHit, Stay, Goto, clocks
<1>17. ASSUME NEW r \in Reqs, RefreshFails(r) PROVE HandoverInv'
  BY <1>17 DEF RefreshFails, Discard, Answer, Forget, Goto, NoEntry, rows,
     clocks
<1>18. ASSUME NEW r \in Reqs, ReplayRead(r) PROVE HandoverInv'
  BY <1>18 DEF ReplayRead, Stay, Answer, Forget, Goto, rows, clocks
<1>19. ASSUME NEW r \in Reqs, ReplayRefused(r) PROVE HandoverInv'
  BY <1>19 DEF ReplayRefused, Discard, Answer, Forget, Goto, NoEntry, rows,
     clocks
<1>20. ASSUME NEW r \in Reqs, LogoutRead(r) PROVE HandoverInv'
  BY <1>20 DEF LogoutRead, Stay, Answer, Forget, Goto, Revoking, rows, clocks
<1>21. ASSUME NEW r \in Reqs, LogoutWrite(r) PROVE HandoverInv'
  BY <1>21 DEF LogoutWrite, Answer, Forget, Goto, clocks
<1>22. ASSUME NEW r \in Reqs, ResetApply(r) PROVE HandoverInv'
  BY <1>22 DEF ResetApply, RevokeHit, Answer, Forget, Goto, clocks
<1>23. ASSUME NEW r \in Reqs, RedisDegraded(r) PROVE HandoverInv'
  BY <1>23 DEF RedisDegraded, Presented, Goto, rows, clocks
<1>24. ASSUME NEW r \in Reqs, RotateError(r) PROVE HandoverInv'
  BY <1>24 DEF RotateError, Goto, rows
<1>25. ASSUME NEW r \in Reqs, RotateCommitLost(r) PROVE HandoverInv'
  BY <1>25 DEF RotateCommitLost, CommitRotation, Goto
<1>26. ASSUME NEW r \in Reqs, ReplayError(r) PROVE HandoverInv'
  BY <1>26 DEF ReplayError, Answer, Forget, Goto, rows
<1>27. ASSUME NEW r \in Reqs, Crash(r) PROVE HandoverInv'
  BY <1>27 DEF Crash, InFlight, Forget, Goto, rows, clocks
<1>28. ASSUME NEW t \in Tokens, Deadline(t) PROVE HandoverInv'
  BY <1>28 DEF Deadline, rows, clocks, locals
<1>29. ASSUME NEW t \in Tokens, Ttl(t) PROVE HandoverInv'
  BY <1>29 DEF Ttl, NoEntry, rows, clocks, locals
<1>30. ASSUME NEW t \in Tokens, Expire(t) PROVE HandoverInv'
  BY <1>30 DEF Expire, clocks, locals
<1>31. ASSUME ToggleActive PROVE HandoverInv'
  BY <1>31 DEF ToggleActive, rows, locals
<1>32. ASSUME UNCHANGED vars PROVE HandoverInv'
  BY <1>32 DEF vars, rows, clocks, locals
<1> QED BY ONLY [Next]_vars, <1>1, <1>2, <1>3, <1>4, <1>5, <1>6, <1>7, <1>8,
    <1>9, <1>10, <1>11, <1>12, <1>13, <1>14, <1>15, <1>16, <1>17, <1>18,
    <1>19, <1>20, <1>21, <1>22, <1>23, <1>24, <1>25, <1>26, <1>27, <1>28,
    <1>29, <1>30, <1>31, <1>32
       DEF Next, Client, Server, Fault, Await, Rotate, Leave

LEMMA SafetyAlways == Spec => []SafetyInv
BY InitSafetyInv, SafetyStep, PTL DEF Spec

\* Type correctness of the model.
THEOREM TypeCorrect == Spec => []TypeOK
<1>1. SafetyInv => TypeOK
  BY DEF SafetyInv, HandoverInv, TypeInv
<1> QED BY <1>1, SafetyAlways, PTL

\* A consumed token is revoked for good, in the family of its successor.
THEOREM ConsumedIsForGood == Spec => []ConsumedForGood
<1>1. SafetyInv => ConsumedForGood
  BY DEF SafetyInv, HandoverInv
<1> QED BY <1>1, SafetyAlways, PTL

\* A replay hands over nothing but the successor of the token presented.
THEOREM ReplayIsOwn == Spec => []ReplayGivesOwnSuccessor
<1>1. SafetyInv => ReplayGivesOwnSuccessor
  BY DEF SafetyInv, HandoverInv
<1> QED BY <1>1, SafetyAlways, PTL

-------------------------------------------------------------------------------
(* A session that is over stays over.                                      *)

LEMMA DeadFamilyStep ==
    ASSUME SafetyInv, Next, NEW f \in Tokens, family[f] = f, DeadFamily(f)
    PROVE  DeadFamily(f)'
<1> USE RotationAssumption
    DEF SafetyInv, HandoverInv, TypeInv, TypeOK, RowsWellFormed,
        RequestsWellFormed, InsertsReserved, DeadFamily
<1>1. ASSUME Login PROVE DeadFamily(f)'
  BY <1>1 DEF Login, Unused, clocks, locals
<1>2. ASSUME NEW r \in Reqs, Refresh(r) PROVE DeadFamily(f)'
  BY <1>2 DEF Refresh, Presented, TryClaim, Goto, Pending, rows, clocks
<1>3. ASSUME NEW r \in Reqs, Logout(r) PROVE DeadFamily(f)'
  BY <1>3 DEF Logout, Presented, Discard, Goto, NoEntry, Revoking, rows,
     clocks
<1>4. ASSUME NEW r \in Reqs, Reset(r) PROVE DeadFamily(f)'
  BY <1>4 DEF Reset, Goto, Revoking, rows, clocks
<1>5. ASSUME NEW r \in Reqs, Reclaim(r) PROVE DeadFamily(f)'
  BY <1>5 DEF Reclaim, TryClaim, Goto, Pending, rows, clocks
<1>6. ASSUME NEW r \in Reqs, AwaitVanished(r) PROVE DeadFamily(f)'
  BY <1>6 DEF AwaitVanished, Goto, rows, clocks
<1>7. ASSUME NEW r \in Reqs, AwaitResult(r) PROVE DeadFamily(f)'
  BY <1>7 DEF AwaitResult, Goto, rows, clocks
<1>8. ASSUME NEW r \in Reqs, AwaitStale(r) PROVE DeadFamily(f)'
  BY <1>8 DEF AwaitStale, Stay, Goto, rows, clocks
<1>9. ASSUME NEW r \in Reqs, AwaitTimeout(r) PROVE DeadFamily(f)'
  BY <1>9 DEF AwaitTimeout, Stay, Goto, rows, clocks
<1>10. ASSUME NEW r \in Reqs, RotateRead(r) PROVE DeadFamily(f)'
  BY <1>10 DEF RotateRead, Stay, Goto, rows, clocks
<1>11. ASSUME NEW r \in Reqs, RotateWrite(r) PROVE DeadFamily(f)'
  BY <1>11 DEF RotateWrite, Unused, Goto, rows, clocks
<1>12. ASSUME NEW r \in Reqs, RotateCommit(r) PROVE DeadFamily(f)'
  BY <1>12 DEF RotateCommit, CommitRotation, Stay, Goto, clocks
<1>13. ASSUME NEW r \in Reqs, RotatePublish(r) PROVE DeadFamily(f)'
  BY <1>13 DEF RotatePublish, Answer, Forget, Goto, Fresh, rows, clocks
<1>14. ASSUME NEW r \in Reqs, ReuseDiscard(r) PROVE DeadFamily(f)'
  BY <1>14 DEF ReuseDiscard, Stay, Goto, Discard, NoEntry, rows, clocks
<1>15. ASSUME NEW r \in Reqs, RevokeSnapshot(r) PROVE DeadFamily(f)'
  BY <1>15 DEF RevokeSnapshot, Goto, rows, clocks
<1>16. ASSUME NEW r \in Reqs, RevokeApply(r) PROVE DeadFamily(f)'
  BY <1>16 DEF RevokeApply, RevokeHit, Stay, Goto, clocks
<1>17. ASSUME NEW r \in Reqs, RefreshFails(r) PROVE DeadFamily(f)'
  BY <1>17 DEF RefreshFails, Discard, Answer, Forget, Goto, NoEntry, rows,
     clocks
<1>18. ASSUME NEW r \in Reqs, ReplayRead(r) PROVE DeadFamily(f)'
  BY <1>18 DEF ReplayRead, Stay, Answer, Forget, Goto, rows, clocks
<1>19. ASSUME NEW r \in Reqs, ReplayRefused(r) PROVE DeadFamily(f)'
  BY <1>19 DEF ReplayRefused, Discard, Answer, Forget, Goto, NoEntry, rows,
     clocks
<1>20. ASSUME NEW r \in Reqs, LogoutRead(r) PROVE DeadFamily(f)'
  BY <1>20 DEF LogoutRead, Stay, Answer, Forget, Goto, Revoking, rows, clocks
<1>21. ASSUME NEW r \in Reqs, LogoutWrite(r) PROVE DeadFamily(f)'
  BY <1>21 DEF LogoutWrite, Answer, Forget, Goto, clocks
<1>22. ASSUME NEW r \in Reqs, ResetApply(r) PROVE DeadFamily(f)'
  BY <1>22 DEF ResetApply, RevokeHit, Answer, Forget, Goto, clocks
<1>23. ASSUME NEW r \in Reqs, RedisDegraded(r) PROVE DeadFamily(f)'
  BY <1>23 DEF RedisDegraded, Presented, Goto, rows, clocks
<1>24. ASSUME NEW r \in Reqs, RotateError(r) PROVE DeadFamily(f)'
  BY <1>24 DEF RotateError, Goto, rows
<1>25. ASSUME NEW r \in Reqs, RotateCommitLost(r) PROVE DeadFamily(f)'
  BY <1>25 DEF RotateCommitLost, CommitRotation, Goto
<1>26. ASSUME NEW r \in Reqs, ReplayError(r) PROVE DeadFamily(f)'
  BY <1>26 DEF ReplayError, Answer, Forget, Goto, rows
<1>27. ASSUME NEW r \in Reqs, Crash(r) PROVE DeadFamily(f)'
  BY <1>27 DEF Crash, InFlight, Forget, Goto, rows, clocks
<1>28. ASSUME NEW t \in Tokens, Deadline(t) PROVE DeadFamily(f)'
  BY <1>28 DEF Deadline, rows, clocks, locals
<1>29. ASSUME NEW t \in Tokens, Ttl(t) PROVE DeadFamily(f)'
  BY <1>29 DEF Ttl, NoEntry, rows, clocks, locals
<1>30. ASSUME NEW t \in Tokens, Expire(t) PROVE DeadFamily(f)'
  BY <1>30 DEF Expire, clocks, locals
<1>31. ASSUME ToggleActive PROVE DeadFamily(f)'
  BY <1>31 DEF ToggleActive, rows, locals
<1> QED BY ONLY Next, <1>1, <1>2, <1>3, <1>4, <1>5, <1>6, <1>7, <1>8, <1>9,
    <1>10, <1>11, <1>12, <1>13, <1>14, <1>15, <1>16, <1>17, <1>18, <1>19,
    <1>20, <1>21, <1>22, <1>23, <1>24, <1>25, <1>26, <1>27, <1>28, <1>29,
    <1>30, <1>31
       DEF Next, Client, Server, Fault, Await, Rotate, Leave

\* Once a family has neither a live token nor a rotation past its checks, no
\* request, fault or crash ever gives it a live token again.
THEOREM OverIsOver == Spec => DeadFamilyStaysDead
<1>1. SafetyInv /\ [Next]_vars =>
        [\A f \in Tokens :
           family[f] = f /\ DeadFamily(f) => DeadFamily(f)']_vars
  BY DeadFamilyStep
<1> QED BY <1>1, SafetyAlways, PTL DEF Spec, DeadFamilyStaysDead

-------------------------------------------------------------------------------
(* The claims.                                                             *)

\* A request at work on its token keeps the claim of nobody else.
LEMMA ClaimStep ==
    ASSUME ClaimsGivenBack, SafetyInv, ClaimReleased, [Next]_vars
    PROVE  ClaimReleased'
<1> USE DEF SafetyInv, TypeInv, TypeOK, RequestsWellFormed, ClaimReleased, Working, Rotating, Failing
<1>1. CASE Login \/ UNCHANGED vars \/ ToggleActive
  BY <1>1 DEF Login, ToggleActive, vars, rows, clocks, locals
<1>2. ASSUME NEW r \in Reqs, NEW t \in Tokens, TryClaim(r, t), tok' = [tok EXCEPT ![r] = t],
             pc[r] \in {"idle", "claim"}
      PROVE  ClaimReleased'
  <2>1. CASE entry[t].kind = "none"
    BY <1>2, <2>1 DEF TryClaim, Pending, Goto
  <2>2. CASE entry[t].kind # "none"
    BY <1>2, <2>2 DEF TryClaim, Goto
  <2> QED BY <2>1, <2>2
<1>3. ASSUME NEW r \in Reqs, Refresh(r) PROVE ClaimReleased'
  BY <1>2, <1>3 DEF Refresh, Presented
<1>4. ASSUME NEW r \in Reqs, Logout(r) PROVE ClaimReleased'
  BY <1>4 DEF Logout, Presented, Discard, NoEntry, Goto, ClaimsGivenBack
<1>5. ASSUME NEW r \in Reqs, Reset(r) PROVE ClaimReleased'
  BY <1>5 DEF Reset, Goto
<1>6. ASSUME NEW r \in Reqs, Reclaim(r) PROVE ClaimReleased'
  <2>1. tok[r] \in Tokens /\ tok' = [tok EXCEPT ![r] = tok[r]]
    BY <1>6 DEF Reclaim
  <2> QED BY <1>2, <1>6, <2>1 DEF Reclaim
<1>7. ASSUME NEW r \in Reqs, Await(r) PROVE ClaimReleased'
  BY <1>7 DEF Await, AwaitVanished, AwaitResult, AwaitStale, AwaitTimeout, Stay, Goto
<1>8. ASSUME NEW r \in Reqs, RotateRead(r) \/ RotateWrite(r) \/ RotateCommit(r)
                             \/ RevokeSnapshot(r) \/ RevokeApply(r)
      PROVE  ClaimReleased'
  BY <1>8 DEF RotateRead, RotateWrite, RotateCommit, CommitRotation, RevokeSnapshot, RevokeApply, Stay, Goto
<1>9. ASSUME NEW r \in Reqs, RotatePublish(r) PROVE ClaimReleased'
  BY <1>9 DEF RotatePublish, Answer, Forget, Goto, Fresh, ClaimsGivenBack
<1>10. ASSUME NEW r \in Reqs, ReuseDiscard(r) \/ RefreshFails(r) \/ ReplayRefused(r)
       PROVE  ClaimReleased'
  <2>1. entry' = [entry EXCEPT ![tok[r]] = NoEntry] /\ tok[r] \in Tokens
    BY <1>10 DEF ReuseDiscard, RefreshFails, ReplayRefused, Discard, ClaimsGivenBack
  <2>2. \A q \in Reqs : q # r => pc'[q] = pc[q] /\ tok'[q] = tok[q]
    BY <1>10 DEF ReuseDiscard, RefreshFails, ReplayRefused, Stay, Answer, Forget, Goto
  <2>3. entry'[tok[r]].kind = "none" /\ \A t \in Tokens : t # tok[r] => entry'[t] = entry[t]
    BY <2>1 DEF NoEntry
  <2> QED BY <2>2, <2>3
<1>11. ASSUME NEW r \in Reqs, ReplayRead(r) \/ Leave(r) \/ ReplayError(r) PROVE ClaimReleased'
  BY <1>11 DEF ReplayRead, Leave, LogoutRead, LogoutWrite, ResetApply, ReplayError, Stay, Answer, Forget,
               Goto, Revoking
<1>12. ASSUME NEW r \in Reqs, RotateError(r) \/ RotateCommitLost(r) PROVE ClaimReleased'
  BY <1>12 DEF RotateError, RotateCommitLost, CommitRotation, Goto
<1>13. ASSUME NEW t \in Tokens, Deadline(t) \/ Ttl(t) \/ Expire(t) PROVE ClaimReleased'
  <2>1. UNCHANGED <<pc, tok>>
    BY <1>13 DEF Deadline, Ttl, Expire, locals
  <2>2. \A u \in Tokens : entry'[u].kind = "pending" => entry[u].kind = "pending"
    <3>1. CASE Deadline(t)
      BY <3>1 DEF Deadline
    <3>2. CASE Ttl(t)
      BY <3>2 DEF Ttl, NoEntry
    <3>3. CASE Expire(t)
      BY <3>3 DEF Expire
    <3> QED BY <1>13, <3>1, <3>2, <3>3
  <2> QED BY <2>1, <2>2
<1>14. \A r \in Reqs : ~ RedisDegraded(r) /\ ~ Crash(r)
  BY DEF RedisDegraded, Crash, ClaimsGivenBack
<1> QED BY ONLY [Next]_vars, <1>1, <1>3, <1>4, <1>5, <1>6, <1>7, <1>8, <1>9, <1>10, <1>11, <1>12,
                <1>13, <1>14
        DEF Next, Client, Server, Fault, Rotate

\* A pending entry always has a request at work on its token, as long as Redis
\* answers and no worker dies: the except clause of refresh gives the claim back
\* after slow rotations, failed statements and lost commits, and a logout or a
\* suspension in between takes nothing from it.
THEOREM ClaimsAreReleased == ASSUME ClaimsGivenBack PROVE Spec => []ClaimReleased
<1>1. Init => SafetyInv /\ ClaimReleased
  BY InitSafetyInv DEF Init, ClaimReleased, NoEntry
<1>2. (SafetyInv /\ ClaimReleased) /\ [Next]_vars => (SafetyInv /\ ClaimReleased)'
  BY ClaimsGivenBack, SafetyStep, ClaimStep
<1> QED BY <1>1, <1>2, PTL DEF Spec

===============================================================================
