------------------------------ MODULE WalletProofs ------------------------------
(***************************************************************************)
(* Proofs about YuniWallet, for any number of requests, references,        *)
(* amounts and transactions.                                               *)
(***************************************************************************)
EXTENDS WalletInvariant, TLAPS

AllKinds == Kinds \cup {"create", "suspend", "reactivate"}

\* What Applied returns, field by field.
LEMMA AppliedFields ==
    ASSUME NEW w \in Wallet, NEW o, NEW a \in Nat
    PROVE  /\ Applied(w, o, a) \in Wallet
           /\ Applied(w, o, a).balance = w.balance + Delta(o.kind, a)
           /\ o.kind \in Kinds => Applied(w, o, a).status = w.status
           /\ w.status # "absent" => Applied(w, o, a).status # "absent"
  BY DEF Applied, Wallet, Kinds, Delta

\* What an operation asks is one of the calls, once there is one.
LEMMA OpFacts ==
    ASSUME NEW o \in Ops
    PROVE  /\ o.kind \in AllKinds
           /\ o.kind \in {"EARN", "SPEND"} =>
                o.amount \in Amounts /\ o.ref \in Refs \cup {Nil} /\ o.orig = Nil
           /\ o.kind = "REVERSAL" => o.orig \in Nat /\ o.ref \in Refs \cup {Nil}
           /\ o # NoOp
  BY WalletAssumption
     DEF Ops, Payments, Reversals, Management, NoOp, AllKinds, Kinds

\* The amount and the reference of an operation that may go ahead.
LEMMA TxFields ==
    ASSUME TypeOK, NEW r \in Reqs, op[r] \in Ops, IsMoney(op[r]),
           op[r].kind = "REVERSAL" => Reversible(op[r].orig)
    PROVE  /\ AmountOf(op[r]) \in Amounts
           /\ AmountOf(op[r]) \in Nat
           /\ RefOf(op[r]) \in Refs \cup Nat \cup {Nil}
           /\ op[r].orig \in Nat \cup {Nil}
  <1>1. CASE op[r].kind = "REVERSAL"
    <2>1. op[r].orig \in DOMAIN ledger
      BY <1>1 DEF Reversible
    <2>2. ledger[op[r].orig] \in Tx
      BY <2>1 DEF TypeOK
    <2> QED BY <1>1, <2>2, OpFacts, WalletAssumption DEF AmountOf, RefOf, Tx
  <1>2. CASE op[r].kind \in {"EARN", "SPEND"}
    BY <1>2, OpFacts, WalletAssumption DEF AmountOf, RefOf
  <1> QED BY <1>1, <1>2 DEF IsMoney, Kinds

LEMMA InitInv == Init => WalletInv
  <1> SUFFICES ASSUME Init PROVE WalletInv
    OBVIOUS
  <1>1. TypeOK
    BY DEF Init, TypeOK, NoWallet, Wallet, PCs
  <1>2. OneHolder /\ AbsentIsEmpty /\ HandInv
    BY DEF Init, OneHolder, AbsentIsEmpty, HandInv, InHand, Holds
  <1>3. LedgerExplainsBalance /\ NeverOverdrawn
    BY DEF Init, LedgerExplainsBalance, NeverOverdrawn, Before, NoWallet
  <1> QED BY <1>1, <1>2, <1>3 DEF WalletInv

----------------------------------------------------------------------------
(* Steps that write nothing                                                *)

\* Only the locals of r change.
Alone(r) ==
    /\ UNCHANGED <<wallet, ledger>>
    /\ \A q \in Reqs \ {r} :
        pc'[q] = pc[q] /\ op'[q] = op[q] /\ mine'[q] = mine[q]

\* Such a step keeps the invariant if what r holds is right.
LEMMA AloneKeeps ==
    ASSUME WalletInv, NEW r \in Reqs, Alone(r), TypeOK', InHand(r)',
           Holds(r)' => \A q \in Reqs \ {r} : ~Holds(q),
           pc'[r] \in {"flush", "commit"} => mine'[r].balance >= 0
    PROVE  WalletInv'
  <1>1. OneHolder'
    BY DEF WalletInv, OneHolder, Holds, Alone
  <1>2. AbsentIsEmpty'
    BY DEF WalletInv, AbsentIsEmpty, Alone
  <1>3. HandInv'
    <2> SUFFICES ASSUME NEW q \in Reqs \ {r} PROVE InHand(q)'
      BY DEF HandInv
    <2>1. InHand(q)
      BY DEF WalletInv, HandInv
    <2> QED BY <2>1 DEF InHand, Alone, Row, Recorded, Reversible, RefOf, AmountOf,
                        IsMoney
  <1>4. LedgerExplainsBalance'
    BY DEF WalletInv, LedgerExplainsBalance, Before, Alone
  <1>5. NeverOverdrawn'
    BY DEF WalletInv, NeverOverdrawn, Alone
  <1> QED BY <1>1, <1>2, <1>3, <1>4, <1>5 DEF WalletInv

\* A session that is closed holds nothing.
LEMMA LeaveKeeps ==
    ASSUME WalletInv, NEW r \in Reqs, Leave(r), UNCHANGED <<wallet, ledger>>
    PROVE  WalletInv'
  <1>1. TypeOK'
    BY DEF WalletInv, TypeOK, Leave, Goto, Ask, See, NoWallet, Wallet, PCs
  <1>2. pc'[r] = "idle"
    BY DEF Leave, Goto, WalletInv, TypeOK
  <1>3. Alone(r)
    BY DEF Alone, Leave, Goto, Ask, See, WalletInv, TypeOK
  <1> QED BY <1>1, <1>2, <1>3, AloneKeeps DEF InHand, Holds

LEMMA WaitingKeeps ==
    ASSUME WalletInv, NEW r \in Reqs, Call(r) \/ Hook(r) \/ LockMissing(r)
                                      \/ InsertConflict(r)
    PROVE  WalletInv'
  <1>1. TypeOK'
    BY DEF WalletInv, TypeOK, Call, Hook, LockMissing, InsertConflict, Goto, Ask,
           See, PCs, Ops
  <1>2. pc'[r] \in {"lock", "insert"}
    BY DEF Call, Hook, LockMissing, InsertConflict, Goto, WalletInv, TypeOK
  <1>3. Alone(r)
    BY DEF Alone, Call, Hook, LockMissing, InsertConflict, Goto, Ask, See,
           WalletInv, TypeOK
  <1>4. op'[r] \in Ops
    BY DEF Call, Hook, LockMissing, InsertConflict, Ask, WalletInv, TypeOK, HandInv,
           InHand, Ops
  <1> QED BY <1>1, <1>2, <1>3, <1>4, AloneKeeps DEF InHand, Holds

----------------------------------------------------------------------------
(* Steps of the holder of the row                                          *)

\* What the holder reads or inserts is a well-typed row of a wallet.
LEMMA RowFacts ==
    ASSUME WalletInv
    PROVE  /\ Row \in Wallet
           /\ Row.status # "absent"
           /\ Row.balance = wallet.balance
           /\ wallet.balance >= 0
  BY DEF WalletInv, TypeOK, AbsentIsEmpty, NeverOverdrawn, Row, NewWallet, NoWallet,
         Wallet

LEMMA EnterKeeps ==
    ASSUME WalletInv, NEW r \in Reqs, pc[r] \in {"lock", "insert"}, ~Locked,
           Enter(r, Row), UNCHANGED <<wallet, ledger>>
    PROVE  WalletInv'
  <1> USE RowFacts
  <1>1. op[r] \in Ops
    BY DEF WalletInv, HandInv, InHand
  <1>2. CASE Leave(r)
    BY <1>2, LeaveKeeps
  <1>3. CASE Row.status # "suspended" /\ IsMoney(op[r])
             /\ See(r, Row) /\ Goto(r, "find") /\ UNCHANGED op
    <2>1. TypeOK'
      BY <1>3 DEF WalletInv, TypeOK, See, Goto, PCs
    <2>2. Alone(r)
      BY <1>3 DEF Alone, See, Goto, WalletInv, TypeOK
    <2>3. pc'[r] = "find" /\ mine'[r] = Row /\ op'[r] = op[r]
      BY <1>3 DEF See, Goto, WalletInv, TypeOK
    <2>4. Row.status = "active" /\ Row' = Row
      BY <1>3 DEF Wallet, Row
    <2>5. InHand(r)'
      BY <1>1, <1>3, <2>3, <2>4 DEF InHand, IsMoney
    <2> QED BY <2>1, <2>2, <2>3, <2>5, AloneKeeps DEF Locked, Holds
  <1>4. CASE ~IsMoney(op[r]) /\ See(r, Applied(Row, op[r], 0))
             /\ Goto(r, "commit") /\ UNCHANGED op
    <2>1. Applied(Row, op[r], 0) \in Wallet
          /\ Applied(Row, op[r], 0).balance = Row.balance
      BY <1>4, AppliedFields DEF Delta, IsMoney, Kinds, Wallet
    <2>2. TypeOK'
      BY <1>4, <2>1 DEF WalletInv, TypeOK, See, Goto, PCs
    <2>3. Alone(r)
      BY <1>4 DEF Alone, See, Goto, WalletInv, TypeOK
    <2>4. pc'[r] = "commit" /\ mine'[r] = Applied(Row, op[r], 0) /\ op'[r] = op[r]
      BY <1>4 DEF See, Goto, WalletInv, TypeOK
    <2>5. Row' = Row
      BY DEF Row
    <2>6. InHand(r)'
      BY <1>1, <1>4, <2>4, <2>5 DEF InHand, IsMoney
    <2> QED BY <2>1, <2>2, <2>3, <2>4, <2>6, AloneKeeps DEF Locked, Holds
  <1> QED BY <1>2, <1>3, <1>4 DEF Enter

LEMMA LockKeeps ==
    ASSUME WalletInv, NEW r \in Reqs, Lock(r) \/ Insert(r)
    PROVE  WalletInv'
  <1>1. CASE Lock(r)
    BY <1>1, EnterKeeps DEF Lock, Row
  <1>2. CASE Insert(r)
    BY <1>2, EnterKeeps DEF Insert, Row
  <1> QED BY <1>1, <1>2

LEMMA ComputeKeeps ==
    ASSUME WalletInv, NEW r \in Reqs, Compute(r)
    PROVE  WalletInv'
  <1> USE RowFacts
  <1>1. /\ op[r] \in Ops /\ IsMoney(op[r])
        /\ mine[r] = Row /\ Row.status = "active"
    BY DEF WalletInv, HandInv, InHand, Compute
  <1>2. /\ op[r].kind = "REVERSAL" => Reversible(op[r].orig)
        /\ ~Recorded(op[r].kind, RefOf(op[r]))
        /\ op[r].kind = "SPEND" => ~(Row.balance < op[r].amount)
    BY <1>1 DEF Compute, Answered
  <1>3. AmountOf(op[r]) \in Nat
    BY <1>1, <1>2, TxFields DEF WalletInv
  <1>4. op[r].kind = "SPEND" =>
          AmountOf(op[r]) = op[r].amount /\ Row.balance >= op[r].amount
    BY <1>2, <1>3 DEF AmountOf, Wallet
  <1> DEFINE w == Applied(Row, op[r], AmountOf(op[r]))
  <1>5. w \in Wallet /\ w.balance = Row.balance + Delta(op[r].kind, AmountOf(op[r]))
    BY <1>3, AppliedFields
  <1>6. w.balance >= 0
    BY <1>3, <1>4, <1>5 DEF Delta, Wallet
  <1>7. mine' = [mine EXCEPT ![r] = w] /\ pc' = [pc EXCEPT ![r] = "flush"]
        /\ UNCHANGED <<wallet, ledger, op>>
    BY <1>1 DEF Compute, See, Goto
  <1> HIDE DEF w
  <1>8. TypeOK'
    BY <1>5, <1>7 DEF WalletInv, TypeOK, PCs
  <1>9. Alone(r)
    BY <1>7 DEF Alone, WalletInv, TypeOK
  <1>10. pc'[r] = "flush" /\ mine'[r] = w /\ op'[r] = op[r] /\ Row' = Row
    BY <1>7 DEF WalletInv, TypeOK, Row
  <1>11. /\ AmountOf(op[r])' = AmountOf(op[r])
         /\ Recorded(op[r].kind, RefOf(op[r]))' = Recorded(op[r].kind, RefOf(op[r]))
         /\ Reversible(op[r].orig)' = Reversible(op[r].orig)
    BY <1>7, <1>10 DEF AmountOf, Recorded, RefOf, Reversible
  <1>12. InHand(r)'
    BY <1>1, <1>2, <1>4, <1>10, <1>11 DEF InHand, IsMoney, w
  <1>13. Holds(r)
    BY DEF Compute, Holds
  <1> QED BY <1>6, <1>8, <1>9, <1>10, <1>12, <1>13, AloneKeeps
          DEF WalletInv, OneHolder

LEMMA FlushKeeps ==
    ASSUME WalletInv, NEW r \in Reqs, Flush(r)
    PROVE  WalletInv'
  <1>1. IsMoney(op[r]) /\ InHand(r) /\ pc[r] = "flush"
    BY DEF Flush, WalletInv, HandInv, InHand
  <1>2. ~Recorded(op[r].kind, RefOf(op[r]))
    BY <1>1 DEF InHand
  <1>3. pc' = [pc EXCEPT ![r] = "commit"] /\ UNCHANGED <<wallet, ledger, op, mine>>
    BY <1>2 DEF Flush, Goto
  <1>4. TypeOK'
    BY <1>3 DEF WalletInv, TypeOK, PCs
  <1>5. Alone(r) /\ pc'[r] = "commit"
    BY <1>3 DEF Alone, WalletInv, TypeOK
  <1>6. InHand(r)'
    BY <1>1, <1>3, <1>5 DEF InHand, IsMoney, Row, AmountOf, Recorded, RefOf, Reversible
  <1>7. mine'[r].balance >= 0
    BY <1>1, <1>3 DEF WalletInv, NeverOverdrawn
  <1> QED BY <1>1, <1>4, <1>5, <1>6, <1>7, AloneKeeps DEF WalletInv, OneHolder, Holds

\* What COMMIT writes: the row in hand, and its transaction if there is one.
LEMMA CommitEffect ==
    ASSUME WalletInv, NEW r \in Reqs, Commit(r)
    PROVE  /\ wallet' = mine[r] /\ mine[r] \in Wallet
           /\ mine[r].status # "absent" /\ mine[r].balance >= 0
           /\ IsMoney(op[r]) =>
                /\ ledger' = Append(ledger, NewTx(r))
                /\ NewTx(r) \in Tx
                /\ mine[r].balance = wallet.balance
                                      + Delta(NewTx(r).kind, NewTx(r).amount)
           /\ ~IsMoney(op[r]) =>
                ledger' = ledger /\ mine[r].balance = wallet.balance
  <1> USE RowFacts
  <1>1. pc[r] = "commit" /\ InHand(r) /\ TypeOK /\ op[r] \in Ops
    BY DEF Commit, WalletInv, HandInv, InHand
  <1>2. mine[r] \in Wallet /\ mine[r].balance >= 0 /\ wallet' = mine[r]
    BY <1>1 DEF Commit, WalletInv, TypeOK, NeverOverdrawn
  <1>3. CASE IsMoney(op[r])
    <2>1. /\ mine[r] = Applied(Row, op[r], AmountOf(op[r]))
          /\ op[r].kind = "REVERSAL" => Reversible(op[r].orig)
      BY <1>1, <1>3 DEF InHand
    <2>2. /\ AmountOf(op[r]) \in Amounts /\ AmountOf(op[r]) \in Nat
          /\ RefOf(op[r]) \in Refs \cup Nat \cup {Nil}
          /\ op[r].orig \in Nat \cup {Nil}
      BY <1>1, <1>3, <2>1, TxFields
    <2>3. NewTx(r) \in Tx
      BY <1>2, <1>3, <2>2 DEF NewTx, Tx, IsMoney, Wallet
    <2>4. mine[r].balance = Row.balance + Delta(op[r].kind, AmountOf(op[r]))
          /\ mine[r].status # "absent"
      BY <2>1, <2>2, AppliedFields
    <2>5. ledger' = Append(ledger, NewTx(r))
      BY <1>3 DEF Commit
    <2>6. NewTx(r).kind = op[r].kind /\ NewTx(r).amount = AmountOf(op[r])
      BY DEF NewTx
    <2> QED BY <1>2, <1>3, <2>3, <2>4, <2>5, <2>6
  <1>4. CASE ~IsMoney(op[r])
    <2>1. mine[r] = Applied(Row, op[r], 0)
      BY <1>1, <1>4 DEF InHand
    <2>2. mine[r].balance = Row.balance /\ mine[r].status # "absent"
      BY <1>4, <2>1, AppliedFields DEF Delta, IsMoney, Kinds, Wallet
    <2> QED BY <1>2, <1>4, <2>2 DEF Commit
  <1> QED BY <1>3, <1>4

LEMMA CommitKeeps ==
    ASSUME WalletInv, NEW r \in Reqs, Commit(r)
    PROVE  WalletInv'
  <1> USE CommitEffect
  <1>1. TypeOK'
    <2>1. ledger' \in Seq(Tx)
      BY DEF WalletInv, TypeOK
    <2> QED BY <2>1 DEF WalletInv, TypeOK, Commit, Leave, Goto, Ask, See, NoWallet,
                        Wallet, PCs
  <1>2. /\ pc'[r] = "idle"
        /\ \A q \in Reqs \ {r} :
             /\ pc'[q] = pc[q] /\ op'[q] = op[q] /\ mine'[q] = mine[q]
             /\ ~Holds(q)
    BY DEF WalletInv, TypeOK, OneHolder, Holds, Commit, Leave, Goto, Ask, See
  <1>3. OneHolder'
    BY <1>2 DEF OneHolder, Holds
  <1>4. AbsentIsEmpty'
    BY DEF AbsentIsEmpty
  <1>5. HandInv'
    BY <1>2 DEF WalletInv, HandInv, InHand, Holds
  <1>6. LedgerExplainsBalance' /\ NeverOverdrawn'
    <2>1. \A q \in Reqs : pc'[q] \notin {"flush", "commit"}
      BY <1>2 DEF Holds
    <2>2. CASE IsMoney(op[r])
      <3>0. PICK n \in Nat : n = Len(ledger)
        BY DEF WalletInv, TypeOK
      <3>1. /\ DOMAIN ledger = 1 .. n
            /\ DOMAIN ledger' = 1 .. (n + 1) /\ Len(ledger') = n + 1
            /\ \A i \in 1 .. n : ledger'[i] = ledger[i]
            /\ ledger'[n + 1] = NewTx(r)
        BY <2>2, <3>0 DEF WalletInv, TypeOK
      <3>2. wallet.balance = Before(n + 1)
        BY <3>0 DEF WalletInv, LedgerExplainsBalance
      <3>3. NewTx(r).after = mine[r].balance
        BY DEF NewTx
      <3>4. ASSUME NEW i \in 1 .. (n + 1) PROVE Before(i)' = Before(i)
        <4>1. CASE i = 1
          BY <4>1 DEF Before
        <4>2. CASE i # 1
          <5>1. i - 1 \in 1 .. n
            BY <3>1, <4>2
          <5> QED BY <3>1, <4>2, <5>1 DEF Before
        <4> QED BY <4>1, <4>2
      <3>5. LedgerExplainsBalance'
        <4>1. ASSUME NEW i \in 1 .. n
              PROVE  ledger'[i].after
                       = Before(i)' + Delta(ledger'[i].kind, ledger'[i].amount)
          <5>1. ledger[i].after = Before(i) + Delta(ledger[i].kind, ledger[i].amount)
            BY <3>1 DEF WalletInv, LedgerExplainsBalance
          <5>2. Before(i)' = Before(i) /\ ledger'[i] = ledger[i]
            BY <3>1, <3>4
          <5> QED BY <5>1, <5>2
        <4>2. ledger'[n + 1].after
                = Before(n + 1)' + Delta(ledger'[n + 1].kind, ledger'[n + 1].amount)
          <5>1. Before(n + 1)' = wallet.balance
            BY <3>1, <3>2, <3>4
          <5> QED BY <2>2, <3>1, <3>3, <5>1
        <4>3. wallet'.balance = Before(Len(ledger) + 1)'
          BY <3>1, <3>3 DEF Before
        <4>4. \A i \in DOMAIN ledger' : i \in 1 .. n \/ i = n + 1
          BY <3>1
        <4> QED BY <4>1, <4>2, <4>3, <4>4 DEF LedgerExplainsBalance
      <3>6. NeverOverdrawn'
        BY <2>1, <3>1, <3>3 DEF WalletInv, NeverOverdrawn
      <3> QED BY <3>5, <3>6
    <2>3. CASE ~IsMoney(op[r])
      <3>1. ledger' = ledger /\ wallet'.balance = wallet.balance
        BY <2>3
      <3> QED BY <2>1, <3>1 DEF WalletInv, LedgerExplainsBalance, NeverOverdrawn,
                                Before
    <2> QED BY <2>2, <2>3
  <1> QED BY <1>1, <1>3, <1>4, <1>5, <1>6 DEF WalletInv

LEMMA StepInv == WalletInv /\ [Next]_vars => WalletInv'
  <1> SUFFICES ASSUME WalletInv, [Next]_vars PROVE WalletInv'
    OBVIOUS
  <1>1. CASE UNCHANGED vars
    BY <1>1 DEF vars, WalletInv, TypeOK, OneHolder, Holds, AbsentIsEmpty, HandInv,
                InHand, Row, Recorded, Reversible, RefOf, AmountOf, IsMoney,
                LedgerExplainsBalance, Before, NeverOverdrawn
  <1>2. ASSUME NEW r \in Reqs, Call(r) \/ Hook(r) \/ Work(r) \/ Abort(r)
        PROVE  WalletInv'
    <2>1. CASE Call(r) \/ Hook(r) \/ LockMissing(r) \/ InsertConflict(r)
      BY <2>1, WaitingKeeps
    <2>2. CASE Lock(r) \/ Insert(r)
      BY <2>2, LockKeeps
    <2>3. CASE FindAnswer(r) \/ Abort(r)
      BY <2>3, LeaveKeeps DEF FindAnswer, Abort
    <2>4. CASE Compute(r)
      BY <2>4, ComputeKeeps
    <2>5. CASE Flush(r)
      BY <2>5, FlushKeeps
    <2>6. CASE Commit(r)
      BY <2>6, CommitKeeps
    <2> QED BY <1>2, <2>1, <2>2, <2>3, <2>4, <2>5, <2>6 DEF Work
  <1> QED BY <1>1, <1>2 DEF Next

----------------------------------------------------------------------------
(* Theorems                                                                *)

LEMMA WalletAlways == Spec => []WalletInv
  BY InitInv, StepInv, PTL DEF Spec

\* YuniWalletService is well typed; in particular lifetime_earned and
\* lifetime_spent are never negative.
THEOREM WalletTypeCorrect == Spec => []TypeOK
  BY WalletAlways, PTL DEF WalletInv

\* The audit trail reconstitutes the balance, whatever sessions interleave.
THEOREM AuditTrail == Spec => []LedgerExplainsBalance
  BY WalletAlways, PTL DEF WalletInv

\* No interleaving of spend, earn and reverse overdraws a wallet.
THEOREM NoOverdraft == Spec => []NeverOverdrawn
  BY WalletAlways, PTL DEF WalletInv

\* The row lock alone makes earn, spend and reverse idempotent.
THEOREM LockIsEnough == Spec => []IndexNeverHit
  <1>1. WalletInv => IndexNeverHit
    BY DEF WalletInv, HandInv, InHand, IndexNeverHit
  <1> QED BY <1>1, WalletAlways, PTL

\* Money stays where it is in a suspended wallet.
THEOREM SuspensionHolds == Spec => FrozenWhenSuspended
  <1> DEFINE Frozen == wallet.status = "suspended" =>
                         ledger' = ledger /\ wallet'.balance = wallet.balance
  <1>1. WalletInv /\ [Next]_vars => [Frozen]_vars
    <2> SUFFICES ASSUME WalletInv, Next PROVE Frozen
      OBVIOUS
    <2>1. PICK r \in Reqs : Call(r) \/ Hook(r) \/ Work(r) \/ Abort(r)
      BY DEF Next
    <2>2. CASE Commit(r)
      <3>1. IsMoney(op[r]) => Row.status = "active"
        BY <2>2 DEF Commit, WalletInv, HandInv, InHand
      <3> QED BY <2>2, <3>1, CommitEffect DEF Row
    <2>3. CASE ~Commit(r)
      BY <2>1, <2>3 DEF Call, Hook, Work, Abort, Lock, LockMissing, Insert,
                        InsertConflict, FindAnswer, Compute, Flush
    <2> QED BY <2>2, <2>3
  <1> QED BY <1>1, WalletAlways, PTL DEF Spec, FrozenWhenSuspended

\* What a COMMIT on money does to the committed rows, beyond CommitEffect.
LEMMA MoneyEffect ==
    ASSUME WalletInv, NEW r \in Reqs, Commit(r), IsMoney(op[r])
    PROVE  /\ wallet.status # "suspended" /\ wallet'.status = "active"
           /\ wallet'.earned = IF op[r].kind = "EARN"
                               THEN wallet.earned + AmountOf(op[r]) ELSE wallet.earned
           /\ wallet'.spent = IF op[r].kind = "SPEND"
                              THEN wallet.spent + AmountOf(op[r]) ELSE wallet.spent
           /\ wallet'.balance = wallet.balance + Delta(op[r].kind, AmountOf(op[r]))
           /\ wallet'.balance >= 0
           /\ RefOf(op[r]) # Nil => Book!Unused(op[r].kind, RefOf(op[r]))
  <1>1. /\ Row.status = "active" /\ ~Recorded(op[r].kind, RefOf(op[r]))
        /\ mine[r] = Applied(Row, op[r], AmountOf(op[r]))
    BY DEF Commit, WalletInv, HandInv, InHand
  <1>2. Row.earned = wallet.earned /\ Row.spent = wallet.spent
        /\ wallet.status # "suspended"
    BY <1>1 DEF Row, NewWallet, NoWallet, WalletInv, AbsentIsEmpty
  <1>3. op[r].kind \in Kinds /\ wallet' = mine[r]
    BY DEF Commit, IsMoney
  <1>4. wallet'.balance >= 0
        /\ wallet'.balance = wallet.balance + Delta(op[r].kind, AmountOf(op[r]))
    BY CommitEffect DEF NewTx
  <1>5. RefOf(op[r]) # Nil => Book!Unused(op[r].kind, RefOf(op[r]))
    BY <1>1 DEF Recorded, Book!Unused
  <1>6. /\ wallet'.status = "active"
        /\ wallet'.earned = IF op[r].kind = "EARN"
                            THEN wallet.earned + AmountOf(op[r]) ELSE wallet.earned
        /\ wallet'.spent = IF op[r].kind = "SPEND"
                           THEN wallet.spent + AmountOf(op[r]) ELSE wallet.spent
    BY <1>1, <1>2, <1>3 DEF Applied, Kinds
  <1> QED BY <1>2, <1>4, <1>5, <1>6

\* Each COMMIT is one step of the abstract ledger.
LEMMA CommitIsEntry ==
    ASSUME WalletInv, NEW r \in Reqs, Commit(r)
    PROVE  Book!Next
  <1>1. /\ pc[r] = "commit" /\ op[r] \in Ops /\ TypeOK
        /\ wallet' = mine[r] /\ mine[r] \in Wallet
    BY CommitEffect DEF Commit, WalletInv, HandInv, InHand
  <1>2. CASE ~IsMoney(op[r])
    <2>1. mine[r] = Applied(Row, op[r], 0) /\ op[r].kind \notin Kinds
      BY <1>2 DEF Commit, WalletInv, HandInv, InHand, IsMoney
    <2>2. Row.earned = wallet.earned /\ Row.spent = wallet.spent
          /\ Row.earned \in Nat /\ Row.spent \in Nat
      BY <1>1 DEF Row, NewWallet, NoWallet, WalletInv, AbsentIsEmpty, TypeOK, Wallet
    <2>3. wallet'.earned = wallet.earned /\ wallet'.spent = wallet.spent
      BY <1>1, <2>1, <2>2 DEF Applied, Kinds
    <2>4. ledger' = ledger /\ wallet'.balance = wallet.balance
          /\ wallet'.status # "absent"
      BY <1>2, CommitEffect
    <2>5. wallet'.status \in {"active", "suspended"}
      BY <1>1, <2>4 DEF Wallet
    <2> QED BY <2>3, <2>4, <2>5 DEF Book!Next, Book!Manage
  <1>3. CASE IsMoney(op[r])
    <2> DEFINE a == AmountOf(op[r])
               ref == RefOf(op[r])
    <2>1. op[r].kind = "REVERSAL" => Reversible(op[r].orig)
      BY <1>3 DEF Commit, WalletInv, HandInv, InHand
    <2>2. a \in Amounts /\ a \in Nat
      BY <1>1, <1>3, <2>1, TxFields
    <2>3. ledger' = Append(ledger, [kind |-> op[r].kind, ref |-> ref,
                       amount |-> a, after |-> wallet'.balance, orig |-> op[r].orig])
      BY <1>1, <1>3 DEF Commit, NewTx
    <2>4. /\ wallet.status # "suspended" /\ wallet'.status = "active"
          /\ wallet'.earned = IF op[r].kind = "EARN"
                              THEN wallet.earned + a ELSE wallet.earned
          /\ wallet'.spent = IF op[r].kind = "SPEND"
                             THEN wallet.spent + a ELSE wallet.spent
          /\ wallet'.balance = wallet.balance + Delta(op[r].kind, a)
          /\ wallet'.balance >= 0
          /\ ref # Nil => Book!Unused(op[r].kind, ref)
      BY <1>3, MoneyEffect
    <2> HIDE DEF a
    <2>5. CASE op[r].kind = "EARN"
      <3>1. ref \in Refs \cup {Nil} /\ op[r].orig = Nil
        BY <1>1, <2>5, OpFacts DEF RefOf
      <3>2. Book!Earn(ref, a)
        BY <2>3, <2>4, <2>5, <3>1 DEF Book!Earn, Book!Write, Delta
      <3> QED BY <2>2, <2>4, <3>1, <3>2 DEF Book!Next, Book!Transact
    <2>6. CASE op[r].kind = "SPEND"
      <3>1. ref \in Refs \cup {Nil} /\ op[r].orig = Nil
        BY <1>1, <2>6, OpFacts DEF RefOf
      <3>2. Book!Spend(ref, a)
        BY <2>3, <2>4, <2>6, <3>1 DEF Book!Spend, Book!Write, Delta
      <3> QED BY <2>2, <2>4, <3>1, <3>2 DEF Book!Next, Book!Transact
    <2>7. CASE op[r].kind = "REVERSAL"
      <3>1. /\ op[r].orig \in DOMAIN ledger /\ ledger[op[r].orig].kind = "SPEND"
            /\ a = ledger[op[r].orig].amount
        BY <2>1, <2>7 DEF Reversible, AmountOf, a
      <3>2. ref \in Refs \cup DOMAIN ledger
        BY <1>1, <2>7, <3>1, OpFacts DEF RefOf
      <3>3. Book!Reverse(ref, op[r].orig)
        BY <2>3, <2>4, <2>7, <3>1 DEF Book!Reverse, Book!Write, Delta
      <3> QED BY <2>4, <3>1, <3>2, <3>3 DEF Book!Next, Book!Transact
    <2> QED BY <1>3, <2>5, <2>6, <2>7 DEF IsMoney, Kinds
  <1> QED BY <1>2, <1>3

\* Every step is one of the abstract ledger, or changes none of its rows.
LEMMA StepIsEntry ==
    ASSUME WalletInv, [Next]_vars
    PROVE  [Book!Next]_(Book!vars)
  <1>1. CASE UNCHANGED vars
    BY <1>1 DEF vars, Book!vars
  <1>2. ASSUME NEW r \in Reqs, Call(r) \/ Hook(r) \/ Work(r) \/ Abort(r)
        PROVE  Book!Next \/ UNCHANGED Book!vars
    <2>1. CASE Commit(r)
      BY <2>1, CommitIsEntry
    <2>2. CASE ~Commit(r)
      <3>1. UNCHANGED <<wallet, ledger>>
        BY <1>2, <2>2 DEF Call, Hook, Work, Abort, Lock, LockMissing, Insert,
                          InsertConflict, FindAnswer, Compute, Flush
      <3> QED BY <3>1 DEF Book!vars
    <2> QED BY <2>1, <2>2
  <1> QED BY <1>1, <1>2 DEF Next

\* Requests on a wallet take effect one at a time, each at its COMMIT.
THEOREM WalletImplementsLedger == Spec => ImplementsLedger
  <1>1. Init => Book!Init
    BY DEF Init, NoWallet, Book!Init
  <1>2. WalletInv /\ [Next]_vars => [Book!Next]_(Book!vars)
    BY StepIsEntry
  <1> QED BY <1>1, <1>2, WalletAlways, PTL DEF Spec, ImplementsLedger, Book!Spec

\* An entry of the abstract ledger keeps what the entries before it say, and is
\* itself of a new reference or of a SPEND before it.
LEMMA EntryKeepsHistory ==
    ASSUME WalletInv, LedgerHistory, Book!Next
    PROVE  LedgerHistory'
  <1> DEFINE n == Len(ledger)
  <1>1. ledger \in Seq(Tx) /\ n \in Nat /\ DOMAIN ledger = 1 .. n
    BY DEF WalletInv, TypeOK
  <1>2. CASE Book!Manage
    BY <1>2 DEF Book!Manage, LedgerHistory, OncePerReference, ReversalsUndoSpends
  <1>3. CASE Book!Transact
    <2> DEFINE Entry(k, ref, a, d, orig) ==
                 /\ Book!Write(k, ref, a, d, orig)
                 /\ k = "REVERSAL" => ref # Nil /\ orig \in DOMAIN ledger
                                      /\ ledger[orig].kind = "SPEND"
                                      /\ a = ledger[orig].amount
    <2>1. PICK k, ref, a, d, orig : Entry(k, ref, a, d, orig)
      <3>1. ASSUME NEW ref, NEW a, Book!Earn(ref, a)
            PROVE  Entry("EARN", ref, a, a, Nil)
        BY <3>1 DEF Book!Earn
      <3>2. ASSUME NEW ref, NEW a, Book!Spend(ref, a)
            PROVE  Entry("SPEND", ref, a, -a, Nil)
        BY <3>2 DEF Book!Spend
      <3>3. ASSUME NEW i \in DOMAIN ledger, NEW ref \in Refs \cup DOMAIN ledger,
                   Book!Reverse(ref, i)
            PROVE  Entry("REVERSAL", ref, ledger[i].amount, ledger[i].amount, i)
        <4>1. ref # Nil
          BY <1>1, <3>3, WalletAssumption
        <4> QED BY <3>3, <4>1 DEF Book!Reverse
      <3> HIDE DEF Entry
      <3> QED BY <1>3, <3>1, <3>2, <3>3 DEF Book!Transact
    <2> DEFINE new == [kind |-> k, ref |-> ref, amount |-> a, after |-> wallet.balance + d,
                       orig |-> orig]
    <2>2. /\ DOMAIN ledger' = 1 .. (n + 1)
          /\ \A i \in 1 .. n : ledger'[i] = ledger[i]
          /\ ledger'[n + 1] = new
      BY <1>1, <2>1 DEF Book!Write
    <2>3. OncePerReference'
      <3> SUFFICES ASSUME NEW i \in 1 .. (n + 1), NEW j \in 1 .. (n + 1),
                          ledger'[i].kind = ledger'[j].kind,
                          ledger'[i].ref = ledger'[j].ref, ledger'[i].ref # Nil
                   PROVE  i = j
        BY <2>2 DEF OncePerReference
      <3>1. \A m \in 1 .. n : ~ (ledger[m].kind = k /\ ledger[m].ref = ref /\ ref # Nil)
        BY <1>1, <2>1 DEF Book!Write, Book!Unused
      <3>2. CASE i \in 1 .. n /\ j \in 1 .. n
        BY <1>1, <2>2, <3>2 DEF LedgerHistory, OncePerReference
      <3>3. CASE i = n + 1 /\ j \in 1 .. n
        BY <2>2, <3>1, <3>3
      <3>4. CASE i \in 1 .. n /\ j = n + 1
        BY <2>2, <3>1, <3>4
      <3> QED BY <1>1, <3>2, <3>3, <3>4
    <2>4. ReversalsUndoSpends'
      <3> SUFFICES ASSUME NEW i \in 1 .. (n + 1), ledger'[i].kind = "REVERSAL"
                   PROVE  /\ ledger'[i].ref # Nil
                          /\ ledger'[i].orig \in 1 .. (i - 1)
                          /\ ledger'[ledger'[i].orig].kind = "SPEND"
                          /\ ledger'[ledger'[i].orig].amount = ledger'[i].amount
        BY <2>2 DEF ReversalsUndoSpends
      <3>1. CASE i \in 1 .. n
        <4>1. /\ ledger[i].ref # Nil /\ ledger[i].orig \in 1 .. (i - 1)
              /\ ledger[ledger[i].orig].kind = "SPEND"
              /\ ledger[ledger[i].orig].amount = ledger[i].amount
          BY <1>1, <2>2, <3>1 DEF LedgerHistory, ReversalsUndoSpends
        <4>2. ledger[i].orig \in 1 .. n
          BY <1>1, <3>1, <4>1
        <4> QED BY <2>2, <3>1, <4>1, <4>2
      <3>2. CASE i = n + 1
        BY <1>1, <2>1, <2>2, <3>2
      <3> QED BY <1>1, <3>1, <3>2
    <2> QED BY <2>3, <2>4 DEF LedgerHistory
  <1> QED BY <1>2, <1>3 DEF Book!Next

\* A call repeated under its reference writes nothing more, and a reversal gives
\* back a SPEND before it, to the cent: what earn, spend and reverse owe to the
\* callers that retry, from the abstract ledger that they implement.
THEOREM HistoryIsSound == Spec => []LedgerHistory
  <1>1. Init => LedgerHistory
    BY DEF Init, LedgerHistory, OncePerReference, ReversalsUndoSpends
  <1>2. WalletInv /\ LedgerHistory /\ [Next]_vars => LedgerHistory'
    <2> SUFFICES ASSUME WalletInv, LedgerHistory, [Next]_vars PROVE LedgerHistory'
      OBVIOUS
    <2>1. CASE UNCHANGED Book!vars
      BY <2>1 DEF Book!vars, LedgerHistory, OncePerReference, ReversalsUndoSpends
    <2>2. CASE Book!Next
      BY <2>2, EntryKeepsHistory
    <2> QED BY <2>1, <2>2, StepIsEntry
  <1> QED BY <1>1, <1>2, WalletAlways, PTL DEF Spec

=============================================================================
