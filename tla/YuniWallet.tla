------------------------------ MODULE YuniWallet ------------------------------
(***************************************************************************)
(* YuniMonnaie: the wallet row of one user, its transactions, and the      *)
(* requests and scripts that earn, spend, reverse, suspend and reactivate. *)
(*                                                                         *)
(* One action is one round trip to the database (READ COMMITTED).  Wallets *)
(* of different users share no row, so one wallet is modelled.             *)
(***************************************************************************)
EXTENDS Integers, Sequences, FiniteSets

CONSTANTS
    Reqs,      \* request slots: sessions at work on this wallet
    Refs,      \* (reference_type, reference_id) pairs a caller gives
    Amounts,   \* amounts a caller gives, all > 0 (_validate_amount)
    MaxLedger, \* bound on the transactions written
    Nil        \* no reference id, no original transaction

ASSUME WalletAssumption ==
    /\ Amounts \subseteq Nat \ {0}
    /\ Nil \notin Refs \cup Nat
    /\ Refs \cap Nat = {}
    /\ MaxLedger \in Nat

VARIABLES
    wallet,  \* the committed row of yuni_wallets
    ledger,  \* the committed rows of yuni_transactions: an id is a rank
    pc, op,  \* where a request is, and what it was asked
    mine     \* the YuniWallet object in the identity map of its session

vars == <<wallet, ledger, pc, op, mine>>

PCs == {"idle", "lock", "insert", "find", "flush", "commit"}

Wallet == [status : {"absent", "active", "suspended"},
           balance : Int, earned : Nat, spent : Nat]
NoWallet  == [status |-> "absent", balance |-> 0, earned |-> 0, spent |-> 0]
NewWallet == [status |-> "active", balance |-> 0, earned |-> 0, spent |-> 0]

Kinds == {"EARN", "SPEND", "REVERSAL"}
Tx == [kind : Kinds, ref : Refs \cup Nat \cup {Nil}, amount : Amounts,
       after : Int, orig : Nat \cup {Nil}]

Payments == [kind : {"EARN", "SPEND"}, ref : Refs \cup {Nil},
             amount : Amounts, orig : {Nil}]
Reversals == [kind : {"REVERSAL"}, ref : Refs \cup {Nil},
              amount : {Nil}, orig : 1 .. MaxLedger]
Management == [kind : {"create", "suspend", "reactivate"}, ref : {Nil},
               amount : {Nil}, orig : {Nil}]
Ops  == Payments \cup Reversals \cup Management
NoOp == [kind |-> "none", ref |-> Nil, amount |-> Nil, orig |-> Nil]

TypeOK ==
    /\ wallet \in Wallet
    /\ ledger \in Seq(Tx)
    /\ pc \in [Reqs -> PCs]
    /\ op \in [Reqs -> Ops \cup {NoOp}]
    /\ mine \in [Reqs -> Wallet]

Init ==
    /\ wallet = NoWallet
    /\ ledger = <<>>
    /\ pc = [r \in Reqs |-> "idle"]
    /\ op = [r \in Reqs |-> NoOp]
    /\ mine = [r \in Reqs |-> NoWallet]

----------------------------------------------------------------------------
(* Helpers                                                                 *)

\* FOR UPDATE, or the uncommitted INSERT of the row, lasts until COMMIT.
Holds(r) == pc[r] \in {"find", "flush", "commit"}
Locked == \E q \in Reqs : Holds(q)

IsMoney(o) == o.kind \in Kinds

\* _find_transaction, and the partial unique index, which leaves NULL out.
Recorded(k, ref) ==
    ref # Nil /\ \E i \in DOMAIN ledger : ledger[i].kind = k /\ ledger[i].ref = ref

\* Mutant: a reversal without reference is recorded without one.
RefAsGiven(o) == o.ref

\* reversal_reference_id = reference_id or original_transaction_id.
RefOf(o) == IF o.kind = "REVERSAL" /\ o.ref = Nil THEN o.orig ELSE o.ref

\* Mutant: whatever its kind is.
ReversibleAny(i) == i \in DOMAIN ledger

\* The transaction to undo exists and is a SPEND.
Reversible(i) == i \in DOMAIN ledger /\ ledger[i].kind = "SPEND"

AmountOf(o) == IF o.kind = "REVERSAL" THEN ledger[o.orig].amount ELSE o.amount

\* How a transaction of kind k on the amount a moves the balance.
Delta(k, a) == IF k = "SPEND" THEN -a ELSE a

\* What an operation on the amount a assigns to the object of the session.
Applied(w, o, a) ==
    [status  |-> IF o.kind = "suspend" THEN "suspended"
                 ELSE IF o.kind = "reactivate" THEN "active" ELSE w.status,
     balance |-> w.balance + Delta(o.kind, a),
     earned  |-> IF o.kind = "EARN" THEN w.earned + a ELSE w.earned,
     spent   |-> IF o.kind = "SPEND" THEN w.spent + a ELSE w.spent]

Goto(r, l) == pc' = [pc EXCEPT ![r] = l]
See(r, w) == mine' = [mine EXCEPT ![r] = w]
Ask(r, o) == op' = [op EXCEPT ![r] = o]

\* The session is closed: what it did not commit is rolled back.
Leave(r) == Goto(r, "idle") /\ Ask(r, NoOp) /\ See(r, NoWallet)

\* Bound: a call starts only while every transaction under way fits.
Room == Len(ledger) + Cardinality({q \in Reqs : pc[q] # "idle"}) < MaxLedger

----------------------------------------------------------------------------
(* Calls                                                                   *)

Call(r) ==
    /\ pc[r] = "idle" /\ Room
    /\ \E o \in Ops : Ask(r, o)
    /\ Goto(r, "lock")
    /\ UNCHANGED <<wallet, ledger, mine>>

\* The award hooks look at the wallet before they earn, without a lock; the
\* row they load stays in the identity map.
Hook(r) ==
    /\ pc[r] = "idle" /\ Room
    /\ wallet.status # "suspended"
    /\ \E o \in Payments : o.kind = "EARN" /\ o.ref # Nil /\ Ask(r, o)
    /\ See(r, wallet)
    /\ Goto(r, "lock")
    /\ UNCHANGED <<wallet, ledger>>

----------------------------------------------------------------------------
(* _lock_wallet                                                            *)

\* Mutant: only the hooks look at the status.
EnterUnchecked(r, w) ==
    /\ See(r, IF IsMoney(op[r]) THEN w ELSE Applied(w, op[r], 0))
    /\ Goto(r, IF IsMoney(op[r]) THEN "find" ELSE "commit")
    /\ UNCHANGED op

\* What a request does once it holds the row, which reads w.
\* _assert_wallet_active refuses the operations on money.
Enter(r, w) ==
    \/ w.status = "suspended" /\ IsMoney(op[r]) /\ Leave(r)
    \/ /\ w.status # "suspended" /\ IsMoney(op[r])
       /\ See(r, w) /\ Goto(r, "find") /\ UNCHANGED op
    \/ /\ ~IsMoney(op[r])
       /\ See(r, Applied(w, op[r], 0)) /\ Goto(r, "commit") /\ UNCHANGED op

\* Mutants: no populate_existing, the loaded object keeps what it read before;
\* no FOR UPDATE.
LockStale(r) ==
    /\ pc[r] = "lock"
    /\ wallet.status # "absent" /\ ~Locked
    /\ Enter(r, IF mine[r].status = "absent" THEN wallet ELSE mine[r])
    /\ UNCHANGED <<wallet, ledger>>

LockShared(r) ==
    /\ pc[r] = "lock"
    /\ wallet.status # "absent"
    /\ Enter(r, wallet)
    /\ UNCHANGED <<wallet, ledger>>

\* SELECT ... FOR UPDATE with populate_existing.
Lock(r) ==
    /\ pc[r] = "lock"
    /\ wallet.status # "absent" /\ ~Locked
    /\ Enter(r, wallet)
    /\ UNCHANGED <<wallet, ledger>>

\* No committed row: the request inserts one.
LockMissing(r) ==
    /\ pc[r] = "lock"
    /\ wallet.status = "absent"
    /\ Goto(r, "insert")
    /\ UNCHANGED <<wallet, ledger, op, mine>>

\* The unique index on user_id makes an INSERT wait for another one ...
Insert(r) ==
    /\ pc[r] = "insert"
    /\ wallet.status = "absent" /\ ~Locked
    /\ Enter(r, NewWallet)
    /\ UNCHANGED <<wallet, ledger>>

\* Mutant: the INSERT is tried again.
InsertAgain(r) ==
    /\ pc[r] = "insert"
    /\ wallet.status # "absent"
    /\ Goto(r, "insert")
    /\ UNCHANGED <<wallet, ledger, op, mine>>

\* ... and refuses it when that one committed: rollback, then lock its row.
InsertConflict(r) ==
    /\ pc[r] = "insert"
    /\ wallet.status # "absent"
    /\ Goto(r, "lock")
    /\ UNCHANGED <<wallet, ledger, op, mine>>

----------------------------------------------------------------------------
(* earn, spend, reverse, with the row locked                               *)

\* The transaction already exists and is returned, or the operation is
\* refused: nothing is written.
Answered(r) ==
    LET o == op[r] IN
    \/ o.kind = "REVERSAL" /\ ~Reversible(o.orig)
    \/ Recorded(o.kind, RefOf(o))
    \/ o.kind = "SPEND" /\ mine[r].balance < o.amount

FindAnswer(r) ==
    /\ pc[r] = "find"
    /\ Answered(r)
    /\ Leave(r)
    /\ UNCHANGED <<wallet, ledger>>

Compute(r) ==
    /\ pc[r] = "find"
    /\ ~Answered(r)
    /\ See(r, Applied(mine[r], op[r], AmountOf(op[r])))
    /\ Goto(r, "flush")
    /\ UNCHANGED <<wallet, ledger, op>>

\* The INSERT meets the unique index; on IntegrityError the session rolls
\* back and looks the transaction up again, and the request ends either way.
Flush(r) ==
    /\ pc[r] = "flush"
    /\ IF Recorded(op[r].kind, RefOf(op[r]))
       THEN Leave(r)
       ELSE Goto(r, "commit") /\ UNCHANGED <<op, mine>>
    /\ UNCHANGED <<wallet, ledger>>

NewTx(r) ==
    [kind |-> op[r].kind, ref |-> RefOf(op[r]), amount |-> AmountOf(op[r]),
     after |-> mine[r].balance, orig |-> op[r].orig]

Commit(r) ==
    /\ pc[r] = "commit"
    /\ wallet' = mine[r]
    /\ ledger' = IF IsMoney(op[r]) THEN Append(ledger, NewTx(r)) ELSE ledger
    /\ Leave(r)

\* An exception, a lost connection or the death of the worker before COMMIT.
Abort(r) ==
    /\ pc[r] # "idle"
    /\ Leave(r)
    /\ UNCHANGED <<wallet, ledger>>

----------------------------------------------------------------------------
Work(r) ==
    \/ Lock(r) \/ LockMissing(r) \/ Insert(r) \/ InsertConflict(r)
    \/ FindAnswer(r) \/ Compute(r) \/ Flush(r) \/ Commit(r)

Next == \E r \in Reqs : Call(r) \/ Hook(r) \/ Work(r) \/ Abort(r)

Spec == Init /\ [][Next]_vars

\* Handlers run when they can, and the queue of a row lock is served in turn.
Fairness ==
    \A r \in Reqs : WF_vars(Work(r)) /\ SF_vars(Lock(r)) /\ SF_vars(Insert(r))

FairSpec == Spec /\ Fairness

----------------------------------------------------------------------------
(* Properties                                                              *)

\* The balance before the transaction of rank i.
Before(i) == IF i = 1 THEN 0 ELSE ledger[i - 1].after

\* "Ledger audit trail reconstitue balance": every balance_after continues
\* the one before it and the row of the wallet holds the last one, whatever
\* sessions read before they took the lock.
LedgerExplainsBalance ==
    /\ \A i \in DOMAIN ledger :
        ledger[i].after = Before(i) + Delta(ledger[i].kind, ledger[i].amount)
    /\ wallet.balance = Before(Len(ledger) + 1)

\* Concurrent spends never take more than the wallet holds: neither CHECK
\* constraint (balance >= 0, balance_after >= 0) ever has to refuse a row.
NeverOverdrawn ==
    /\ wallet.balance >= 0
    /\ \A r \in Reqs : pc[r] \in {"flush", "commit"} => mine[r].balance >= 0
    /\ \A i \in DOMAIN ledger : ledger[i].after >= 0

\* The lock alone makes earn, spend and reverse idempotent: an INSERT never
\* meets the unique index, and the except IntegrityError branches are dead.
IndexNeverHit ==
    \A r \in Reqs : pc[r] \in {"flush", "commit"} /\ IsMoney(op[r]) =>
        ~Recorded(op[r].kind, RefOf(op[r]))

\* _assert_wallet_active under the lock: once a suspension committed, no call
\* moves money, not even one whose hook saw the wallet active before.
FrozenWhenSuspended ==
    [][wallet.status = "suspended" =>
         ledger' = ledger /\ wallet'.balance = wallet.balance]_vars

\* Every call ends: nobody waits for a row for ever.
EveryCallEnds == \A r \in Reqs : []<>(pc[r] = "idle")

----------------------------------------------------------------------------
\* The committed rows, seen as a ledger that is written one entry at a time.
Book == INSTANCE YuniLedger WITH
    status <- wallet.status,
    balance <- wallet.balance,
    totals <- <<wallet.earned, wallet.spent>>

\* The requests on a wallet take effect one at a time, at their COMMIT.
ImplementsLedger == Book!Spec

=============================================================================
