------------------------------ MODULE YuniLedger ------------------------------
(***************************************************************************)
(* What a wallet promises: an append-only ledger written one transaction   *)
(* at a time, of which the balance is the last word.                       *)
(***************************************************************************)
EXTENDS Integers, Sequences

CONSTANTS
    Refs,     \* reference ids a caller may give
    Amounts,  \* amounts a caller may give
    Nil       \* no reference, no original transaction

VARIABLES
    status,   \* absent, active or suspended
    balance,
    ledger,   \* the transactions, in the order they took effect
    totals    \* <<ever earned, ever spent>>

vars == <<status, balance, ledger, totals>>

Unused(k, ref) ==
    \A i \in DOMAIN ledger : ledger[i].kind = k => ledger[i].ref # ref

\* One transaction of kind k on the amount a, which moves the balance by d.
Write(k, ref, a, d, orig) ==
    /\ ref # Nil => Unused(k, ref)
    /\ balance + d >= 0
    /\ balance' = balance + d
    /\ ledger' = Append(ledger, [kind |-> k, ref |-> ref, amount |-> a,
                                 after |-> balance + d, orig |-> orig])

Earn(ref, a) ==
    Write("EARN", ref, a, a, Nil) /\ totals' = <<totals[1] + a, totals[2]>>

Spend(ref, a) ==
    Write("SPEND", ref, a, -a, Nil) /\ totals' = <<totals[1], totals[2] + a>>

Reverse(ref, i) ==
    /\ ledger[i].kind = "SPEND"
    /\ Write("REVERSAL", ref, ledger[i].amount, ledger[i].amount, i)
    /\ UNCHANGED totals

\* A transaction needs a wallet that is not suspended, and opens it if need be.
Transact ==
    /\ status # "suspended"
    /\ status' = "active"
    /\ \/ \E ref \in Refs \cup {Nil}, a \in Amounts : Earn(ref, a) \/ Spend(ref, a)
       \/ \E i \in DOMAIN ledger, ref \in Refs \cup DOMAIN ledger : Reverse(ref, i)

Manage ==
    /\ status' \in {"active", "suspended"}
    /\ UNCHANGED <<balance, ledger, totals>>

Init == status = "absent" /\ balance = 0 /\ ledger = <<>> /\ totals = <<0, 0>>

Next == Transact \/ Manage

Spec == Init /\ [][Next]_vars

=============================================================================
