---------------------------- MODULE WalletInvariant ----------------------------
(***************************************************************************)
(* The inductive invariant behind the safety of YuniWallet: who holds the  *)
(* row, and what the holder has in hand.                                   *)
(***************************************************************************)
EXTENDS YuniWallet

\* The row as the holder of the lock finds or inserts it.
Row == IF wallet.status = "absent" THEN NewWallet ELSE wallet

OneHolder == \A q, r \in Reqs : Holds(q) /\ Holds(r) => q = r

\* An uncommitted first row is the only thing that can precede the first
\* COMMIT.
AbsentIsEmpty == wallet.status = "absent" => wallet = NoWallet /\ ledger = <<>>

\* Between _lock_wallet and its answer a request works on the true row.
InHand(r) ==
    /\ pc[r] # "idle" => op[r] \in Ops
    /\ pc[r] = "find" =>
        IsMoney(op[r]) /\ mine[r] = Row /\ Row.status = "active"
    /\ pc[r] \in {"flush", "commit"} /\ IsMoney(op[r]) =>
        /\ Row.status = "active"
        /\ op[r].kind = "REVERSAL" => Reversible(op[r].orig)
        /\ op[r].kind = "SPEND" => Row.balance >= op[r].amount
        /\ ~Recorded(op[r].kind, RefOf(op[r]))
        /\ mine[r] = Applied(Row, op[r], AmountOf(op[r]))
    /\ pc[r] = "flush" => IsMoney(op[r])
    /\ pc[r] = "commit" /\ ~IsMoney(op[r]) =>
        mine[r] = Applied(Row, op[r], 0)

HandInv == \A r \in Reqs : InHand(r)

WalletInv ==
    /\ TypeOK
    /\ OneHolder
    /\ AbsentIsEmpty
    /\ HandInv
    /\ LedgerExplainsBalance
    /\ NeverOverdrawn

\* What a caller may rely on when it repeats a call: a reference pays, spends or
\* reverses once, whatever interleaved, was rolled back or was asked again.
OncePerReference ==
    \A i, j \in DOMAIN ledger :
        /\ ledger[i].kind = ledger[j].kind
        /\ ledger[i].ref = ledger[j].ref /\ ledger[i].ref # Nil
        => i = j

\* What is given back was spent before, and is the amount that was spent; a
\* reversal always has a reference: asked again without one, it finds itself.
ReversalsUndoSpends ==
    \A i \in DOMAIN ledger :
        ledger[i].kind = "REVERSAL" =>
            LET o == ledger[i].orig IN
            /\ ledger[i].ref # Nil
            /\ o \in 1 .. (i - 1)
            /\ ledger[o].kind = "SPEND" /\ ledger[o].amount = ledger[i].amount

\* A reference pays, spends or reverses once, and what is given back was spent
\* before: earn, spend and reverse may be asked again, at once or later.
LedgerHistory == OncePerReference /\ ReversalsUndoSpends

=============================================================================
