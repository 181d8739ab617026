--------------------------- MODULE ChallengeInvariant ---------------------------
(***************************************************************************)
(* The inductive invariant behind the safety of ChallengeReward.           *)
(***************************************************************************)
EXTENDS ChallengeReward

\* A session at work on a stamp works on one, and one that has inserted its
\* event is the only one to have done so.
Counting == {"check", "award", "read", "create", "event", "insert", "refer", "write"}

EntryInv ==
    /\ \A p \in Procs : pc[p] \in Counting => task[p].source \in Sources
    /\ \A p \in Procs : pc[p] \in {"refer", "write"} =>
        "entry" \in held[p] /\ task[p].source \notin events
    /\ \A p, q \in Procs :
        /\ pc[p] \in {"refer", "write"} /\ pc[q] \in {"refer", "write"}
        /\ task[p].source = task[q].source
        => p = q

\* Nobody has seen more progress than there are events.
CountInv ==
    /\ IsFiniteSet(events)
    /\ row.progress <= Cardinality(events)
    /\ row.completed => Cardinality(events) >= Target
    /\ \A p \in Procs : seen[p].progress <= Cardinality(events)

\* Past its checks a claim is about a completed challenge, and once it is to
\* mark it, its reward is paid.
PayInv ==
    /\ wallet.paid => row.completed
    /\ row.claimed => row.completed /\ (YmReward > 0 => wallet.paid)
    /\ granted > 0 => row.claimed
    /\ \A p \in Procs :
        /\ pc[p] \in {"earn", "mark"} => row.completed
        /\ pc[p] = "mark" => (YmReward > 0 => wallet.paid)

ChallengeInv == TypeOK /\ EntryInv /\ CountInv /\ PayInv

=============================================================================
