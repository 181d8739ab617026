-------------------------- MODULE RotationInvariant --------------------------
(* The inductive invariants behind the safety properties of               *)
(* RefreshRotation.  TLC checks them before they are proved.               *)
EXTENDS RefreshRotation

\* A request gives up claiming after MaxClaimAttempts vanished keys.
TriesLeft ==
    \A r \in Reqs :
        pc[r] \in {"idle", "claim", "await"} => tries[r] < MaxClaimAttempts

\* Rows that exist have a family, and the family is itself a row; rows that
\* do not exist have no trace anywhere.
RowsWellFormed ==
    \A t \in Tokens :
        /\ status[t] # "absent" => family[t] \in Tokens
        /\ status[t] = "absent" =>
             family[t] = Nil /\ parent[t] = Nil /\ t \notin held
        /\ family[t] \in Tokens =>
             /\ status[family[t]] # "absent"
             /\ family[family[t]] = family[t]

\* Every request at work presents a token that exists, and revokes rows that
\* exist; reuse handling runs on a revoked token.
RequestsWellFormed ==
    \A r \in Reqs :
        /\ pc[r] \notin {"idle", "resetApply"} =>
             tok[r] \in Tokens /\ status[tok[r]] # "absent"
        /\ \A t \in hit[r] : status[t] # "absent"

\* The row a rotation inserts is its own until it commits.
InsertsReserved ==
    \A r \in Reqs :
        pc[r] = "commit" =>
            /\ succ[r] \in Tokens
            /\ status[succ[r]] = "absent"
            /\ \A q \in Reqs : pc[q] = "commit" /\ succ[q] = succ[r] => q = r

TypeInv ==
    /\ TypeOK
    /\ TriesLeft
    /\ RowsWellFormed
    /\ RequestsWellFormed
    /\ InsertsReserved

HandoverInv == ConsumedForGood /\ ReplayGivesOwnSuccessor

SafetyInv == TypeInv /\ HandoverInv

\* Redis answers and no worker dies: every claim is given back by its request.
ClaimsGivenBack == Events \cap {"crash", "redis"} = {}

----------------------------------------------------------------------------
(* Without these events the pending entry is a lock: it belongs to one      *)
(* request until the rotation is published or fails, be its COMMIT lost.    *)

Locked == Events \cap {"slow", "crash", "redis", "dberror", "logout", "suspend"} = {}

Contends(p, t) == tok[p] = t /\ pc[p] \in {"read", "write", "commit"} \cup Failing

HasSuccessor(t) == \E u \in Tokens : parent[u] = t

\* Past its checks, a rotation is alone on a token without successor.
WriterAlone ==
    \A q \in Reqs :
        pc[q] \in {"write", "commit"} =>
            /\ entry[tok[q]].kind = "pending"
            /\ ~HasSuccessor(tok[q])
            /\ \A p \in Reqs : Contends(p, tok[q]) => p = q

\* Before its checks it is alone if the token is still live.
ReaderAlone ==
    \A q \in Reqs :
        pc[q] = "read" /\ status[tok[q]] = "live" =>
            /\ entry[tok[q]].kind = "pending"
            /\ \A p \in Reqs : Contends(p, tok[q]) => p = q

\* A rotation only fails on a token that is over for good.
FailsOnDeadToken ==
    \A r \in Reqs :
        /\ pc[r] \in Failing => status[tok[r]] # "live"
        /\ pc[r] = "replayDiscard" => HasSuccessor(tok[r])

\* A waiter on a live token has something to wait for.
WaitersHaveOwner ==
    \A r \in Reqs :
        pc[r] = "await" /\ status[tok[r]] = "live" =>
            entry[tok[r]].kind # "none"

LockInv ==
    /\ active
    /\ WriterAlone
    /\ ReaderAlone
    /\ FailsOnDeadToken
    /\ WaitersHaveOwner
    /\ ClaimReleased
    /\ SingleSuccessor

----------------------------------------------------------------------------
(* A family moves one rotation at a time.                                  *)

Writing(q) == pc[q] \in {"write", "commit"}

\* Nothing else is live in the family of a token that is being rotated.
WriterHoldsTip ==
    \A q \in Reqs : Writing(q) =>
        \A t \in Tokens :
            status[t] = "live" /\ family[t] = family[tok[q]] => t = tok[q]

OneWriterPerFamily ==
    \A p, q \in Reqs :
        Writing(p) /\ Writing(q) /\ family[tok[p]] = family[tok[q]] => p = q

\* replaced_by_token_id names a successor that was issued.
ReplacedHasSuccessor ==
    \A t \in Tokens : replacedBy[t] # Nil => HasSuccessor(t)

FamilyInv ==
    OneLivePerFamily /\ WriterHoldsTip /\ OneWriterPerFamily /\ ReplacedHasSuccessor

----------------------------------------------------------------------------
(* The replay window is the only way from a live successor to a reuse.     *)

\* t was rotated and the session went on.
Continues(t) == \E u \in Tokens : parent[u] = t /\ status[u] = "live"

StaleIsClosed == \A t \in Tokens : entry[t].kind = "stale" => t \in closed

\* From its COMMIT to publish_successor a rotation still owns the key.
PublisherAlone ==
    \A q \in Reqs :
        pc[q] = "publish" =>
            /\ entry[tok[q]].kind = "pending"
            /\ \A p \in Reqs :
                 /\ tok[p] = tok[q]
                 /\ pc[p] \in Rotating \cup Failing \cup {"replay", "replayDiscard"}
                 => p = q

\* While the session goes on, the window is still to open, open, or over.
WindowOpens ==
    \A t \in Tokens :
        Continues(t) =>
            \/ t \in closed
            \/ entry[t].kind = "fresh"
            \/ \E q \in Reqs : pc[q] = "publish" /\ tok[q] = t

\* The database decides on a rotated token only when its window is over.
DatabaseDecidesLate ==
    \A r \in Reqs :
        pc[r] \in {"read"} \cup Failing /\ Continues(tok[r]) => tok[r] \in closed

\* A replay is refused only when the session does not go on.
RefusesDeadSuccessor ==
    \A r \in Reqs : pc[r] = "replayDiscard" => ~Continues(tok[r])

ReuseInv ==
    /\ StaleIsClosed
    /\ PublisherAlone
    /\ WindowOpens
    /\ DatabaseDecidesLate
    /\ RefusesDeadSuccessor

----------------------------------------------------------------------------
\* Everything the proofs carry from state to state, under Locked and under Calm.
LockedInv == SafetyInv /\ LockInv /\ FamilyInv
CalmInv == LockedInv /\ ReuseInv

=============================================================================
