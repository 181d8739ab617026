----------------------------- MODULE TokenChain -----------------------------
(***************************************************************************)
(* What refresh-token rotation promises, without requests, Redis or        *)
(* transactions: the tokens of a session form a chain, every token has at  *)
(* most one successor, and a token that has one is never usable again.     *)
(***************************************************************************)
CONSTANTS Tokens, Nil

VARIABLES
    issued,  \* tokens a client may know
    next,    \* the successor of a token, or Nil
    live     \* tokens that still open the session

chain == <<issued, next, live>>

Init ==
    /\ issued = {}
    /\ next = [t \in Tokens |-> Nil]
    /\ live = {}

\* A login opens a chain.
Open ==
    \E n \in Tokens \ issued :
        /\ issued' = issued \cup {n}
        /\ live' = live \cup {n}
        /\ UNCHANGED next

\* A rotation extends a chain at its end; the consumed token closes.  It may
\* have been revoked meanwhile: the rotation had read it before.
Extend ==
    \E t \in issued, n \in Tokens \ issued :
        /\ next[t] = Nil
        /\ next' = [next EXCEPT ![t] = n]
        /\ issued' = issued \cup {n}
        /\ live' = (live \ {t}) \cup {n}

\* Logout, expiry, reset or reuse: some tokens stop opening the session.
Close ==
    /\ live' \in SUBSET live
    /\ UNCHANGED <<issued, next>>

Next == Open \/ Extend \/ Close

Spec == Init /\ [][Next]_chain
=============================================================================
