--------------------------- MODULE ChallengeContract ---------------------------
(***************************************************************************)
(* What a challenge promises: stamps are counted once each, a completion   *)
(* takes Target of them, and its reward is paid once, before it shows as   *)
(* claimed.                                                                *)
(***************************************************************************)
EXTENDS Integers, FiniteSets

CONSTANTS
    Sources,  \* stamps that may count
    Target,   \* how many of them complete the challenge
    YmReward  \* what the completion is worth

VARIABLES counted, completed, paid, claimed

vars == <<counted, completed, paid, claimed>>

Count ==
    /\ \E s \in Sources \ counted : counted' = counted \cup {s}
    /\ completed' \in BOOLEAN
    /\ completed => completed'
    /\ completed' => Cardinality(counted') >= Target
    /\ UNCHANGED <<paid, claimed>>

Pay ==
    /\ completed /\ ~paid
    /\ paid' = TRUE
    /\ UNCHANGED <<counted, completed, claimed>>

Grant ==
    /\ completed /\ ~claimed
    /\ YmReward > 0 => paid
    /\ claimed' = TRUE
    /\ UNCHANGED <<counted, completed, paid>>

Init == counted = {} /\ ~completed /\ ~paid /\ ~claimed

Next == Count \/ Pay \/ Grant

Spec == Init /\ [][Next]_vars

=============================================================================
