--------------------------- MODULE MCChallengeReward ---------------------------
EXTENDS ChallengeInvariant

\* The state that the first stamp leaves whose session ends before it is awarded:
\* the stamps have no identity, so that it stands for each of them as the first.
Stamped ==
    /\ row = NoRow /\ events = {} /\ granted = 0
    /\ stamps = {CHOOSE s \in Sources : TRUE}
    /\ wallet = [suspended |-> FALSE, awarded |-> {}, paid |-> FALSE]
    /\ pc = [p \in Procs |-> "idle"] /\ task = [p \in Procs |-> NoTask]
    /\ seen = [p \in Procs |-> NoRow] /\ held = [p \in Procs |-> {}]

StampedSpec == Stamped /\ [][Next]_vars /\ Fairness

=============================================================================
