------------------------- MODULE MCRefreshRotation -------------------------
(* Instances of RefreshRotation for TLC.                                   *)
EXTENDS RotationInvariant, TLC

\* Tokens and requests have no identity of their own.
Symmetric == Permutations(Tokens) \cup Permutations(Reqs)

\* Environments.
Quiet == {"reset", "expire"}
Faults == {"slow", "crash", "redis", "lostcommit", "reset"}
Troubled == {"slow", "dberror", "lostcommit", "logout", "suspend"}
=============================================================================
