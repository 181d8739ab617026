----------------------------- MODULE MCYuniWallet -----------------------------
EXTENDS WalletInvariant, TLC

Symmetric == Permutations(Reqs) \cup Permutations(Refs)

=============================================================================
