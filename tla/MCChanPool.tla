----------------------------- MODULE MCChanPool -----------------------------
EXTENDS ChanPoolLease, TLC

Symmetry == Permutations(Workers) \cup Permutations(Closers) \cup Permutations(Clients)
=============================================================================
