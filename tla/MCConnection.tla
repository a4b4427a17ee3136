---------------------------- MODULE MCConnection ----------------------------
EXTENDS Connection, TLC

\* No browser and no host is told from another.
Alike == Permutations(Browsers) \cup Permutations(Hosts)
=============================================================================
