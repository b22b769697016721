------------------------- MODULE MC_SessionRegistry -------------------------
EXTENDS SessionRegistry, TLC

\* Threads and sessions are interchangeable in the safety runs.
RegistrySymmetry == Permutations(Threads) \cup Permutations(Sessions)
=============================================================================
