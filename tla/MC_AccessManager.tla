-------------------------- MODULE MC_AccessManager --------------------------
EXTENDS AccessManager, TLC

\* Threads are interchangeable: safety runs may reduce by their symmetry.
ThreadSymmetry == Permutations(Threads)
=============================================================================
