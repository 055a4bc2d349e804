------------------------------ MODULE MCAgent ------------------------------
EXTENDS AgentSingleton, TLC
Symmetry == Permutations(Threads)
=============================================================================
