------------------------ MODULE MCExecutionSegments ------------------------
EXTENDS ExecutionSegments, TLC
Symmetry == Permutations(Flows) \cup Permutations(Transactions) \cup Permutations(Spans)
=============================================================================
