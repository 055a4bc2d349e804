-------------------------- MODULE MCPayloadSender --------------------------
(* Model checking of PayloadSender on small instances. *)
EXTENDS PayloadSenderRefinement, TLC

Symmetry == Permutations(Producers) \cup Permutations(Events \ MetricSets)
=============================================================================
