------------------------- MODULE MCInstrumentation -------------------------
EXTENDS Instrumentation, TLC
(* No step and no property of this run looks at what has been sent. *)
Unsent == <<config, tx, span, currentTransaction, currentSpan, call, senderDisposed, listenerVars>>

Symmetry == Permutations(Flows) \cup Permutations(Spans)
=============================================================================
