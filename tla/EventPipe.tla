----------------------------- MODULE EventPipe -----------------------------
(***************************************************************************)
(* What PayloadSenderV2 promises to the code that queues events, with no   *)
(* counter, threads or blocks: a bounded buffer and one batch at a time    *)
(* that is being sent.  An event is dealt with once: settled, whatever its *)
(* end, it never comes back; after the sender has stopped nothing is sent. *)
(***************************************************************************)
EXTENDS Naturals, FiniteSets

CONSTANTS Events, Capacity, BatchSize

VARIABLES place,        \* "out", "held", "sending" or "settled", for each event
          stopped       \* the work loop has completed

pipeVars == <<place, stopped>>

At(p) == {e \in Events : place[e] = p}
Put(S, p) == [e \in Events |-> IF e \in S THEN p ELSE place[e]]

PipeInit == place = [e \in Events |-> "out"] /\ stopped = FALSE

Refuse(e) ==
    /\ place[e] = "out"
    /\ place' = Put({e}, "settled")
    /\ UNCHANGED stopped

Accept(e) ==
    /\ place[e] = "out"
    /\ Cardinality(At("held")) < Capacity
    /\ place' = Put({e}, "held")
    /\ UNCHANGED stopped

Send(batch) ==
    /\ ~stopped
    /\ At("sending") = {}
    /\ Cardinality(batch) \in 1 .. BatchSize
    /\ place' = Put(batch, "sending")
    /\ UNCHANGED stopped

Settle(S) ==
    /\ place' = Put(S, "settled")
    /\ UNCHANGED stopped

Stop ==
    /\ ~stopped
    /\ At("sending") = {}
    /\ stopped' = TRUE
    /\ UNCHANGED place

PipeNext ==
    \/ \E e \in Events : Refuse(e) \/ Accept(e)
    \/ \E batch \in SUBSET At("held") : Send(batch)
    \/ \E S \in SUBSET At("sending") : Settle(S)
    \/ Stop

PipeSpec == PipeInit /\ [][PipeNext]_pipeVars
=============================================================================
