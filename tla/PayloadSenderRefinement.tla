---------------------- MODULE PayloadSenderRefinement ----------------------
(***************************************************************************)
(* PayloadSender implements EventPipe: an event is held from the moment it *)
(* is in the block until the loop takes its batch off the count.           *)
(***************************************************************************)
EXTENDS PayloadSender

PlaceOf(f) ==
    CASE f \in {"new", "offered"} -> "out"
      [] f \in {"pending", "batched", "received"} -> "held"
      [] f \in {"taken", "flying"} -> "sending"
      [] OTHER -> "settled"

Pipe == INSTANCE EventPipe WITH
            BatchSize <- MaxBatchEventCount,
            place <- [e \in Events |-> PlaceOf(fate[e])],
            stopped <- (loop = "completed")

(* Every behaviour of the sender is one of the bounded pipe's: interleaved *)
(* increments, back-outs, flushes and a Dispose in the middle of them      *)
(* never make the queue exceed its capacity, two batches be sent at once,  *)
(* a settled event come back or anything be sent after the loop completed. *)
ImplementsEventPipe == Pipe!PipeSpec

(* The sender's loop is one of the loops BackendComm allows: the life      *)
(* cycle checked there holds of the sender too.                            *)
ImplementsBackendComm == BaseSpec
=============================================================================
