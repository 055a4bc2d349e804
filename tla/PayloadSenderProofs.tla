------------------------ MODULE PayloadSenderProofs ------------------------
(***************************************************************************)
(* Proofs about PayloadSender, for any producers, events, batch size and   *)
(* queue capacity.                                                         *)
(*                                                                         *)
(* CapacityRespected is not inductive.  It needs CountExact (the counter   *)
(* a producer compares with Capacity is the number of queued events plus   *)
(* the increments under way); that needs OfferedOnce (a producer posts an  *)
(* event that is not queued yet) and BatchesExact (delivering a batch and  *)
(* taking it off the count concern the same events).                       *)
(***************************************************************************)
EXTENDS PayloadSenderRefinement, BackendCommProofs, FiniteSetTheorems

USE SenderConstants

CountInv == SenderTypeOK /\ OfferedOnce /\ BatchesExact /\ CountExact /\ CapacityRespected

(* Cardinalities of subsets of the two finite sets. *)
LEMMA EventSetsFinite ==
    ASSUME NEW S \in SUBSET Events
    PROVE  IsFiniteSet(S) /\ Cardinality(S) \in Nat
BY FS_Subset, FS_CardinalityType

LEMMA ProducerSetsFinite ==
    ASSUME NEW S \in SUBSET Producers
    PROVE  IsFiniteSet(S) /\ Cardinality(S) \in Nat
BY FS_Subset, FS_CardinalityType

LEMMA InFinite == \A places : IsFiniteSet(In(places)) /\ Cardinality(In(places)) \in Nat
BY EventSetsFinite DEF In

LEMMA QueuedFinite == IsFiniteSet(Queued) /\ Cardinality(Queued) \in Nat
BY InFinite DEF Queued

LEMMA HoldersFinite == \A pcs : IsFiniteSet(Holders(pcs)) /\ Cardinality(Holders(pcs)) \in Nat
BY ProducerSetsFinite DEF Holders

LEMMA CapacityType == Capacity \in Nat \ {0} /\ MaxBatchEventCount <= Capacity
BY DEF Capacity

-----------------------------------------------------------------------------
LEMMA CountInitial == Init => CountInv
<1> SUFFICES ASSUME Init PROVE CountInv
  OBVIOUS
<1>1. SenderTypeOK
  <2>1. batches \in Seq(SUBSET Events)
    BY DEF Init
  <2> QED
    BY <2>1 DEF Init, SenderTypeOK, ProducerPcs, LoopPcs, QueueFates, FinalFates
<1>2. /\ Queued = {} /\ In({"pending"}) = {}
      /\ Holders({"post"}) = {} /\ Holders({"post", "backOut"}) = {}
  BY DEF Init, Queued, In, Holders
<1>3. Cardinality({}) = 0
  BY FS_EmptySet
<1>4. CountExact /\ CapacityRespected
  <2>1. /\ Cardinality(Queued) = 0
        /\ Cardinality(Holders({"post"})) = 0
        /\ Cardinality(Holders({"post", "backOut"})) = 0
    BY <1>2, <1>3
  <2>2. CountExact
    BY <2>1 DEF Init, CountExact
  <2> QED
    BY <2>1, <2>2, CapacityType DEF CapacityRespected
<1>5. OfferedOnce
  BY DEF Init, OfferedOnce, Holders
<1>6. BatchesExact
  <2>1. batches = <<>> /\ DOMAIN batches = {}
    BY DEF Init
  <2>2. Cardinality(In({"pending"})) < MaxBatchEventCount
    BY <1>2, <1>3
  <2> QED
    BY <2>1, <2>2 DEF Init, BatchesExact
<1> QED
  BY <1>1, <1>4, <1>5, <1>6 DEF CountInv

(* A step that leaves the queue, the holders and the counter alone keeps   *)
(* the accounting.                                                         *)
LEMMA AccountingFrame ==
    ASSUME CountExact, CapacityRespected, Queued' = Queued, eventQueueCount' = eventQueueCount,
           Holders({"post", "backOut"})' = Holders({"post", "backOut"}),
           Holders({"post"})' = Holders({"post"})
    PROVE  CountExact' /\ CapacityRespected'
BY DEF CountExact, CapacityRespected, Capacity
-----------------------------------------------------------------------------
(* The sender's loop is one of the loops BackendComm allows.               *)
LEMMA StepIsBaseStep == [Next]_vars => [BaseNext]_baseVars
<1> SUFFICES ASSUME [Next]_vars PROVE [BaseNext]_baseVars
  OBVIOUS
<1>1. ASSUME NEW p \in Producers, ProducerStep(p) \/ \E e \in Events : EnqueueEvent(p, e)
      PROVE  UNCHANGED baseVars
  BY <1>1 DEF ProducerStep, EnqueueEvent, IncrementCount, BackOut, PostEvent, TriggerAfterPost, NothingElse
<1>2. CASE LoopStep \/ DeliverBatch \/ FlushTimeout \/ ServerReceives
  <2>1. UNCHANGED baseVars
    BY <1>2 DEF LoopStep, DeliverBatch, FlushTimeout, ServerReceives, FetchCloudMetadata,
                FillApmServerInfo, BeginReceive, CancelReceive, AccountBatch, FilterBatch,
                SerializationFails, StartPost, PostCancelledBeforeStart, FinishPost,
                EndIteration, LoopOnly
  <2> QED
    BY <2>1
<1>3. CASE SignalCompleted
  BY <1>3 DEF SignalCompleted, BaseNext, LoopExits
<1>4. CASE DisposeSteps
  BY <1>4 DEF DisposeSteps, BaseNext
<1>5. CASE UNCHANGED vars
  BY <1>5 DEF vars
<1> QED
  BY <1>1, <1>2, <1>3, <1>4, <1>5 DEF Next

(* What BackendComm's theorems say of its loops holds of the sender's.     *)
THEOREM SenderImplementsBackendComm == Spec => ImplementsBackendComm
<1>1. Init => BaseInit
  BY DEF Init
<1>2. [Next]_vars => [BaseNext]_baseVars
  BY StepIsBaseStep
<1> QED
  BY <1>1, <1>2, PTL DEF Spec, ImplementsBackendComm, BaseSpec

-----------------------------------------------------------------------------
(* The steps that concern events the loop has already taken, or none: they *)
(* keep all of CountInv. *)
QuietFates == {"taken", "flying", "filtered", "delivered", "rejected", "lost"}

LEMMA QuietStepKeeps ==
    ASSUME CountInv, SenderTypeOK', UNCHANGED <<ppc, item, eventQueueCount, batches>>,
           \A e \in Events : fate'[e] = fate[e] \/ {fate[e], fate'[e]} \subseteq QuietFates
    PROVE  CountInv'
<1> USE DEF CountInv
<1>1. /\ Queued' = Queued
      /\ \A f \in {"pending", "batched", "offered"} : In({f})' = In({f})
      /\ \A pcs : Holders(pcs)' = Holders(pcs)
  BY DEF Queued, In, Holders, QuietFates, SenderTypeOK
<1>2. CountExact' /\ CapacityRespected'
  BY <1>1, AccountingFrame
<1>3. OfferedOnce'
  BY <1>1 DEF OfferedOnce
<1>4. BatchesExact'
  <2>1. In({"pending"})' = In({"pending"})
    BY <1>1
  <2>2. \A e \in Events : fate'[e] = "batched" <=> fate[e] = "batched"
    BY DEF QuietFates
  <2> QED
    BY <2>1, <2>2 DEF BatchesExact
<1> QED
  BY <1>2, <1>3, <1>4
-----------------------------------------------------------------------------
(* The producers' steps. *)
LEMMA MovedType ==
    ASSUME SenderTypeOK, NEW S, NEW place \in QueueFates \cup FinalFates
    PROVE  Moved(S, place) \in [Events -> QueueFates \cup FinalFates]
BY DEF Moved, SenderTypeOK

LEMMA EnqueueKeeps ==
    ASSUME CountInv, NEW p \in Producers, NEW e \in Events, EnqueueEvent(p, e)
    PROVE  CountInv'
<1> USE DEF CountInv, EnqueueEvent, NothingElse, producerVars, GoesTo
<1>1. /\ fate[e] = "new"
      /\ fate' = Moved({e}, "thrown") \/ fate' = Moved({e}, "offered")
  OBVIOUS
<1>2. \A f \in Events : f # e => fate'[f] = fate[f]
  BY <1>1 DEF Moved
<1>3. fate'[e] \in {"thrown", "offered"}
  BY <1>1 DEF Moved
<1>4. SenderTypeOK'
  <2>1. fate' \in [Events -> QueueFates \cup FinalFates]
    BY <1>1, MovedType DEF QueueFates, FinalFates
  <2> QED
    BY <2>1 DEF SenderTypeOK, ProducerPcs, startupVars
<1>5. CountExact' /\ CapacityRespected'
  <2>1. Queued' = Queued
    BY <1>1, <1>2, <1>3 DEF Queued, In
  <2>2. Holders({"post"})' = Holders({"post"})
    BY DEF Holders, SenderTypeOK
  <2>3. Holders({"post", "backOut"})' = Holders({"post", "backOut"})
    BY DEF Holders, SenderTypeOK
  <2> QED
    BY <2>1, <2>2, <2>3, AccountingFrame
<1>6. OfferedOnce'
  <2> DEFINE Busy == {"increment", "post", "backOut"}
  <2>1. \A q \in Producers : ppc[q] \in Busy => item[q] \in Events /\ fate[item[q]] = "offered" /\ item[q] # e
    BY <1>1 DEF OfferedOnce, Holders, In
  <2>2. CASE UNCHANGED producerVars
    BY <2>1, <2>2, <1>2 DEF OfferedOnce, Holders, In
  <2>3. CASE fate' = Moved({e}, "offered") /\ item' = [item EXCEPT ![p] = e] /\ GoesTo(p, "idle", "increment")
    <3>1. fate'[e] = "offered" /\ ppc' = [ppc EXCEPT ![p] = "increment"]
      BY <2>3 DEF Moved
    <3>2. \A q \in Producers : ppc'[q] \in Busy => item'[q] \in Events /\ fate'[item'[q]] = "offered"
      BY <2>1, <2>3, <3>1, <1>2 DEF SenderTypeOK
    <3>3. \A q, r \in Producers : ppc'[q] \in Busy /\ ppc'[r] \in Busy /\ item'[q] = item'[r] => q = r
      BY <2>1, <2>3, <3>1 DEF OfferedOnce, Holders, SenderTypeOK
    <3> QED
      BY <3>2, <3>3 DEF OfferedOnce, Holders, In
  <2> QED
    BY <2>2, <2>3
<1>7. BatchesExact'
  <2>1. In({"pending"})' = In({"pending"})
    BY <1>1, <1>2, <1>3 DEF In
  <2>2. \A f \in Events : fate'[f] = "batched" <=> fate[f] = "batched"
    BY <1>1, <1>2, <1>3
  <2> QED
    BY <2>1, <2>2 DEF BatchesExact
<1> QED
  BY <1>4, <1>5, <1>6, <1>7

LEMMA IncrementKeeps ==
    ASSUME CountInv, NEW p \in Producers, IncrementCount(p)
    PROVE  CountInv'
<1> USE DEF CountInv, IncrementCount, NothingElse, GoesTo
<1> DEFINE H == Holders({"post", "backOut"})
           P == Holders({"post"})
<1>1. SenderTypeOK'
  BY DEF SenderTypeOK, ProducerPcs, startupVars
<1>2. Queued' = Queued /\ In({"pending"})' = In({"pending"}) /\ In({"offered"})' = In({"offered"})
  BY DEF Queued, In
<1>3. p \notin H /\ p \notin P
  BY DEF Holders
<1>4. H' = H \cup {p}
  BY DEF Holders, SenderTypeOK
<1>5. Cardinality(H') = Cardinality(H) + 1
  BY <1>3, <1>4, HoldersFinite, FS_AddElement
<1>6. CountExact'
  BY <1>2, <1>5, QueuedFinite, HoldersFinite DEF CountExact, SenderTypeOK
<1>7. CapacityRespected'
  <2>1. CASE eventQueueCount + 1 > Capacity
    <3>1. P' = P
      BY <2>1 DEF Holders, SenderTypeOK
    <3> QED
      BY <3>1, <1>2 DEF CapacityRespected, Capacity
  <2>2. CASE ~(eventQueueCount + 1 > Capacity)
    <3>1. P' = P \cup {p}
      BY <2>2 DEF Holders, SenderTypeOK
    <3>2. Cardinality(P') = Cardinality(P) + 1
      BY <3>1, <1>3, HoldersFinite, FS_AddElement
    <3>3. Cardinality(P) <= Cardinality(H)
      BY HoldersFinite, FS_Subset DEF Holders
    <3>4. Cardinality(Queued) + Cardinality(P) + 1 <= Capacity
      BY <2>2, <3>3, CapacityType, QueuedFinite, HoldersFinite DEF CountExact
    <3> QED
      BY <3>2, <3>4, <1>2, CapacityType, QueuedFinite, HoldersFinite DEF CapacityRespected, Capacity
  <2> QED
    BY <2>1, <2>2
<1>8. OfferedOnce'
  BY <1>2 DEF OfferedOnce, Holders, SenderTypeOK
<1>9. BatchesExact'
  BY <1>2 DEF BatchesExact
<1> QED
  BY <1>1, <1>6, <1>7, <1>8, <1>9

LEMMA BackOutKeeps ==
    ASSUME CountInv, NEW p \in Producers, BackOut(p)
    PROVE  CountInv'
<1> USE DEF CountInv, BackOut, NothingElse, GoesTo
<1> DEFINE H == Holders({"post", "backOut"})
           e == item[p]
<1>1. e \in Events /\ fate[e] = "offered"
  BY DEF OfferedOnce, Holders, In
<1>2. /\ fate'[e] = "refused"
      /\ \A f \in Events : f # e => fate'[f] = fate[f]
  BY <1>1 DEF Moved
<1>3. /\ Queued' = Queued
      /\ In({"pending"})' = In({"pending"})
      /\ \A f \in Events : fate'[f] = "batched" <=> fate[f] = "batched"
  BY <1>1, <1>2 DEF Queued, In
<1>4. p \in H /\ H' = H \ {p} /\ Holders({"post"})' = Holders({"post"})
  BY DEF Holders, SenderTypeOK
<1>5. Cardinality(H') = Cardinality(H) - 1
  BY <1>4, HoldersFinite, FS_RemoveElement
<1>6. CountExact'
  BY <1>3, <1>5, QueuedFinite, HoldersFinite DEF CountExact, SenderTypeOK
<1>7. SenderTypeOK'
  <2>1. fate' \in [Events -> QueueFates \cup FinalFates]
    BY MovedType DEF QueueFates, FinalFates
  <2>2. Cardinality(Queued') \in Nat /\ Cardinality(H') \in Nat
    BY <1>3, <1>5, <1>4, QueuedFinite, HoldersFinite, FS_RemoveElement, FS_CardinalityType
  <2>3. eventQueueCount' \in Nat
    BY <1>6, <2>2 DEF CountExact
  <2> QED
    BY <2>1, <2>3 DEF SenderTypeOK, ProducerPcs, startupVars
<1>8. CapacityRespected'
  BY <1>3, <1>4 DEF CapacityRespected, Capacity
<1>9. OfferedOnce'
  BY <1>1, <1>2 DEF OfferedOnce, Holders, In, SenderTypeOK
<1>10. BatchesExact'
  BY <1>3 DEF BatchesExact
<1> QED
  BY <1>6, <1>7, <1>8, <1>9, <1>10
-----------------------------------------------------------------------------
(* The block. *)
LEMMA MakeBatchKeeps ==
    ASSUME SenderTypeOK, BatchesExact, NEW B \in SUBSET Events,
           B # {}, Cardinality(B) <= MaxBatchEventCount, In({"pending"}) \subseteq B,
           \A e \in B : fate[e] # "batched",
           fate' = Moved(B, "batched"), batches' = Append(batches, B)
    PROVE  BatchesExact' /\ batches' \in Seq(SUBSET Events)
<1> DEFINE n == Len(batches)
<1>1. batches \in Seq(SUBSET Events) /\ n \in Nat /\ DOMAIN batches = 1 .. n
  BY DEF SenderTypeOK
<1>2. batches' \in Seq(SUBSET Events) /\ DOMAIN batches' = 1 .. n + 1
  BY <1>1
<1>3. batches'[n + 1] = B /\ \A i \in 1 .. n : batches'[i] = batches[i]
  BY <1>1
<1>4. \A e \in Events : fate'[e] = IF e \in B THEN "batched" ELSE fate[e]
  BY DEF Moved
<1>5. \A i \in 1 .. n : batches[i] \cap B = {}
  BY <1>1 DEF BatchesExact
<1>6. \A e \in Events : fate'[e] = "batched" <=> \E i \in 1 .. n + 1 : e \in batches'[i]
  <2> TAKE e \in Events
  <2>1. fate[e] = "batched" <=> \E i \in 1 .. n : e \in batches[i]
    BY <1>1 DEF BatchesExact
  <2>2. (\E i \in 1 .. n + 1 : e \in batches'[i]) <=> (e \in B \/ \E i \in 1 .. n : e \in batches[i])
    BY <1>1, <1>3
  <2> QED
    BY <2>1, <2>2, <1>4
<1>7. \A i \in 1 .. n + 1 : batches'[i] # {} /\ Cardinality(batches'[i]) <= MaxBatchEventCount
  BY <1>1, <1>3 DEF BatchesExact
<1>8. \A i, j \in 1 .. n + 1 : i # j => batches'[i] \cap batches'[j] = {}
  BY <1>1, <1>3, <1>5 DEF BatchesExact
<1>9. In({"pending"})' = {}
  BY <1>4 DEF In
<1>10. Cardinality(In({"pending"})') = 0
  BY <1>9, FS_EmptySet
<1>11. Cardinality(In({"pending"})') < MaxBatchEventCount
  BY <1>10
<1> QED
  BY <1>2, <1>6, <1>7, <1>8, <1>11 DEF BatchesExact

LEMMA TriggerKeeps ==
    ASSUME SenderTypeOK, BatchesExact, TriggerBatch
    PROVE  /\ BatchesExact' /\ batches' \in Seq(SUBSET Events)
           /\ fate' \in [Events -> QueueFates \cup FinalFates]
           /\ Queued' = Queued /\ In({"offered"})' = In({"offered"})
<1> DEFINE pending == In({"pending"})
<1>1. CASE pending = {}
  BY <1>1 DEF TriggerBatch, SenderTypeOK, BatchesExact, Queued, In
<1>2. CASE pending # {}
  <2>1. fate' = Moved(pending, "batched") /\ batches' = Append(batches, pending)
    BY <1>2 DEF TriggerBatch
  <2>2. pending \in SUBSET Events /\ \A e \in pending : fate[e] = "pending"
    BY DEF In
  <2>3. Cardinality(pending) <= MaxBatchEventCount
    BY InFinite DEF BatchesExact
  <2>4. BatchesExact' /\ batches' \in Seq(SUBSET Events)
    BY <1>2, <2>1, <2>2, <2>3, MakeBatchKeeps
  <2>5. fate' \in [Events -> QueueFates \cup FinalFates]
    BY <2>1, MovedType DEF QueueFates
  <2>6. Queued' = Queued /\ In({"offered"})' = In({"offered"})
    BY <2>1 DEF Queued, In, Moved
  <2> QED
    BY <2>4, <2>5, <2>6
<1> QED
  BY <1>1, <1>2

LEMMA PostToBlockKeeps ==
    ASSUME SenderTypeOK, BatchesExact, NEW e \in Events, fate[e] = "offered", PostToBlock(e)
    PROVE  /\ BatchesExact' /\ batches' \in Seq(SUBSET Events)
           /\ fate' \in [Events -> QueueFates \cup FinalFates]
           /\ Queued' = Queued \cup {e} /\ In({"offered"})' = In({"offered"}) \ {e}
<1> DEFINE pending == In({"pending"}) \cup {e}
<1>1. /\ pending \in SUBSET Events
      /\ \A f \in pending : fate[f] = "pending" \/ f = e
      /\ e \notin In({"pending"})
  BY DEF In
<1>2. Cardinality(pending) = Cardinality(In({"pending"})) + 1
  BY <1>1, InFinite, FS_AddElement
<1>3. CASE Cardinality(pending) < MaxBatchEventCount
  <2>1. fate' = Moved({e}, "pending") /\ batches' = batches
    BY <1>3 DEF PostToBlock
  <2>2. fate' \in [Events -> QueueFates \cup FinalFates]
    BY <2>1, MovedType DEF QueueFates
  <2>3. In({"pending"})' = pending
    BY <2>1 DEF In, Moved
  <2>4. \A f \in Events : fate'[f] = "batched" <=> fate[f] = "batched"
    BY <2>1 DEF Moved
  <2>5. BatchesExact'
    BY <1>3, <2>1, <2>3, <2>4 DEF BatchesExact
  <2>6. Queued' = Queued \cup {e} /\ In({"offered"})' = In({"offered"}) \ {e}
    BY <2>1 DEF Queued, In, Moved
  <2> QED
    BY <2>1, <2>2, <2>5, <2>6 DEF SenderTypeOK
<1>4. CASE ~(Cardinality(pending) < MaxBatchEventCount)
  <2>1. fate' = Moved(pending, "batched") /\ batches' = Append(batches, pending)
    BY <1>4 DEF PostToBlock
  <2>2. Cardinality(pending) <= MaxBatchEventCount
    BY <1>2, InFinite DEF BatchesExact
  <2>3. BatchesExact' /\ batches' \in Seq(SUBSET Events)
    BY <1>1, <2>1, <2>2, MakeBatchKeeps
  <2>4. fate' \in [Events -> QueueFates \cup FinalFates]
    BY <2>1, MovedType DEF QueueFates
  <2>5. Queued' = Queued \cup {e} /\ In({"offered"})' = In({"offered"}) \ {e}
    BY <2>1, <1>1 DEF Queued, In, Moved
  <2> QED
    BY <2>3, <2>4, <2>5
<1> QED
  BY <1>3, <1>4
LEMMA PostEventKeeps ==
    ASSUME CountInv, NEW p \in Producers, PostEvent(p)
    PROVE  CountInv'
<1> USE DEF CountInv, NothingElse, GoesTo
<1> DEFINE H == Holders({"post", "backOut"})
           P == Holders({"post"})
           e == item[p]
<1>1. /\ ppc[p] = "post" /\ p \in H /\ p \in P
      /\ e \in Events /\ fate[e] = "offered" /\ e \notin Queued
      /\ eventQueueCount' = eventQueueCount
  BY DEF PostEvent, OfferedOnce, Holders, In, Queued
<1>2. P' = P \ {p} /\ Cardinality(P') = Cardinality(P) - 1
  <2>1. P' = P \ {p}
    BY DEF PostEvent, Holders, SenderTypeOK
  <2> QED
    BY <2>1, <1>1, HoldersFinite, FS_RemoveElement
<1>3. CASE PostToBlock(e) /\ item' = [item EXCEPT ![p] = NoEvent]
           /\ GoesTo(p, "post", IF FlushImmediately THEN "trigger" ELSE "idle")
  <2>1. /\ BatchesExact' /\ batches' \in Seq(SUBSET Events)
        /\ fate' \in [Events -> QueueFates \cup FinalFates]
        /\ Queued' = Queued \cup {e} /\ In({"offered"})' = In({"offered"}) \ {e}
    BY <1>1, <1>3, PostToBlockKeeps
  <2>2. SenderTypeOK'
    BY <1>1, <1>3, <2>1 DEF PostEvent, SenderTypeOK, ProducerPcs, startupVars
  <2>3. Cardinality(Queued') = Cardinality(Queued) + 1
    BY <2>1, <1>1, QueuedFinite, FS_AddElement
  <2>4. Cardinality(H') = Cardinality(H) - 1
    <3>1. H' = H \ {p}
      BY <1>3 DEF Holders, SenderTypeOK
    <3> QED
      BY <3>1, <1>1, HoldersFinite, FS_RemoveElement
  <2>5. CountExact'
    BY <1>1, <2>3, <2>4, QueuedFinite, HoldersFinite DEF CountExact, SenderTypeOK
  <2>6. CapacityRespected'
    BY <1>2, <2>3, QueuedFinite, HoldersFinite, CapacityType DEF CapacityRespected, Capacity
  <2>7. OfferedOnce'
    BY <1>1, <1>3, <2>1 DEF OfferedOnce, Holders, SenderTypeOK
  <2> QED
    BY <2>1, <2>2, <2>5, <2>6, <2>7
<1>4. CASE GoesTo(p, "post", "backOut") /\ UNCHANGED <<item, fate, batches>>
  <2>1. Queued' = Queued /\ In({"pending"})' = In({"pending"}) /\ In({"offered"})' = In({"offered"})
    BY <1>4 DEF Queued, In
  <2>2. H' = H
    BY <1>4 DEF Holders, SenderTypeOK
  <2>3. SenderTypeOK'
    BY <1>1, <1>4 DEF PostEvent, SenderTypeOK, ProducerPcs, startupVars
  <2>4. CountExact'
    BY <1>1, <2>1, <2>2 DEF CountExact
  <2>5. CapacityRespected'
    BY <1>2, <2>1, QueuedFinite, HoldersFinite, CapacityType DEF CapacityRespected, Capacity
  <2>6. OfferedOnce'
    BY <1>4, <2>1 DEF OfferedOnce, Holders, SenderTypeOK
  <2>7. BatchesExact'
    BY <1>4, <2>1 DEF BatchesExact
  <2> QED
    BY <2>3, <2>4, <2>5, <2>6, <2>7
<1> QED
  BY <1>3, <1>4 DEF PostEvent

LEMMA TriggerAfterPostKeeps ==
    ASSUME CountInv, NEW p \in Producers, TriggerAfterPost(p)
    PROVE  CountInv'
<1> USE DEF CountInv, TriggerAfterPost, NothingElse, GoesTo
<1>1. /\ BatchesExact' /\ batches' \in Seq(SUBSET Events)
      /\ fate' \in [Events -> QueueFates \cup FinalFates]
      /\ Queued' = Queued /\ In({"offered"})' = In({"offered"})
  BY TriggerKeeps
<1>2. SenderTypeOK'
  BY <1>1 DEF SenderTypeOK, ProducerPcs, startupVars
<1>3. /\ Holders({"post"})' = Holders({"post"})
      /\ Holders({"post", "backOut"})' = Holders({"post", "backOut"})
  BY DEF Holders, SenderTypeOK
<1>4. CountExact' /\ CapacityRespected'
  BY <1>1, <1>3, AccountingFrame
<1>5. OfferedOnce'
  BY <1>1 DEF OfferedOnce, Holders, SenderTypeOK
<1> QED
  BY <1>1, <1>2, <1>4, <1>5

-----------------------------------------------------------------------------
(* The loop's steps on the block. *)
LEMMA FlushTimeoutKeeps == ASSUME CountInv, FlushTimeout PROVE CountInv'
<1> USE DEF CountInv, FlushTimeout, LoopOnly, producerVars
<1>1. /\ BatchesExact' /\ batches' \in Seq(SUBSET Events)
      /\ fate' \in [Events -> QueueFates \cup FinalFates]
      /\ Queued' = Queued /\ In({"offered"})' = In({"offered"})
  BY TriggerKeeps
<1>2. SenderTypeOK'
  BY <1>1 DEF SenderTypeOK, startupVars
<1>3. \A pcs : Holders(pcs)' = Holders(pcs)
  BY DEF Holders
<1>4. CountExact' /\ CapacityRespected'
  BY <1>1, <1>3, AccountingFrame
<1>5. OfferedOnce'
  BY <1>1, <1>3 DEF OfferedOnce
<1> QED
  BY <1>1, <1>2, <1>4, <1>5

LEMMA DeliverKeeps == ASSUME CountInv, DeliverBatch PROVE CountInv'
<1> USE DEF CountInv, DeliverBatch, LoopOnly, producerVars
<1> DEFINE n == Len(batches)
           B == Head(batches)
<1>1. /\ batches \in Seq(SUBSET Events) /\ n \in Nat \ {0} /\ DOMAIN batches = 1 .. n
      /\ B = batches[1] /\ B \in SUBSET Events
  BY DEF SenderTypeOK
<1>2. /\ batches' \in Seq(SUBSET Events) /\ DOMAIN batches' = 1 .. n - 1
      /\ \A i \in 1 .. n - 1 : batches'[i] = batches[i + 1]
  BY <1>1
<1>3. \A e \in B : fate[e] = "batched"
  BY <1>1 DEF BatchesExact
<1>4. \A e \in Events : fate'[e] = IF e \in B THEN "received" ELSE fate[e]
  BY DEF Moved
<1>5. /\ Queued' = Queued /\ In({"offered"})' = In({"offered"})
      /\ In({"pending"})' = In({"pending"})
  BY <1>3, <1>4 DEF Queued, In
<1>6. SenderTypeOK'
  BY <1>2, MovedType DEF SenderTypeOK, QueueFates, startupVars
<1>7. \A pcs : Holders(pcs)' = Holders(pcs)
  BY DEF Holders
<1>8. CountExact' /\ CapacityRespected'
  BY <1>5, <1>7, AccountingFrame
<1>9. OfferedOnce'
  BY <1>5, <1>7 DEF OfferedOnce
<1>10. BatchesExact'
  <2>1. \A e \in Events : fate'[e] = "batched" <=> \E i \in 1 .. n - 1 : e \in batches'[i]
    <3> TAKE e \in Events
    <3>1. fate[e] = "batched" <=> \E i \in 1 .. n : e \in batches[i]
      BY <1>1 DEF BatchesExact
    <3>2. ASSUME NEW i \in 1 .. n, e \in batches[i], e \notin B
          PROVE  \E j \in 1 .. n - 1 : e \in batches'[j]
      <4>1. i # 1 /\ i - 1 \in 1 .. n - 1 /\ batches'[i - 1] = batches[i]
        BY <3>2, <1>1, <1>2
      <4> QED
        BY <4>1, <3>2
    <3>3. ASSUME NEW j \in 1 .. n - 1, e \in batches'[j]
          PROVE  e \notin B /\ \E i \in 1 .. n : e \in batches[i]
      <4>1. j + 1 \in 1 .. n /\ j + 1 # 1 /\ e \in batches[j + 1]
        BY <3>3, <1>1, <1>2
      <4>2. batches[j + 1] \cap batches[1] = {}
        BY <4>1, <1>1 DEF BatchesExact
      <4> QED
        BY <4>1, <4>2, <1>1
    <3> QED
      BY <3>1, <3>2, <3>3, <1>4
  <2>2. \A i \in 1 .. n - 1 : batches'[i] # {} /\ Cardinality(batches'[i]) <= MaxBatchEventCount
    BY <1>1, <1>2 DEF BatchesExact
  <2>3. \A i, j \in 1 .. n - 1 : i # j => batches'[i] \cap batches'[j] = {}
    BY <1>1, <1>2 DEF BatchesExact
  <2>4. Cardinality(In({"pending"})') < MaxBatchEventCount
    BY <1>5 DEF BatchesExact
  <2> QED
    BY <1>2, <2>1, <2>2, <2>3, <2>4 DEF BatchesExact
<1> QED
  BY <1>6, <1>8, <1>9, <1>10

LEMMA AccountKeeps == ASSUME CountInv, AccountBatch PROVE CountInv'
<1> USE DEF CountInv, AccountBatch, LoopGoes, LoopOnly, producerVars
<1> DEFINE R == In({"received"})
<1>1. \A e \in Events : fate'[e] = IF e \in R THEN "taken" ELSE fate[e]
  BY DEF Moved
<1>2. /\ R \subseteq Queued /\ Queued' = Queued \ R
      /\ In({"offered"})' = In({"offered"}) /\ In({"pending"})' = In({"pending"})
      /\ \A e \in Events : fate'[e] = "batched" <=> fate[e] = "batched"
  BY <1>1 DEF Queued, In
<1>3. /\ IsFiniteSet(Queued') /\ Cardinality(Queued') \in Nat
      /\ Cardinality(Queued') = Cardinality(Queued) - Cardinality(R)
  <2>1. Queued \cap R = R
    BY <1>2
  <2> QED
    BY <2>1, <1>2, QueuedFinite, FS_Difference, FS_CardinalityType
<1>4. \A pcs : Holders(pcs)' = Holders(pcs)
  BY DEF Holders
<1>5. CountExact'
  <2>1. Holders({"post", "backOut"})' = Holders({"post", "backOut"})
    BY <1>4
  <2> QED
    BY <2>1, <1>3, InFinite, QueuedFinite, HoldersFinite DEF CountExact
<1>6. CapacityRespected'
  <2>1. Holders({"post"})' = Holders({"post"})
    BY <1>4
  <2> QED
    BY <2>1, <1>3, InFinite, QueuedFinite, HoldersFinite, CapacityType DEF CapacityRespected, Capacity
<1>7. SenderTypeOK'
  <2>1. fate' \in [Events -> QueueFates \cup FinalFates]
    BY MovedType DEF QueueFates
  <2>2. eventQueueCount' \in Nat
    BY <1>3, <1>4, <1>5, HoldersFinite DEF CountExact
  <2> QED
    BY <2>1, <2>2 DEF SenderTypeOK, LoopPcs, startupVars
<1>8. OfferedOnce'
  BY <1>2, <1>4 DEF OfferedOnce
<1>9. BatchesExact'
  BY <1>2 DEF BatchesExact
<1> QED
  BY <1>5, <1>6, <1>7, <1>8, <1>9
-----------------------------------------------------------------------------
(* All of Next keeps CountInv. *)
LEMMA LoopStepKeeps == ASSUME CountInv, LoopStep PROVE CountInv'
<1>1. CASE AccountBatch
  BY <1>1, AccountKeeps
<1>2. CASE FetchCloudMetadata \/ FillApmServerInfo \/ BeginReceive \/ CancelReceive \/ StartPost
  <2>1. SenderTypeOK' /\ UNCHANGED <<ppc, item, eventQueueCount, batches, fate>>
    BY <1>2 DEF FetchCloudMetadata, FillApmServerInfo, BeginReceive, CancelReceive, StartPost, CountInv,
                SenderTypeOK, LoopGoes, LoopOnly, LoopPcs, producerVars, startupVars
  <2> QED
    BY <2>1, QuietStepKeeps
<1>3. CASE FilterBatch
  <2> PICK dropped \in SUBSET (In({"taken"}) \ MetricSets) :
           fate' = [e \in Events |-> IF e \in dropped THEN "filtered"
                                     ELSE IF fate[e] = "taken" THEN "flying" ELSE fate[e]]
    BY <1>3 DEF FilterBatch
  <2>1. \A e \in Events : fate'[e] = fate[e] \/ {fate[e], fate'[e]} \subseteq QuietFates
    <3>1. \A e \in dropped : fate[e] = "taken"
      BY DEF In
    <3>2. \A e \in Events : fate'[e] = IF e \in dropped THEN "filtered"
                                       ELSE IF fate[e] = "taken" THEN "flying" ELSE fate[e]
      OBVIOUS
    <3> QED
      BY <3>1, <3>2 DEF QuietFates
  <2>2. fate' \in [Events -> QueueFates \cup FinalFates]
    BY <1>3 DEF FilterBatch, CountInv, SenderTypeOK, QueueFates, FinalFates
  <2>3. SenderTypeOK' /\ UNCHANGED <<ppc, item, eventQueueCount, batches>>
    BY <1>3, <2>2 DEF FilterBatch, CountInv, SenderTypeOK, LoopGoes, LoopOnly, LoopPcs, producerVars, startupVars
  <2> QED
    BY <2>1, <2>3, QuietStepKeeps
<1>4. ASSUME NEW from, NEW place \in {"lost", "delivered", "rejected"}, EndIteration(from, place),
             arrived' \in BOOLEAN, seen' = seen, metadataLine' \in {"null", "none", "some"}
      PROVE  CountInv'
  <2>1. \A e \in Events : fate'[e] = fate[e] \/ {fate[e], fate'[e]} \subseteq QuietFates
    BY <1>4 DEF EndIteration, Moved, In, QuietFates
  <2>2. fate' \in [Events -> QueueFates \cup FinalFates]
    BY <1>4, MovedType DEF EndIteration, CountInv, FinalFates
  <2>3. SenderTypeOK' /\ UNCHANGED <<ppc, item, eventQueueCount, batches>>
    BY <1>4, <2>2 DEF EndIteration, CountInv, SenderTypeOK, LoopGoes, LoopOnly, LoopPcs, producerVars, startupVars
  <2> QED
    BY <2>1, <2>3, QuietStepKeeps
<1>5. CASE SerializationFails
  <2>1. metadataLine' \in {"null", "none", "some"} /\ arrived' \in BOOLEAN /\ seen' = seen
    BY <1>5 DEF SerializationFails, CountInv, SenderTypeOK
  <2> QED
    BY <1>5, <2>1, <1>4 DEF SerializationFails
<1>6. CASE PostCancelledBeforeStart \/ FinishPost
  <2>1. metadataLine' \in {"null", "none", "some"} /\ arrived' \in BOOLEAN /\ seen' = seen
    BY <1>6 DEF PostCancelledBeforeStart, FinishPost, CountInv, SenderTypeOK
  <2> QED
    BY <1>6, <2>1, <1>4 DEF PostCancelledBeforeStart, FinishPost
<1> QED
  BY <1>1, <1>2, <1>3, <1>5, <1>6 DEF LoopStep

LEMMA CountStepKeeps == CountInv /\ [Next]_vars => CountInv'
<1> SUFFICES ASSUME CountInv, [Next]_vars PROVE CountInv'
  OBVIOUS
<1>1. ASSUME NEW p \in Producers, ProducerStep(p) PROVE CountInv'
  BY <1>1, IncrementKeeps, BackOutKeeps, PostEventKeeps, TriggerAfterPostKeeps DEF ProducerStep
<1>2. ASSUME NEW p \in Producers, NEW e \in Events, EnqueueEvent(p, e) PROVE CountInv'
  BY <1>2, EnqueueKeeps
<1>3. CASE LoopStep
  BY <1>3, LoopStepKeeps
<1>4. CASE DeliverBatch
  BY <1>4, DeliverKeeps
<1>5. CASE FlushTimeout
  BY <1>5, FlushTimeoutKeeps
<1>6. CASE ServerReceives
  <2>1. seen' \in [Events -> Nat]
    <3>1. seen \in [Events -> Nat] /\ \A n \in Nat : n + 1 \in Nat
      BY DEF CountInv, SenderTypeOK
    <3> QED
      BY <1>6, <3>1 DEF ServerReceives
  <2>2. SenderTypeOK' /\ UNCHANGED <<ppc, item, eventQueueCount, batches, fate>>
    BY <1>6, <2>1 DEF ServerReceives, CountInv, SenderTypeOK, LoopOnly, producerVars, startupVars
  <2> QED
    BY <2>2, QuietStepKeeps
<1>7. CASE SignalCompleted \/ DisposeSteps \/ UNCHANGED vars
  <2>1. UNCHANGED senderVars
    BY <1>7 DEF SignalCompleted, DisposeSteps, vars
  <2>2. SenderTypeOK' /\ UNCHANGED <<ppc, item, eventQueueCount, batches, fate>>
    BY <2>1 DEF CountInv, SenderTypeOK, senderVars, producerVars, startupVars
  <2> QED
    BY <2>2, QuietStepKeeps
<1> QED
  BY <1>1, <1>2, <1>3, <1>4, <1>5, <1>6, <1>7 DEF Next

LEMMA CountInvariant == Spec => [](BaseInv /\ CountInv)
<1>1. Init => BaseInv /\ CountInv
  BY BaseInitial, CountInitial DEF Init
<1>2. BaseInv /\ CountInv /\ [Next]_vars => BaseInv' /\ CountInv'
  BY BaseStepKeeps, StepIsBaseStep, CountStepKeeps
<1> QED
  BY <1>1, <1>2, PTL DEF Spec

(* Type correctness; in particular the counter never drops below zero.     *)
THEOREM SenderTypes == Spec => []TypeOK
<1>1. BaseInv /\ CountInv => TypeOK
  BY DEF BaseInv, CountInv, TypeOK
<1> QED
  BY <1>1, CountInvariant, PTL

(* The counter is the length of the queue plus the increments under way:   *)
(* no path through EnqueueEvent or ReceiveBatchAsync leaks capacity.       *)
THEOREM CounterIsExact == Spec => []CountExact
<1>1. CountInv => CountExact
  BY DEF CountInv
<1> QED
  BY <1>1, CountInvariant, PTL

(* However many producers race, the unbounded block never holds more than  *)
(* _maxQueueEventCount events. *)
THEOREM QueueIsBounded == Spec => []CapacityRespected
<1>1. CountInv => CapacityRespected
  BY DEF CountInv
<1> QED
  BY <1>1, CountInvariant, PTL

(* The batches are disjoint, nonempty, of at most MaxBatchEventCount       *)
(* events, and nothing waits outside of them that would fill one.          *)
THEOREM BatchesAreExact == Spec => []BatchesExact
<1>1. CountInv => BatchesExact
  BY DEF CountInv
<1> QED
  BY <1>1, CountInvariant, PTL

-----------------------------------------------------------------------------
(* The work loop: what it holds at each step, what the server is sent, how *)
(* it ends; and, from all of it, that PayloadSender implements EventPipe.  *)

(* What the loop has in hand, and the size of the batch handed to it. *)
HandInv ==
    /\ HandFollowsLoop
    /\ Cardinality(In({"received"})) <= MaxBatchEventCount
    /\ loop = "completed" => lpc = "exited"

(* The request being posted has been counted once it has arrived. *)
SentInv ==
    /\ SentAtMostOnce
    /\ arrived => lpc = "posting"
    /\ \A e \in Events : fate[e] = "flying" => (seen[e] = 1 <=> arrived)

MetadataInv ==
    /\ MetadataLineCurrent
    /\ lpc # "cloud" => getCloudMetadata

(* Why the loop leaves; the task that cancels it runs before the source is *)
(* disposed, because the loop has to leave first.                          *)
ExitInv ==
    /\ LoopEndsOnlyOnDispose
    /\ cancelled => cancelTask = "done"
    /\ cancelTask # "none" => HasStarted
    /\ loop = "completed" => lpc = "exited"

LoopInv == HandInv /\ SentInv /\ MetadataInv /\ ExitInv /\ MetricSetsUnfiltered
SafetyInv == BaseInv /\ CountInv /\ LoopInv

LEMMA LoopInitial == Init => LoopInv
<1> SUFFICES ASSUME Init PROVE LoopInv
  OBVIOUS
<1>1. \A f \in {"received", "taken", "flying"} : In({f}) = {}
  BY DEF Init, In
<1>2. Cardinality(In({"received"})) <= MaxBatchEventCount
  <2>1. Cardinality(In({"received"})) = 0
    BY <1>1, FS_EmptySet
  <2> QED
    BY <2>1
<1>3. HandInv
  BY <1>1, <1>2 DEF Init, BaseInit, HandInv, HandFollowsLoop
<1>4. SentInv
  BY DEF Init, SentInv, SentAtMostOnce
<1> QED
  BY <1>3, <1>4 DEF Init, BaseInit, LoopInv, MetadataInv, MetadataLineCurrent, ExitInv,
                    LoopEndsOnlyOnDispose, MetricSetsUnfiltered, HasStarted

(* Steps that touch neither the loop nor what it holds or has sent.        *)
LEMMA LoopFrame ==
    ASSUME LoopInv, UNCHANGED <<baseVars, lpc, arrived, seen, startupVars, metadataLine>>,
           \A e \in Events : fate'[e] = fate[e] \/
               {fate[e], fate'[e]} \subseteq {"new", "offered", "thrown", "refused", "pending", "batched"}
    PROVE  LoopInv'
<1>1. \A f \in {"received", "taken", "flying"} : In({f})' = In({f})
  BY DEF In
<1>2. HandInv'
  BY <1>1 DEF LoopInv, HandInv, HandFollowsLoop, baseVars, loopVars
<1>3. SentInv'
  BY DEF LoopInv, SentInv, SentAtMostOnce
<1>4. MetadataInv' /\ ExitInv'
  BY DEF LoopInv, MetadataInv, MetadataLineCurrent, ExitInv, LoopEndsOnlyOnDispose, HasStarted,
         baseVars, loopVars, disposeVars, startupVars
<1>5. MetricSetsUnfiltered'
  BY DEF LoopInv, MetricSetsUnfiltered
<1> QED
  BY <1>2, <1>3, <1>4, <1>5 DEF LoopInv

LEMMA ProducerKeepsLoop ==
    ASSUME SafetyInv, NEW p \in Producers, ProducerStep(p) \/ \E e \in Events : EnqueueEvent(p, e)
    PROVE  LoopInv'
<1> USE DEF NothingElse, GoesTo
<1>1. UNCHANGED <<baseVars, lpc, arrived, seen, startupVars, metadataLine>>
  BY DEF ProducerStep, EnqueueEvent, IncrementCount, BackOut, PostEvent, TriggerAfterPost
<1>2. ppc[p] \in {"post", "backOut"} => fate[item[p]] = "offered"
  BY DEF SafetyInv, CountInv, OfferedOnce, Holders, In
<1>3. \A e \in Events : fate'[e] = fate[e] \/
          {fate[e], fate'[e]} \subseteq {"new", "offered", "thrown", "refused", "pending", "batched"}
  <2>1. CASE \E e \in Events : EnqueueEvent(p, e)
    BY <2>1 DEF EnqueueEvent, Moved
  <2>2. CASE IncrementCount(p)
    BY <2>2 DEF IncrementCount
  <2>3. CASE BackOut(p)
    BY <2>3, <1>2 DEF BackOut, Moved
  <2>4. CASE PostEvent(p)
    BY <2>4, <1>2 DEF PostEvent, PostToBlock, Moved, In
  <2>5. CASE TriggerAfterPost(p)
    BY <2>5 DEF TriggerAfterPost, TriggerBatch, Moved, In
  <2> QED
    BY <2>1, <2>2, <2>3, <2>4, <2>5 DEF ProducerStep
<1> QED
  BY <1>1, <1>3, LoopFrame DEF SafetyInv

LEMMA DisposeKeepsLoop ==
    ASSUME SafetyInv, [Next]_vars, DisposeSteps \/ SignalCompleted \/ UNCHANGED vars
    PROVE  LoopInv'
<1> USE DEF SafetyInv, LoopInv
<1>1. UNCHANGED senderVars
  BY DEF DisposeSteps, SignalCompleted, vars
<1>2. fate' = fate /\ lpc' = lpc /\ arrived' = arrived /\ seen' = seen /\ metadataLine' = metadataLine
      /\ cloud' = cloud /\ getCloudMetadata' = getCloudMetadata
  BY <1>1 DEF senderVars, startupVars
<1>3. SentInv' /\ MetadataInv' /\ MetricSetsUnfiltered'
  BY <1>2 DEF SentInv, SentAtMostOnce, MetadataInv, MetadataLineCurrent, MetricSetsUnfiltered
<1>4. ExitInv' /\ (loop' = "completed" => lpc' = "exited")
  <2>1. CASE SignalCompleted
    BY <2>1, <1>2 DEF SignalCompleted, CompleteLoop, ExitInv, LoopEndsOnlyOnDispose, HasStarted, disposeVars
  <2>2. CASE UNCHANGED vars
    BY <2>2, <1>2 DEF vars, baseVars, loopVars, disposeVars, ExitInv, LoopEndsOnlyOnDispose, HasStarted
  <2>3. ASSUME NEW d \in Disposers, DisposeStep(d), UNCHANGED <<loopVars, cancelled>>
        PROVE  ExitInv' /\ (loop' = "completed" => lpc' = "exited")
    <3>1. /\ disposeState' # "before"
          /\ cancelTask' = cancelTask \/ (cancelTask = "none" /\ cancelTask' = "queued")
      <4>1. CASE PostCancel(d)
        <5>1. cancelTask = "none" /\ disposeState = "during"
          BY <4>1 DEF PostCancel, Moves, BaseInv, OwnerInv, ProgressInv, AfterWait, BodySteps
        <5> QED
          BY <4>1, <5>1 DEF PostCancel
      <4>2. CASE BeginDispose(d) \/ SkipDispose(d)
        BY <4>2 DEF BeginDispose, SkipDispose
      <4>3. CASE WaitLoop(d) \/ CompleteAdding(d) \/ Join(d) \/ DisposeHttpClient(d)
                 \/ DisposeCts(d) \/ FinishDispose(d)
        <5>1. cancelTask' = cancelTask /\ dpc[d] \in BodySteps /\ disposeState' \in {disposeState, "after"}
          BY <4>3 DEF WaitLoop, CompleteAdding, Join, DisposeHttpClient, DisposeCts, FinishDispose, Moves, BodySteps
        <5>2. disposeState = "during"
          BY <5>1 DEF BaseInv, OwnerInv
        <5> QED
          BY <5>1, <5>2
      <4> QED
        BY <2>3, <4>1, <4>2, <4>3 DEF DisposeStep
    <3> QED
      BY <3>1, <2>3, <1>2 DEF ExitInv, LoopEndsOnlyOnDispose, HasStarted, loopVars
  <2>4. CASE RunCancel /\ UNCHANGED loopVars
    <3>1. ~ctsDisposed
      BY <2>4 DEF RunCancel, BaseInv, ProgressInv, AfterCts, AfterWait, ExitInv, LoopEndsOnlyOnDispose
    <3> QED
      BY <2>4, <3>1, <1>2 DEF RunCancel, ExitInv, LoopEndsOnlyOnDispose, HasStarted, loopVars
  <2>5. CASE ThreadExit /\ UNCHANGED <<loopVars, cancelled>>
    BY <2>5, <1>2 DEF ThreadExit, ExitInv, LoopEndsOnlyOnDispose, HasStarted, loopVars
  <2> QED
    BY <2>1, <2>2, <2>3, <2>4, <2>5 DEF DisposeSteps
<1>5. HandInv'
  BY <1>2, <1>4 DEF HandInv, HandFollowsLoop, In
<1> QED
  BY <1>3, <1>4, <1>5
-----------------------------------------------------------------------------
(* The loop's own steps.  baseVars do not change, so ExitInv only asks for *)
(* the reason of a step to "exited". *)
LEMMA ExitFrame ==
    ASSUME SafetyInv, UNCHANGED baseVars, loop = "completed" => lpc' = "exited",
           lpc' = "exited" => lpc = "exited" \/ cancelled
    PROVE  ExitInv'
<1>1. UNCHANGED <<disposeState, cancelTask, cancelled, loop, exitReason>>
  BY DEF baseVars, loopVars, disposeVars
<1>2. cancelled => HasStarted
  BY DEF SafetyInv, LoopInv, ExitInv
<1> QED
  BY <1>1, <1>2 DEF SafetyInv, LoopInv, ExitInv, LoopEndsOnlyOnDispose, HasStarted

LEMMA StartupKeepsLoop ==
    ASSUME SafetyInv, FetchCloudMetadata \/ FillApmServerInfo \/ BeginReceive \/ CancelReceive \/ StartPost
    PROVE  LoopInv'
<1> USE DEF SafetyInv, LoopInv, LoopGoes, LoopOnly, startupVars
<1>1. /\ UNCHANGED <<baseVars, fate, arrived, seen, metadataLine>>
      /\ <<lpc, lpc'>> \in {<<"cloud", "serverInfo">>, <<"serverInfo", "begin">>, <<"begin", "exited">>,
                           <<"begin", "receive">>, <<"receive", "exited">>, <<"post", "posting">>}
  BY DEF FetchCloudMetadata, FillApmServerInfo, BeginReceive, CancelReceive, StartPost
<1>2. UNCHANGED loop /\ loop # "completed"
  BY <1>1 DEF baseVars, loopVars, HandInv
<1>3. ExitInv'
  <2>1. lpc' = "exited" => cancelled
    BY <1>1 DEF FetchCloudMetadata, FillApmServerInfo, BeginReceive, CancelReceive, StartPost
  <2> QED
    BY <1>1, <1>2, <2>1, ExitFrame
<1>4. \A places : In(places)' = In(places)
  BY <1>1 DEF In
<1>5. HandInv'
  <2>1. In({"received"}) # {} => lpc' = "receive"
    BY <1>1 DEF HandInv, HandFollowsLoop, FetchCloudMetadata, FillApmServerInfo, BeginReceive, CancelReceive, StartPost
  <2> QED
    BY <1>1, <1>2, <1>4, <2>1 DEF HandInv, HandFollowsLoop
<1>6. SentInv'
  BY <1>1 DEF SentInv, SentAtMostOnce
<1>7. MetadataInv'
  BY <1>1 DEF MetadataInv, MetadataLineCurrent, FetchCloudMetadata, FillApmServerInfo, BeginReceive,
              CancelReceive, StartPost
<1>8. MetricSetsUnfiltered'
  BY <1>1 DEF MetricSetsUnfiltered
<1> QED
  BY <1>3, <1>5, <1>6, <1>7, <1>8

LEMMA BlockStepKeepsLoop ==
    ASSUME SafetyInv, DeliverBatch \/ FlushTimeout
    PROVE  LoopInv'
<1> USE DEF SafetyInv, LoopInv, CountInv, LoopOnly
<1>1. CASE FlushTimeout
  <2>1. \A e \in Events : fate'[e] = fate[e] \/
          {fate[e], fate'[e]} \subseteq {"new", "offered", "thrown", "refused", "pending", "batched"}
    BY <1>1 DEF FlushTimeout, TriggerBatch, Moved, In
  <2>2. UNCHANGED <<baseVars, lpc, arrived, seen, startupVars, metadataLine>>
    BY <1>1 DEF FlushTimeout
  <2> QED
    BY <2>1, <2>2, LoopFrame
<1>2. CASE DeliverBatch
  <2> DEFINE B == Head(batches)
  <2>1. UNCHANGED <<baseVars, lpc, arrived, seen, startupVars, metadataLine>> /\ lpc = "receive"
    BY <1>2 DEF DeliverBatch
  <2>2. /\ B \in SUBSET Events /\ Cardinality(B) <= MaxBatchEventCount
        /\ \A e \in B : fate[e] = "batched"
    <3>1. batches \in Seq(SUBSET Events) /\ batches # <<>>
      BY <1>2 DEF DeliverBatch, SenderTypeOK
    <3>2. 1 \in DOMAIN batches /\ B = batches[1] /\ B \in SUBSET Events
      BY <3>1
    <3> QED
      BY <3>2 DEF BatchesExact
  <2>3. \A e \in Events : fate'[e] = IF e \in B THEN "received" ELSE fate[e]
    BY <1>2 DEF DeliverBatch, Moved
  <2>4. In({"received"})' = B
    BY <1>2, <2>2, <2>3 DEF DeliverBatch, In
  <2>5. In({"taken"})' = In({"taken"}) /\ In({"flying"})' = In({"flying"})
    BY <2>2, <2>3 DEF In
  <2>6. HandInv'
    BY <2>1, <2>2, <2>4, <2>5 DEF HandInv, HandFollowsLoop, baseVars, loopVars
  <2>7. SentInv'
    BY <2>1, <2>2, <2>3 DEF SentInv, SentAtMostOnce
  <2>8. MetadataInv' /\ ExitInv'
    BY <2>1 DEF MetadataInv, MetadataLineCurrent, ExitInv, LoopEndsOnlyOnDispose, HasStarted,
                baseVars, loopVars, disposeVars, startupVars
  <2>9. MetricSetsUnfiltered'
    BY <2>3 DEF MetricSetsUnfiltered
  <2> QED
    BY <2>6, <2>7, <2>8, <2>9
<1> QED
  BY <1>1, <1>2
LEMMA TakeKeepsLoop ==
    ASSUME SafetyInv, AccountBatch \/ FilterBatch
    PROVE  LoopInv'
<1> USE DEF SafetyInv, LoopInv, LoopGoes, LoopOnly
<1>1. /\ UNCHANGED <<baseVars, arrived, seen, startupVars>> /\ lpc' # "exited" /\ lpc' # "posting"
      /\ lpc \in {"receive", "process"}
  BY DEF AccountBatch, FilterBatch
<1>2. UNCHANGED loop /\ loop # "completed" /\ ~arrived
  BY <1>1 DEF baseVars, loopVars, HandInv, SentInv
<1>3. ExitInv'
  BY <1>1, <1>2, ExitFrame
<1>4. MetadataInv'
  BY <1>1 DEF MetadataInv, MetadataLineCurrent, AccountBatch, FilterBatch, startupVars
<1>5. CASE AccountBatch
  <2>1. \A e \in Events : fate'[e] = IF fate[e] = "received" THEN "taken" ELSE fate[e]
    BY <1>5 DEF AccountBatch, Moved, In
  <2>2. lpc = "receive" /\ lpc' = "process"
    BY <1>5 DEF AccountBatch
  <2>3. In({"received"})' = {} /\ In({"flying"})' = In({"flying"})
    BY <2>1 DEF In
  <2>4. Cardinality(In({"received"})') = 0
    BY <2>3, FS_EmptySet
  <2>5. HandInv'
    BY <1>2, <2>2, <2>3, <2>4 DEF HandInv, HandFollowsLoop
  <2>6. SentInv' /\ MetricSetsUnfiltered'
    BY <1>1, <1>2, <2>1 DEF SentInv, SentAtMostOnce, MetricSetsUnfiltered
  <2> QED
    BY <1>3, <1>4, <2>5, <2>6
<1>6. CASE FilterBatch
  <2> PICK dropped \in SUBSET (In({"taken"}) \ MetricSets) :
           fate' = [e \in Events |-> IF e \in dropped THEN "filtered"
                                     ELSE IF fate[e] = "taken" THEN "flying" ELSE fate[e]]
    BY <1>6 DEF FilterBatch
  <2>1. /\ \A e \in dropped : fate[e] = "taken" /\ e \notin MetricSets
        /\ \A e \in Events : fate'[e] = IF e \in dropped THEN "filtered"
                                       ELSE IF fate[e] = "taken" THEN "flying" ELSE fate[e]
    BY DEF In
  <2>2. lpc = "process" /\ lpc' = "post"
    BY <1>6 DEF FilterBatch
  <2>3. In({"received"}) = {} /\ In({"received"})' = {} /\ In({"taken"})' = {}
    <3>1. In({"received"}) = {}
      BY <2>2 DEF HandInv, HandFollowsLoop
    <3> QED
      BY <2>1, <3>1 DEF In
  <2>4. Cardinality(In({"received"})') = 0
    BY <2>3, FS_EmptySet
  <2>5. HandInv'
    BY <1>2, <2>2, <2>3, <2>4 DEF HandInv, HandFollowsLoop
  <2>6. \A e \in Events : fate[e] = "taken" => seen[e] # 1
    BY DEF SentInv, SentAtMostOnce
  <2>7. SentInv'
    <3>1. In({"flying"}) = {}
      BY <2>2 DEF HandInv, HandFollowsLoop
    <3>2. \A e \in Events : fate[e] # "flying"
      BY <3>1 DEF In
    <3> QED
      BY <1>1, <1>2, <2>1, <2>6, <3>2 DEF SentInv, SentAtMostOnce
  <2>8. MetricSetsUnfiltered'
    BY <2>1 DEF MetricSetsUnfiltered
  <2> QED
    BY <1>3, <1>4, <2>5, <2>7, <2>8
<1> QED
  BY <1>5, <1>6

(* The end of an iteration empties the loop's hands.  Only an answer of    *)
(* the server, which has then received the request, makes a delivery.      *)
LEMMA EndIterationKeepsLoop ==
    ASSUME SafetyInv, SerializationFails \/ PostCancelledBeforeStart \/ FinishPost
    PROVE  LoopInv'
<1> USE DEF SafetyInv, LoopInv, LoopGoes, LoopOnly, CountInv
<1>1. PICK place \in {"lost", "delivered", "rejected"} :
          /\ fate' = Moved(In({"taken", "flying"}), place)
          /\ place = "delivered" => arrived
          /\ place = "delivered" => lpc = "posting"
  BY DEF SerializationFails, PostCancelledBeforeStart, FinishPost, EndIteration
<1>2. /\ UNCHANGED <<baseVars, seen, startupVars>> /\ lpc' = "cloud"
      /\ lpc \in {"process", "post", "posting"}
  BY DEF SerializationFails, PostCancelledBeforeStart, FinishPost, EndIteration
<1>3. ~arrived'
  BY DEF SerializationFails, PostCancelledBeforeStart, FinishPost, EndIteration, SentInv, SenderTypeOK
<1>4. UNCHANGED loop /\ loop # "completed"
  BY <1>2 DEF baseVars, loopVars, HandInv
<1>5. ExitInv'
  BY <1>2, <1>4, ExitFrame
<1>6. MetadataInv'
  BY <1>2 DEF MetadataInv, MetadataLineCurrent, SerializationFails, PostCancelledBeforeStart, FinishPost, startupVars
<1>7. \A e \in Events : fate'[e] = IF fate[e] \in {"taken", "flying"} THEN place ELSE fate[e]
  BY <1>1 DEF Moved, In
<1>8. In({"received"})' = {} /\ In({"taken"})' = {} /\ In({"flying"})' = {}
  <2>1. In({"received"}) = {}
    BY <1>2 DEF HandInv, HandFollowsLoop
  <2>2. \A e \in Events : fate[e] # "received"
    BY <2>1 DEF In
  <2> QED
    BY <1>1, <1>7, <2>2 DEF In
<1>9. Cardinality(In({"received"})') = 0
  BY <1>8, FS_EmptySet
<1>10. HandInv'
  BY <1>4, <1>8, <1>9 DEF HandInv, HandFollowsLoop
<1>11. SentInv'
  <2>1. \A e \in Events : fate[e] = "taken" => lpc = "process"
    BY DEF HandInv, HandFollowsLoop, In
  <2>2. \A e \in Events : fate'[e] = "delivered" => seen[e] = 1
    BY <1>1, <1>7, <2>1 DEF SentInv, SentAtMostOnce
  <2>3. \A e \in Events : fate'[e] # "flying"
    BY <1>1, <1>7
  <2>4. \A e \in Events : seen[e] <= 1
    BY DEF SentInv, SentAtMostOnce
  <2>5. \A e \in Events : seen[e] = 1 => fate'[e] \in {"flying", "delivered", "rejected", "lost"}
    BY <1>1, <1>7 DEF SentInv, SentAtMostOnce
  <2> QED
    BY <1>2, <1>3, <2>2, <2>3, <2>4, <2>5 DEF SentInv, SentAtMostOnce
<1>12. MetricSetsUnfiltered'
  BY <1>1, <1>7 DEF MetricSetsUnfiltered
<1> QED
  BY <1>5, <1>6, <1>10, <1>11, <1>12

LEMMA ServerKeepsLoop == ASSUME SafetyInv, ServerReceives PROVE LoopInv'
<1> USE DEF SafetyInv, LoopInv, LoopOnly, CountInv
<1>1. /\ UNCHANGED <<baseVars, fate, lpc, startupVars, metadataLine>>
      /\ lpc = "posting" /\ ~arrived /\ arrived'
  BY DEF ServerReceives
<1>2. \A e \in Events : seen'[e] = IF fate[e] = "flying" THEN seen[e] + 1 ELSE seen[e]
  BY DEF ServerReceives
<1>3. \A e \in Events : fate[e] = "flying" => seen[e] = 0
  <2>1. \A e \in Events : seen[e] \in Nat /\ seen[e] <= 1 /\ (fate[e] = "flying" => seen[e] # 1)
    BY <1>1 DEF SenderTypeOK, SentInv, SentAtMostOnce
  <2> QED
    BY <2>1
<1>4. SentInv'
  BY <1>1, <1>2, <1>3 DEF SentInv, SentAtMostOnce
<1>5. \A places : In(places)' = In(places)
  BY <1>1 DEF In
<1>6. HandInv'
  BY <1>1, <1>5 DEF HandInv, HandFollowsLoop, baseVars, loopVars
<1>7. MetadataInv' /\ ExitInv' /\ MetricSetsUnfiltered'
  BY <1>1 DEF MetadataInv, MetadataLineCurrent, ExitInv, LoopEndsOnlyOnDispose, HasStarted,
              MetricSetsUnfiltered, baseVars, loopVars, disposeVars, startupVars
<1> QED
  BY <1>4, <1>6, <1>7

LEMMA LoopInvKept == SafetyInv /\ [Next]_vars => LoopInv'
<1> SUFFICES ASSUME SafetyInv, [Next]_vars PROVE LoopInv'
  OBVIOUS
<1>1. ASSUME NEW p \in Producers, ProducerStep(p) \/ \E e \in Events : EnqueueEvent(p, e)
      PROVE  LoopInv'
  BY <1>1, ProducerKeepsLoop
<1>2. CASE LoopStep \/ DeliverBatch \/ FlushTimeout \/ ServerReceives
  BY <1>2, StartupKeepsLoop, BlockStepKeepsLoop, TakeKeepsLoop, EndIterationKeepsLoop, ServerKeepsLoop DEF LoopStep
<1>3. CASE SignalCompleted \/ DisposeSteps \/ UNCHANGED vars
  BY <1>3, DisposeKeepsLoop
<1> QED
  BY <1>1, <1>2, <1>3 DEF Next

LEMMA SafetyInvariant == Spec => []SafetyInv
<1>1. Init => SafetyInv
  BY BaseInitial, CountInitial, LoopInitial DEF Init, SafetyInv
<1>2. SafetyInv /\ [Next]_vars => SafetyInv'
  BY BaseStepKeeps, StepIsBaseStep, CountStepKeeps, LoopInvKept DEF SafetyInv
<1> QED
  BY <1>1, <1>2, PTL DEF Spec
-----------------------------------------------------------------------------
(* The server is sent each event at most once, and never one that was      *)
(* refused or dropped by a filter. *)
THEOREM EventsAreSentAtMostOnce == Spec => []SentAtMostOnce
<1>1. SafetyInv => SentAtMostOnce
  BY DEF SafetyInv, LoopInv, SentInv
<1> QED
  BY <1>1, SafetyInvariant, PTL

(* No exception path leaves events in the hands of the loop. *)
THEOREM HandIsEmptied == Spec => []HandFollowsLoop
<1>1. SafetyInv => HandFollowsLoop
  BY DEF SafetyInv, LoopInv, HandInv
<1> QED
  BY <1>1, SafetyInvariant, PTL

(* The cached metadata line is the current one. *)
THEOREM MetadataIsCurrent == Spec => []MetadataLineCurrent
<1>1. SafetyInv => MetadataLineCurrent
  BY DEF SafetyInv, LoopInv, MetadataInv
<1> QED
  BY <1>1, SafetyInvariant, PTL

(* The loop does not end before Dispose, and Cancel never throws. *)
THEOREM LoopRunsUntilDispose == Spec => []LoopEndsOnlyOnDispose
<1>1. SafetyInv => LoopEndsOnlyOnDispose
  BY DEF SafetyInv, LoopInv, ExitInv
<1> QED
  BY <1>1, SafetyInvariant, PTL

(* The loop never uses a disposed HTTP client or cancellation source. *)
THEOREM NoUseAfterDispose == Spec => []LoopUsesLiveResources
<1>1. SafetyInv => LoopUsesLiveResources
  BY BaseInvImplies DEF SafetyInv, LoopInv, HandInv, LoopUsesLiveResources, ReleasedAfterLoop
<1> QED
  BY <1>1, SafetyInvariant, PTL

-----------------------------------------------------------------------------
(* The refinement. *)
placeOfEvents == [e \in Events |-> PlaceOf(fate[e])]

LEMMA PipeSets ==
    ASSUME SenderTypeOK
    PROVE  Pipe!At("held") = Queued /\ Pipe!At("sending") = In({"taken", "flying"})
BY DEF Pipe!At, PlaceOf, Queued, In, SenderTypeOK, QueueFates, FinalFates

(* INSTANCE makes a copy of FiniteSets; it counts the same. *)
LEMMA PipeCardinality == \A S : Pipe!Cardinality(S) = Cardinality(S)
BY DEF Pipe!Cardinality, Cardinality

LEMMA PipeStutter ==
    ASSUME UNCHANGED loop, \A e \in Events : PlaceOf(fate[e])' = PlaceOf(fate[e])
    PROVE  UNCHANGED Pipe!pipeVars
BY DEF Pipe!pipeVars

LEMMA PipeInitial == Init => Pipe!PipeInit
BY DEF Init, BaseInit, Pipe!PipeInit, PlaceOf

LEMMA PipePut ==
    ASSUME NEW S, NEW place,
           \A e \in Events : PlaceOf(fate[e])' = IF e \in S THEN place ELSE PlaceOf(fate[e])
    PROVE  placeOfEvents' = Pipe!Put(S, place)
BY DEF placeOfEvents, Pipe!Put

LEMMA ProducerStepRefines ==
    ASSUME SafetyInv, NEW p \in Producers, ProducerStep(p) \/ \E e \in Events : EnqueueEvent(p, e)
    PROVE  [Pipe!PipeNext]_(Pipe!pipeVars)
<1> USE DEF SafetyInv, CountInv, GoesTo, NothingElse
<1>1. UNCHANGED loop
  BY DEF ProducerStep, EnqueueEvent, IncrementCount, BackOut, PostEvent, TriggerAfterPost, baseVars, loopVars
<1>2. ppc[p] \in {"post", "backOut"} => item[p] \in Events /\ fate[item[p]] = "offered"
  BY DEF OfferedOnce, Holders, In
<1>3. ASSUME NEW e \in Events, fate[e] \in {"new", "offered"}, NEW end \in {"thrown", "refused"},
             \A f \in Events : fate'[f] = IF f = e THEN end ELSE fate[f]
      PROVE  Pipe!PipeNext
  <2>1. placeOfEvents' = Pipe!Put({e}, "settled")
    BY <1>3, PipePut DEF PlaceOf
  <2>2. Pipe!Refuse(e)
    BY <1>1, <1>3, <2>1 DEF Pipe!Refuse, placeOfEvents, PlaceOf
  <2> QED
    BY <2>2 DEF Pipe!PipeNext
<1>4. ASSUME \A e \in Events : PlaceOf(fate[e])' = PlaceOf(fate[e])
      PROVE  UNCHANGED Pipe!pipeVars
  BY <1>1, <1>4, PipeStutter
<1>5. ASSUME NEW e \in Events, EnqueueEvent(p, e)
      PROVE  [Pipe!PipeNext]_(Pipe!pipeVars)
  <2>1. fate[e] = "new"
    BY <1>5 DEF EnqueueEvent
  <2>2. CASE fate' = Moved({e}, "thrown")
    <3>1. \A f \in Events : fate'[f] = IF f = e THEN "thrown" ELSE fate[f]
      BY <2>2 DEF Moved
    <3> QED
      BY <2>1, <3>1, <1>3
  <2>3. CASE fate' = Moved({e}, "offered")
    <3>1. \A f \in Events : PlaceOf(fate[f])' = PlaceOf(fate[f])
      BY <2>1, <2>3 DEF Moved, PlaceOf
    <3> QED
      BY <3>1, <1>4
  <2> QED
    BY <1>5, <2>2, <2>3 DEF EnqueueEvent
<1>6. CASE IncrementCount(p)
  BY <1>6, <1>4 DEF IncrementCount
<1>7. CASE BackOut(p)
  <2>1. ppc[p] = "backOut"
    BY <1>7 DEF BackOut
  <2>2. \A f \in Events : fate'[f] = IF f = item[p] THEN "refused" ELSE fate[f]
    BY <1>7 DEF BackOut, Moved
  <2> QED
    BY <2>1, <2>2, <1>2, <1>3
<1>8. CASE PostEvent(p)
  <2> DEFINE e == item[p]
  <2>1. ppc[p] = "post" /\ e \in Events /\ fate[e] = "offered"
    BY <1>8, <1>2 DEF PostEvent
  <2>2. CASE UNCHANGED fate
    BY <2>2, <1>4
  <2>3. CASE PostToBlock(e)
    <3>1. placeOfEvents' = Pipe!Put({e}, "held")
      <4>1. \A f \in Events : f # e => (fate'[f] = fate[f] \/ {fate[f], fate'[f]} \subseteq {"pending", "batched"})
        BY <2>3 DEF PostToBlock, Moved, In
      <4>2. fate'[e] \in {"pending", "batched"}
        BY <2>1, <2>3 DEF PostToBlock, Moved
      <4>3. \A f \in Events : PlaceOf(fate[f])' = IF f \in {e} THEN "held" ELSE PlaceOf(fate[f])
        BY <4>1, <4>2 DEF PlaceOf
      <4> QED
        BY <4>3, PipePut
    <3>2. Cardinality(Queued) < Capacity
      <4>1. Cardinality(Holders({"post"})) # 0
        <5>1. p \in Holders({"post"})
          BY <2>1 DEF Holders
        <5> QED
          BY <5>1, HoldersFinite, FS_EmptySet
      <4> QED
        BY <4>1, HoldersFinite, QueuedFinite, CapacityType DEF CapacityRespected
    <3>3. Pipe!Accept(e)
      <4>1. Pipe!At("held") = Queued
        BY PipeSets
      <4>2. Cardinality(Pipe!At("held")) < Capacity
        BY <3>2, <4>1
      <4>3. placeOfEvents[e] = "out"
        BY <2>1 DEF placeOfEvents, PlaceOf
      <4>4. (loop = "completed")' = (loop = "completed")
        BY <1>1
      <4> QED
        BY <3>1, <4>2, <4>3, <4>4, PipeCardinality DEF Pipe!Accept, placeOfEvents
    <3> QED
      BY <3>3, <2>1 DEF Pipe!PipeNext
  <2> QED
    BY <1>8, <2>2, <2>3 DEF PostEvent
<1>9. CASE TriggerAfterPost(p)
  <2>1. \A f \in Events : PlaceOf(fate[f])' = PlaceOf(fate[f])
    BY <1>9 DEF TriggerAfterPost, TriggerBatch, Moved, In, PlaceOf
  <2> QED
    BY <2>1, <1>4
<1> QED
  BY <1>5, <1>6, <1>7, <1>8, <1>9 DEF ProducerStep

LEMMA LoopStepRefines ==
    ASSUME SafetyInv, LoopStep \/ DeliverBatch \/ FlushTimeout \/ ServerReceives
    PROVE  [Pipe!PipeNext]_(Pipe!pipeVars)
<1> USE DEF SafetyInv, CountInv, LoopInv, HandInv, LoopOnly, LoopGoes
<1>1. UNCHANGED loop
  BY DEF LoopStep, DeliverBatch, FlushTimeout, ServerReceives, FetchCloudMetadata, FillApmServerInfo,
         BeginReceive, CancelReceive, AccountBatch, FilterBatch, SerializationFails, StartPost,
         PostCancelledBeforeStart, FinishPost, EndIteration, baseVars, loopVars
<1>2. ASSUME \A e \in Events : PlaceOf(fate[e])' = PlaceOf(fate[e])
      PROVE  UNCHANGED Pipe!pipeVars
  BY <1>1, <1>2, PipeStutter
<1>3. ASSUME NEW S \in SUBSET In({"taken", "flying"}), NEW end \in {"filtered", "delivered", "rejected", "lost"},
             \A e \in Events : PlaceOf(fate[e])' = IF e \in S THEN PlaceOf(end) ELSE PlaceOf(fate[e])
      PROVE  Pipe!PipeNext
  <2>1. placeOfEvents' = Pipe!Put(S, "settled")
    BY <1>3, PipePut DEF PlaceOf
  <2>2. Pipe!Settle(S)
    BY <1>1, <2>1 DEF Pipe!Settle, placeOfEvents
  <2> QED
    BY <2>2, PipeSets DEF Pipe!PipeNext
<1>4. CASE FetchCloudMetadata \/ FillApmServerInfo \/ BeginReceive \/ CancelReceive \/ StartPost \/ ServerReceives
  <2>1. UNCHANGED fate
    BY <1>4 DEF FetchCloudMetadata, FillApmServerInfo, BeginReceive, CancelReceive, StartPost, ServerReceives
  <2> QED
    BY <2>1, <1>2
<1>5. CASE DeliverBatch
  <2>1. batches # <<>> /\ fate' = Moved(Head(batches), "received")
    BY <1>5 DEF DeliverBatch
  <2>2. 1 \in DOMAIN batches /\ Head(batches) = batches[1] /\ Head(batches) \in SUBSET Events
    BY <2>1 DEF SenderTypeOK
  <2>3. \A e \in Head(batches) : fate[e] = "batched"
    BY <2>2 DEF BatchesExact
  <2>4. \A f \in Events : PlaceOf(fate[f])' = PlaceOf(fate[f])
    BY <2>1, <2>3 DEF Moved, PlaceOf
  <2> QED
    BY <2>4, <1>2
<1>6. CASE FlushTimeout
  <2>1. \A f \in Events : PlaceOf(fate[f])' = PlaceOf(fate[f])
    BY <1>6 DEF FlushTimeout, TriggerBatch, Moved, In, PlaceOf
  <2> QED
    BY <2>1, <1>2
<1>7. CASE AccountBatch
  <2> DEFINE R == In({"received"})
  <2>1. R # {} /\ lpc = "receive" /\ fate' = Moved(R, "taken")
    BY <1>7 DEF AccountBatch
  <2>2. Cardinality(R) \in 1 .. MaxBatchEventCount
    <3>1. Cardinality(R) \in Nat /\ Cardinality(R) # 0
      BY <2>1, InFinite, FS_EmptySet
    <3> QED
      BY <3>1
  <2>3. In({"taken", "flying"}) = {}
    <3>1. In({"taken"}) = {} /\ In({"flying"}) = {}
      BY <2>1 DEF HandFollowsLoop
    <3> QED
      BY <3>1 DEF In
  <2>4. placeOfEvents' = Pipe!Put(R, "sending")
    <3>1. \A e \in Events : PlaceOf(fate[e])' = IF e \in R THEN "sending" ELSE PlaceOf(fate[e])
      BY <2>1 DEF Moved, PlaceOf
    <3> QED
      BY <3>1, PipePut
  <2>5. R \in SUBSET Pipe!At("held")
    BY PipeSets DEF Queued, In
  <2>6. Pipe!Send(R)
    <3>1. Pipe!At("sending") = {} /\ loop # "completed"
      BY <2>1, <2>3, PipeSets
    <3>2. (loop = "completed")' = (loop = "completed")
      BY <1>1
    <3> QED
      BY <2>2, <2>4, <3>1, <3>2, PipeCardinality DEF Pipe!Send, placeOfEvents
  <2> QED
    BY <2>5, <2>6 DEF Pipe!PipeNext
<1>8. CASE FilterBatch
  <2> PICK dropped \in SUBSET (In({"taken"}) \ MetricSets) :
           fate' = [e \in Events |-> IF e \in dropped THEN "filtered"
                                     ELSE IF fate[e] = "taken" THEN "flying" ELSE fate[e]]
    BY <1>8 DEF FilterBatch
  <2>1. \A e \in Events : PlaceOf(fate[e])' = IF e \in dropped THEN PlaceOf("filtered") ELSE PlaceOf(fate[e])
    BY DEF PlaceOf
  <2>2. dropped \in SUBSET In({"taken", "flying"})
    BY DEF In
  <2> QED
    BY <2>1, <2>2, <1>3
<1>9. CASE SerializationFails \/ PostCancelledBeforeStart \/ FinishPost
  <2> DEFINE S == In({"taken", "flying"})
  <2>1. PICK end \in {"lost", "delivered", "rejected"} : fate' = Moved(S, end)
    BY <1>9 DEF SerializationFails, PostCancelledBeforeStart, FinishPost, EndIteration
  <2>2. \A e \in Events : PlaceOf(fate[e])' = IF e \in S THEN PlaceOf(end) ELSE PlaceOf(fate[e])
    BY <2>1 DEF Moved
  <2> QED
    BY <2>2, <1>3
<1> QED
  BY <1>4, <1>5, <1>6, <1>7, <1>8, <1>9 DEF LoopStep

LEMMA StepRefines == SafetyInv /\ [Next]_vars => [Pipe!PipeNext]_(Pipe!pipeVars)
<1> SUFFICES ASSUME SafetyInv, [Next]_vars PROVE [Pipe!PipeNext]_(Pipe!pipeVars)
  OBVIOUS
<1>1. ASSUME NEW p \in Producers, ProducerStep(p) \/ \E e \in Events : EnqueueEvent(p, e)
      PROVE  [Pipe!PipeNext]_(Pipe!pipeVars)
  BY <1>1, ProducerStepRefines
<1>2. CASE LoopStep \/ DeliverBatch \/ FlushTimeout \/ ServerReceives
  BY <1>2, LoopStepRefines
<1>3. CASE SignalCompleted
  <2>1. /\ loop = "running" /\ loop' = "completed" /\ fate' = fate /\ lpc = "exited"
    BY <1>3 DEF SignalCompleted, CompleteLoop, senderVars
  <2>2. In({"taken", "flying"}) = {}
    BY <2>1 DEF SafetyInv, LoopInv, HandInv, HandFollowsLoop, In
  <2>3. Pipe!Stop
    BY <2>1, <2>2, PipeSets DEF Pipe!Stop, SafetyInv, CountInv
  <2> QED
    BY <2>3 DEF Pipe!PipeNext
<1>4. CASE DisposeSteps \/ UNCHANGED vars
  <2>1. UNCHANGED fate /\ UNCHANGED loop
    BY <1>4 DEF DisposeSteps, senderVars, vars, baseVars, loopVars
  <2> QED
    BY <2>1, PipeStutter
<1> QED
  BY <1>1, <1>2, <1>3, <1>4 DEF Next

(* The sender, with its counter, threads, block and life cycle, implements *)
(* the bounded pipe, for any number of producers and events and any limits.*)
THEOREM SenderImplementsEventPipe == Spec => ImplementsEventPipe
<1>1. Init => Pipe!PipeInit
  BY PipeInitial
<1>2. SafetyInv /\ [Next]_vars => [Pipe!PipeNext]_(Pipe!pipeVars)
  BY StepRefines
<1> QED
  BY <1>1, <1>2, SafetyInvariant, PTL DEF Spec, ImplementsEventPipe, Pipe!PipeSpec
=============================================================================
