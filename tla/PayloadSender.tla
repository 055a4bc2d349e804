--------------------------- MODULE PayloadSender ---------------------------
(***************************************************************************)
(* PayloadSenderV2: any thread may queue a transaction, a span, an error   *)
(* or a metric set; one work loop takes batches of them, passes them       *)
(* through the filters and posts them to the APM Server.                   *)
(*                                                                         *)
(* The capacity is enforced by a counter that is incremented before and,   *)
(* on refusal, decremented after the fact, so producers and the loop meet  *)
(* in the middle of each other's steps.  An event is an opaque value; what *)
(* has become of it is fate[e], which also says where it is:               *)
(*   new, offered      not queued yet, in the hands of a producer          *)
(*   pending, batched  in the BatchBlock, in no batch yet / in a batch     *)
(*   received          handed to the loop, not yet taken off the count     *)
(*   taken, flying     being filtered and serialized, being posted         *)
(*   thrown, refused, filtered, delivered, rejected, lost   final          *)
(***************************************************************************)
EXTENDS BackendComm, Integers, Sequences

CONSTANTS
    Producers,              \* threads that call EnqueueEvent
    Events, NoEvent,
    MetricSets,             \* the events that no filter is applied to
    MaxBatchEventCount,
    MaxQueueEventCount,     \* as configured; see Capacity
    FlushImmediately,       \* FlushInterval = 0
    PostMayRefuse           \* whether BatchBlock.Post may return false

ASSUME SenderConstants ==
    /\ MaxBatchEventCount \in Nat \ {0}
    /\ MaxQueueEventCount \in Nat \ {0}
    /\ IsFiniteSet(Events) /\ IsFiniteSet(Producers)
    /\ NoEvent \notin Events
    /\ MetricSets \subseteq Events
    /\ FlushImmediately \in BOOLEAN /\ PostMayRefuse \in BOOLEAN

VARIABLES
    ppc, item,              \* where each producer is, and with which event
    eventQueueCount,        \* _eventQueueCount
    fate,
    batches,                \* the BatchBlock's output, oldest first
    lpc,                    \* where the work loop is
    arrived,                \* the request being posted has reached the server
    seen,                   \* how often the server has been sent each event
    cloud, getCloudMetadata,                    \* _metadata.Cloud, and its flag
    getApmServerVersion,                        \* the server was asked for its version
    metadataLine            \* _cachedMetadataJsonLine: "null", or the cloud it was made with

producerVars == <<ppc, item>>
startupVars == <<cloud, getCloudMetadata, getApmServerVersion>>
senderVars == <<producerVars, eventQueueCount, fate, batches, lpc, arrived, seen, startupVars, metadataLine>>
vars == <<baseVars, senderVars>>

(* _maxQueueEventCount: the constructor raises a queue smaller than a batch. *)
Capacity ==
    IF MaxQueueEventCount < MaxBatchEventCount THEN MaxBatchEventCount ELSE MaxQueueEventCount

In(places) == {e \in Events : fate[e] \in places}
Moved(S, place) == [e \in Events |-> IF e \in S THEN place ELSE fate[e]]
Queued == In({"pending", "batched", "received"})

ProducerPcs == {"idle", "increment", "post", "backOut", "trigger"}
LoopPcs == {"cloud", "serverInfo", "begin", "receive", "process", "post", "posting", "exited"}
QueueFates == {"new", "offered", "pending", "batched", "received", "taken", "flying"}
FinalFates == {"thrown", "refused", "filtered", "delivered", "rejected", "lost"}

SenderTypeOK ==
    /\ ppc \in [Producers -> ProducerPcs]
    /\ item \in [Producers -> Events \cup {NoEvent}]
    /\ eventQueueCount \in Nat
    /\ fate \in [Events -> QueueFates \cup FinalFates]
    /\ batches \in Seq(SUBSET Events)
    /\ lpc \in LoopPcs
    /\ arrived \in BOOLEAN
    /\ seen \in [Events -> Nat]
    /\ cloud \in {"none", "some"} /\ getCloudMetadata \in BOOLEAN
    /\ getApmServerVersion \in BOOLEAN
    /\ metadataLine \in {"null", "none", "some"}
TypeOK == BaseTypeOK /\ SenderTypeOK

Init ==
    /\ BaseInit
    /\ ppc = [p \in Producers |-> "idle"]
    /\ item = [p \in Producers |-> NoEvent]
    /\ eventQueueCount = 0
    /\ fate = [e \in Events |-> "new"]
    /\ batches = <<>>
    /\ lpc = "cloud"
    /\ arrived = FALSE
    /\ seen = [e \in Events |-> 0]
    /\ cloud = "none" /\ getCloudMetadata = FALSE
    /\ getApmServerVersion = FALSE
    /\ metadataLine = "null"

-----------------------------------------------------------------------------
(* The dataflow block.  A batch is made when enough events are pending or  *)
(* when one is asked for and there is anything to put in it.               *)
TriggerBatch ==
    LET pending == In({"pending"}) IN
    IF pending = {}
    THEN UNCHANGED <<fate, batches>>
    ELSE fate' = Moved(pending, "batched") /\ batches' = Append(batches, pending)

PostToBlock(e) ==
    LET pending == In({"pending"}) \cup {e} IN
    IF Cardinality(pending) < MaxBatchEventCount
    THEN fate' = Moved({e}, "pending") /\ UNCHANGED batches
    ELSE fate' = Moved(pending, "batched") /\ batches' = Append(batches, pending)

(* EnqueueEvent, step by step. *)
GoesTo(p, from, to) == ppc[p] = from /\ ppc' = [ppc EXCEPT ![p] = to]
NothingElse == UNCHANGED <<baseVars, lpc, arrived, seen, startupVars, metadataLine>>

EnqueueEvent(p, e) ==           \* the call, up to ThrowIfDisposed
    /\ ppc[p] = "idle"
    /\ fate[e] = "new"
    /\ IF HasStarted
       THEN fate' = Moved({e}, "thrown") /\ UNCHANGED producerVars
       ELSE /\ fate' = Moved({e}, "offered")
            /\ item' = [item EXCEPT ![p] = e]
            /\ GoesTo(p, "idle", "increment")
    /\ UNCHANGED <<eventQueueCount, batches>> /\ NothingElse

IncrementCountLate(p) ==         \* mutant: compares the count before the increment
    /\ eventQueueCount' = eventQueueCount + 1
    /\ GoesTo(p, "increment", IF eventQueueCount > Capacity THEN "backOut" ELSE "post")
    /\ UNCHANGED <<item, fate, batches>> /\ NothingElse

IncrementCount(p) ==
    /\ eventQueueCount' = eventQueueCount + 1
    /\ GoesTo(p, "increment", IF eventQueueCount + 1 > Capacity THEN "backOut" ELSE "post")
    /\ UNCHANGED <<item, fate, batches>> /\ NothingElse

BackOutLeaks(p) ==               \* mutant: returns false without the decrement
    /\ GoesTo(p, "backOut", "idle")
    /\ fate' = Moved({item[p]}, "refused")
    /\ item' = [item EXCEPT ![p] = NoEvent]
    /\ UNCHANGED <<eventQueueCount, batches>> /\ NothingElse

BackOut(p) ==                   \* both return false paths end here
    /\ GoesTo(p, "backOut", "idle")
    /\ eventQueueCount' = eventQueueCount - 1
    /\ fate' = Moved({item[p]}, "refused")
    /\ item' = [item EXCEPT ![p] = NoEvent]
    /\ UNCHANGED batches /\ NothingElse

PostEvent(p) ==
    /\ \/ /\ PostToBlock(item[p])
          /\ item' = [item EXCEPT ![p] = NoEvent]
          /\ GoesTo(p, "post", IF FlushImmediately THEN "trigger" ELSE "idle")
       \/ /\ PostMayRefuse
          /\ GoesTo(p, "post", "backOut")
          /\ UNCHANGED <<item, fate, batches>>
    /\ UNCHANGED eventQueueCount /\ NothingElse

TriggerAfterPost(p) ==
    /\ GoesTo(p, "trigger", "idle")
    /\ TriggerBatch
    /\ UNCHANGED <<item, eventQueueCount>> /\ NothingElse

ProducerStep(p) == IncrementCount(p) \/ BackOut(p) \/ PostEvent(p) \/ TriggerAfterPost(p)

-----------------------------------------------------------------------------
(* WorkLoopIteration. *)
LoopGoes(from, to) == lpc = from /\ lpc' = to
LoopOnly == UNCHANGED <<baseVars, producerVars>>

FetchCloudMetadataAgain ==       \* mutant: the flag is not set, every iteration asks
    /\ LoopGoes("cloud", "serverInfo")
    /\ cloud' \in {cloud, "some"}
    /\ UNCHANGED <<getCloudMetadata, getApmServerVersion>>
    /\ UNCHANGED <<eventQueueCount, fate, batches, arrived, seen, metadataLine>>
    /\ LoopOnly

(* First iteration: no token is passed to either request and both swallow  *)
(* every failure, so they end, with or without an answer.                  *)
FetchCloudMetadata ==
    /\ LoopGoes("cloud", "serverInfo")
    /\ IF getCloudMetadata
       THEN UNCHANGED <<cloud, getCloudMetadata>>
       ELSE cloud' \in {cloud, "some"} /\ getCloudMetadata' = TRUE
    /\ UNCHANGED <<eventQueueCount, fate, batches, arrived, seen, getApmServerVersion, metadataLine>>
    /\ LoopOnly

FillApmServerInfo ==             \* only this call sets _apmServerInfo.Version
    /\ LoopGoes("serverInfo", "begin")
    /\ getApmServerVersion' = TRUE
    /\ UNCHANGED <<eventQueueCount, fate, batches, arrived, seen, cloud, getCloudMetadata, metadataLine>>
    /\ LoopOnly

(* ReceiveAsync on a cancelled token is a cancelled task: the loop leaves  *)
(* with OperationCanceledException whatever the block holds.               *)
BeginReceive ==
    /\ LoopGoes("begin", IF cancelled THEN "exited" ELSE "receive")
    /\ UNCHANGED <<eventQueueCount, fate, batches, arrived, seen, startupVars, metadataLine>>
    /\ LoopOnly

(* While the loop waits, the block offers a batch and the token cancels    *)
(* the wait: whichever comes first decides.                                *)
DeliverBatch ==
    /\ lpc = "receive"
    /\ In({"received"}) = {}
    /\ batches # <<>>
    /\ fate' = Moved(Head(batches), "received")
    /\ batches' = Tail(batches)
    /\ UNCHANGED <<eventQueueCount, lpc, arrived, seen, startupVars, metadataLine>>
    /\ LoopOnly

ReceiveWithoutToken == FALSE     \* mutant: ReceiveAsync() cannot be cancelled
CancelReceive ==
    /\ cancelled
    /\ In({"received"}) = {}
    /\ LoopGoes("receive", "exited")
    /\ UNCHANGED <<eventQueueCount, fate, batches, arrived, seen, startupVars, metadataLine>>
    /\ LoopOnly

FlushTimeoutNot == FALSE         \* mutant: waits for a full batch for ever
(* TryAwaitOrTimeout returned false: the timer fired, or was itself        *)
(* cancelled before the receive was.                                       *)
FlushTimeout ==
    /\ ~FlushImmediately
    /\ lpc = "receive"
    /\ In({"pending"}) # {}
    /\ TriggerBatch
    /\ UNCHANGED <<eventQueueCount, lpc, arrived, seen, startupVars, metadataLine>>
    /\ LoopOnly

AccountBatch ==
    /\ In({"received"}) # {}
    /\ LoopGoes("receive", "process")
    /\ eventQueueCount' = eventQueueCount - Cardinality(In({"received"}))
    /\ fate' = Moved(In({"received"}), "taken")
    /\ UNCHANGED <<batches, arrived, seen, startupVars, metadataLine>>
    /\ LoopOnly

(* ProcessQueueItems up to PostAsync: the metadata line is made once;      *)
(* a filter may drop anything but a metric set, and one that throws is     *)
(* ignored.                                                                *)
FilterBatch ==
    /\ LoopGoes("process", "post")
    /\ metadataLine' = IF metadataLine = "null" THEN cloud ELSE metadataLine
    /\ \E dropped \in SUBSET (In({"taken"}) \ MetricSets) :
           fate' = [e \in Events |-> IF e \in dropped THEN "filtered"
                                     ELSE IF fate[e] = "taken" THEN "flying" ELSE fate[e]]
    /\ UNCHANGED <<eventQueueCount, batches, arrived, seen, startupVars>>
    /\ LoopOnly

(* Back to WorkLoopIteration, which starts over. *)
EndIteration(from, place) ==
    /\ LoopGoes(from, "cloud")
    /\ fate' = Moved(In({"taken", "flying"}), place)
    /\ UNCHANGED <<eventQueueCount, batches, startupVars>>
    /\ LoopOnly

(* A value that cannot be serialized loses the whole batch. *)
SerializationFails ==
    /\ EndIteration("process", "lost")
    /\ metadataLine' \in {metadataLine, IF metadataLine = "null" THEN cloud ELSE metadataLine}
    /\ UNCHANGED <<arrived, seen>>

StartPost ==
    /\ ~cancelled
    /\ LoopGoes("post", "posting")
    /\ UNCHANGED <<eventQueueCount, fate, batches, arrived, seen, startupVars, metadataLine>>
    /\ LoopOnly

PostCancelledBeforeStart ==
    /\ cancelled
    /\ EndIteration("post", "lost")
    /\ UNCHANGED <<arrived, seen, metadataLine>>

ServerReceives ==
    /\ lpc = "posting" /\ ~arrived
    /\ arrived' = TRUE
    /\ seen' = [e \in Events |-> IF fate[e] = "flying" THEN seen[e] + 1 ELSE seen[e]]
    /\ UNCHANGED <<eventQueueCount, fate, batches, lpc, startupVars, metadataLine>>
    /\ LoopOnly

FinishPostRetrying ==            \* mutant: an exception has the batch posted again
    /\ \/ arrived /\ EndIteration("posting", "delivered")
       \/ LoopGoes("posting", "post") /\ UNCHANGED <<eventQueueCount, fate, batches, startupVars>> /\ LoopOnly
    /\ arrived' = FALSE
    /\ UNCHANGED <<seen, metadataLine>>

(* The answer, or an exception: a failed connection, HttpClient's timeout, *)
(* the cancelled token; the server may have received the request or not.   *)
FinishPost ==
    /\ \/ arrived /\ EndIteration("posting", "delivered")
       \/ arrived /\ EndIteration("posting", "rejected")
       \/ EndIteration("posting", "lost")
    /\ arrived' = FALSE
    /\ UNCHANGED <<seen, metadataLine>>

SignalCompleted ==
    /\ lpc = "exited"
    /\ CompleteLoop("cancelled")
    /\ UNCHANGED <<disposeVars, cancelled, senderVars>>

LoopStep ==
    \/ FetchCloudMetadata \/ FillApmServerInfo \/ BeginReceive
    \/ CancelReceive \/ AccountBatch
    \/ FilterBatch \/ SerializationFails
    \/ StartPost \/ PostCancelledBeforeStart \/ FinishPost

-----------------------------------------------------------------------------
DisposeSteps ==
    /\ \/ \E d \in Disposers : DisposeStep(d) /\ UNCHANGED <<loopVars, cancelled>>
       \/ RunCancel /\ UNCHANGED loopVars
       \/ ThreadExit /\ UNCHANGED <<loopVars, cancelled>>
    /\ UNCHANGED senderVars

Next ==
    \/ \E p \in Producers : ProducerStep(p) \/ \E e \in Events : EnqueueEvent(p, e)
    \/ LoopStep \/ DeliverBatch \/ FlushTimeout \/ ServerReceives \/ SignalCompleted
    \/ DisposeSteps

Spec == Init /\ [][Next]_vars

(* A thread that is inside EnqueueEvent or Dispose goes on; the loop's     *)
(* thread, the pool, the timer and the block do their work; PostAsync ends *)
(* because HttpClient has a timeout.  Nobody has to call anything.         *)
Fairness ==
    /\ \A p \in Producers : WF_vars(ProducerStep(p))
    /\ WF_vars(LoopStep)
    /\ WF_vars(DeliverBatch) /\ WF_vars(FlushTimeout) /\ WF_vars(SignalCompleted)
    /\ \A d \in Disposers : WF_vars(dpc[d] # "idle" /\ DisposeStep(d) /\ UNCHANGED <<loopVars, cancelled, senderVars>>)
    /\ WF_vars(RunCancel /\ UNCHANGED <<loopVars, senderVars>>)
    /\ WF_vars(ThreadExit /\ UNCHANGED <<loopVars, cancelled, senderVars>>)

FairSpec == Spec /\ Fairness

-----------------------------------------------------------------------------
Holders(pcs) == {p \in Producers : ppc[p] \in pcs}

(* The counter that stands for the length of the queue is exact: it counts *)
(* the events in the block and in the loop's hands that were not taken off *)
(* yet, and the producers that have incremented and not posted or backed   *)
(* out.  A missing or doubled decrement anywhere would leak capacity until *)
(* every event is refused.                                                 *)
CountExact ==
    eventQueueCount = Cardinality(Queued) + Cardinality(Holders({"post", "backOut"}))

(* The queue never holds more than _maxQueueEventCount events, although    *)
(* the block itself is unbounded, and whoever is about to post has room.   *)
CapacityRespected ==
    Cardinality(Queued) + Cardinality(Holders({"post"})) <= Capacity

(* Every event is in one place: the producers hold distinct offered        *)
(* events, the batches are disjoint, not empty, not larger than            *)
(* MaxBatchEventCount and hold exactly the events that wait in batches.    *)
OfferedOnce ==
    /\ \A p \in Holders({"increment", "post", "backOut"}) : item[p] \in In({"offered"})
    /\ \A p, q \in Holders({"increment", "post", "backOut"}) : item[p] = item[q] => p = q
BatchesExact ==
    /\ \A e \in Events : fate[e] = "batched" <=> \E i \in DOMAIN batches : e \in batches[i]
    /\ \A i \in DOMAIN batches : batches[i] # {} /\ Cardinality(batches[i]) <= MaxBatchEventCount
    /\ \A i, j \in DOMAIN batches : i # j => batches[i] \cap batches[j] = {}
    /\ Cardinality(In({"pending"})) < MaxBatchEventCount

(* The events the loop works on belong to its step: the hand is empty when *)
(* it waits for the next batch, so no event is left behind in an exception *)
(* path and none is sent with a batch it does not belong to.               *)
HandFollowsLoop ==
    /\ In({"received"}) # {} => lpc = "receive"
    /\ In({"taken"}) # {} => lpc = "process"
    /\ In({"flying"}) # {} => lpc \in {"post", "posting"}

(* The server is sent an event at most once (nothing is retried), never    *)
(* one that was refused, dropped by a filter or is still queued, and       *)
(* whatever counts as delivered has been sent.                             *)
SentAtMostOnce ==
    \A e \in Events :
        /\ seen[e] <= 1
        /\ fate[e] = "delivered" => seen[e] = 1
        /\ seen[e] = 1 => fate[e] \in {"flying", "delivered", "rejected", "lost"}

(* Filters are for transactions, spans and errors. *)
MetricSetsUnfiltered == \A e \in MetricSets : fate[e] # "filtered"

(* The metadata line is cached for good: it must not be made before the    *)
(* cloud metadata is known, nor the cloud metadata change after it.        *)
MetadataLineCurrent ==
    metadataLine # "null" => getCloudMetadata /\ metadataLine = cloud

(* While the loop is in an iteration, the HTTP client and the cancellation *)
(* source it uses have not been disposed.                                  *)
LoopUsesLiveResources ==
    lpc # "exited" \/ loop = "running" => ~httpDisposed /\ ~ctsDisposed

(* The loop of this component ends in one way only, cancelled by Dispose;  *)
(* so Cancel never meets the disposed source.                              *)
LoopEndsOnlyOnDispose ==
    /\ lpc = "exited" => cancelled /\ HasStarted
    /\ exitReason # "failed"
    /\ cancelTask # "faulted"

(* Once accepted, an event is taken for sending (at the latest when the    *)
(* flush interval ends), unless Dispose is called first.                   *)
QueuedIsTaken ==
    \A e \in Events : fate[e] \in {"pending", "batched", "received"} ~>
                          fate[e] \notin {"pending", "batched", "received"} \/ HasStarted

=============================================================================
