------------------------- MODULE ExecutionSegments -------------------------
(***************************************************************************)
(* Tracer, Transaction, Span, their Noop variants, SpanCount and           *)
(* CurrentExecutionSegmentsContainer.  A flow is a logical flow of control *)
(* with its own values of the two AsyncLocals; a fork (a task, a           *)
(* continuation) starts from copies of them, and what it sets is not seen  *)
(* by the flow it came from.  A segment can be used by every flow.         *)
(* Two calls of End of the same segment do not overlap: calling a method   *)
(* of an ended segment is documented as illegal (IExecutionSegment.End).   *)
(***************************************************************************)
EXTENDS Integers, FiniteSets

CONSTANTS
    Flows,
    Transactions, Spans,    \* the instances that can be created
    MaxSpans,               \* values of TransactionMaxSpans; negative: no limit
    None

Segments == Transactions \cup Spans

ASSUME SegmentConstants ==
    /\ MaxSpans \subseteq Int
    /\ Transactions \cap Spans = {}
    /\ None \notin Segments

VARIABLES
    config,                 \* CurrentSnapshot, as far as it matters here
    tx, span,               \* the instances
    currentTransaction, currentSpan,
    call,                   \* the constructor a flow is in
    queued,                 \* how often a segment was given to the payload sender
    references,             \* ids sent in errors and in outgoing tracing headers
    senderDisposed

vars == <<config, tx, span, currentTransaction, currentSpan, call, queued, references,
          senderDisposed>>

Snapshots == [recording: BOOLEAN, maxSpans: MaxSpans]
Kinds == {"none", "constructing", "real", "noop"}
TransactionObjects == [kind: Kinds, config: Snapshots, isSampled: BOOLEAN, ended: BOOLEAN,
                       total: Nat, started: Nat, dropped: Nat]  \* the last three: SpanCount
SpanObjects == [kind: Kinds, transaction: Transactions \cup {None},
                parent: Segments \cup {None}, parentSpan: Spans \cup {None},
                number: Nat,        \* what IncrementTotal returned
                isDropped: BOOLEAN, ended: BOOLEAN]
Calls == [at: {"idle", "transaction", "span"}, of: Segments \cup {None}]
Idle == [at |-> "idle", of |-> None]

SegmentsTypeOK ==
    /\ config \in Snapshots
    /\ tx \in [Transactions -> TransactionObjects]
    /\ span \in [Spans -> SpanObjects]
    /\ currentTransaction \in [Flows -> Transactions \cup {None}]
    /\ currentSpan \in [Flows -> Spans \cup {None}]
    /\ call \in [Flows -> Calls]
    /\ queued \in [Segments -> Nat]
    /\ references \in SUBSET Segments
    /\ senderDisposed \in BOOLEAN

NoSpan == [kind |-> "none", transaction |-> None, parent |-> None, parentSpan |-> None,
           number |-> 0, isDropped |-> FALSE, ended |-> FALSE]

Init ==
    /\ config \in Snapshots
    /\ tx = [t \in Transactions |-> [kind |-> "none", config |-> config, isSampled |-> FALSE,
                                     ended |-> FALSE, total |-> 0, started |-> 0, dropped |-> 0]]
    /\ span = [s \in Spans |-> NoSpan]
    /\ currentTransaction = [f \in Flows |-> None]
    /\ currentSpan = [f \in Flows |-> None]
    /\ call = [f \in Flows |-> Idle]
    /\ queued = [s \in Segments |-> 0]
    /\ references = {}
    /\ senderDisposed = FALSE

Kind(s) == IF s \in Transactions THEN tx[s].kind ELSE span[s].kind
Ended(s) == IF s \in Transactions THEN tx[s].ended ELSE span[s].ended
EnclosingTransaction(s) == IF s \in Transactions THEN s ELSE span[s].transaction

(* Of a span that is not a NoopSpan. *)
ShouldBeSentToApmServer(s) == tx[span[s].transaction].isSampled /\ ~span[s].isDropped

(* GetCurrentExecutionSegment *)
Current(f) == IF currentSpan[f] # None THEN currentSpan[f] ELSE currentTransaction[f]

-----------------------------------------------------------------------------
(* Transactions.  StartTransaction looks at the current snapshot and       *)
(* StartTransactionInternal takes the current snapshot once more.          *)
StartTransaction(f, t) ==
    /\ call[f] = Idle /\ tx[t].kind = "none"
    /\ \/ /\ config.recording
          /\ call' = [call EXCEPT ![f] = [at |-> "transaction", of |-> t]]
          /\ tx' = [tx EXCEPT ![t].kind = "constructing"]
          /\ UNCHANGED currentTransaction
       \/ /\ ~config.recording
          /\ tx' = [tx EXCEPT ![t].kind = "noop"]
          /\ currentTransaction' = [currentTransaction EXCEPT ![f] = t]
          /\ UNCHANGED call
    /\ UNCHANGED <<config, span, currentSpan, queued, references, senderDisposed>>

(* The sampling decision is the sampler's or the caller's. *)
StartTransactionInternal(f) ==
    /\ call[f].at = "transaction"
    /\ LET t == call[f].of
       IN  /\ \E sampled \in BOOLEAN :
                 tx' = [tx EXCEPT ![t].kind = "real", ![t].config = config,
                                  ![t].isSampled = sampled]
           /\ currentTransaction' = [currentTransaction EXCEPT ![f] = t]
    /\ call' = [call EXCEPT ![f] = Idle]
    /\ UNCHANGED <<config, span, currentSpan, queued, references, senderDisposed>>

-----------------------------------------------------------------------------
(* Spans. *)
NewNoopSpan(f, s, parentSpan) ==
    /\ span' = [span EXCEPT ![s] = [NoSpan EXCEPT !.kind = "noop", !.parentSpan = parentSpan]]
    /\ currentSpan' = [currentSpan EXCEPT ![f] = s]
    /\ UNCHANGED <<tx, call>>

NewSpan(p, kind, number) ==
    [kind |-> kind, transaction |-> EnclosingTransaction(p), parent |-> p,
     parentSpan |-> IF p \in Spans THEN p ELSE None,
     number |-> number, isDropped |-> FALSE, ended |-> FALSE]

IncrementTotalLost(f, s, p, t) ==    \* mutant: counts what was started, not what is being started
    /\ tx' = [tx EXCEPT ![t].total = @ + 1]
    /\ span' = [span EXCEPT ![s] = NewSpan(p, "constructing", tx[t].started + 1)]
    /\ call' = [call EXCEPT ![f] = [at |-> "span", of |-> s]]
    /\ UNCHANGED currentSpan

(* SpanCount.IncrementTotal, an atomic increment. *)
IncrementTotal(f, s, p, t) ==
    /\ tx' = [tx EXCEPT ![t].total = @ + 1]
    /\ span' = [span EXCEPT ![s] = NewSpan(p, "constructing", tx[t].total + 1)]
    /\ call' = [call EXCEPT ![f] = [at |-> "span", of |-> s]]
    /\ UNCHANGED currentSpan

(* The constructor of Span: spans of a transaction that is not sampled are *)
(* not counted.                                                            *)
ConstructSpan(f, s, p) ==
    LET t == EnclosingTransaction(p)
    IN  \/ tx[t].isSampled /\ IncrementTotal(f, s, p, t)
        \/ /\ ~tx[t].isSampled
           /\ span' = [span EXCEPT ![s] = NewSpan(p, "real", 0)]
           /\ currentSpan' = [currentSpan EXCEPT ![f] = s]
           /\ UNCHANGED <<tx, call>>

(* StartSpan of the four kinds of segments; CaptureSpan and                *)
(* StartSpanOnCurrentExecutionSegment come to StartSpanInternal without    *)
(* looking at the snapshot.                                                *)
StartSpan(f, s, p, internal) ==
    /\ call[f] = Idle /\ span[s].kind = "none"
    /\ \/ Kind(p) = "noop" /\ NewNoopSpan(f, s, IF p \in Spans THEN p ELSE None)
       \/ /\ Kind(p) = "real" /\ ~internal /\ ~tx[EnclosingTransaction(p)].config.recording
          /\ NewNoopSpan(f, s, None)
       \/ /\ Kind(p) = "real" /\ (internal \/ tx[EnclosingTransaction(p)].config.recording)
          /\ ConstructSpan(f, s, p)
    /\ UNCHANGED <<config, currentTransaction, queued, references, senderDisposed>>

LimitOpenSpans(s, t) ==          \* mutant: the limit is on the spans that are open
    /\ tx[t].config.maxSpans >= 0
    /\ Cardinality({o \in Spans : span[o].transaction = t /\ ~span[o].ended}) > tx[t].config.maxSpans

OverLimit(s, t) == tx[t].config.maxSpans >= 0 /\ span[s].number > tx[t].config.maxSpans

CountBoth(s, t) ==               \* mutant: a dropped span is counted as started too
    \/ /\ OverLimit(s, t)
       /\ span' = [span EXCEPT ![s].kind = "real", ![s].isDropped = TRUE]
       /\ tx' = [tx EXCEPT ![t].dropped = @ + 1, ![t].started = @ + 1]
    \/ /\ ~OverLimit(s, t)
       /\ span' = [span EXCEPT ![s].kind = "real"]
       /\ tx' = [tx EXCEPT ![t].started = @ + 1]

(* IncrementDropped or IncrementStarted. *)
Count(s, t) ==
    \/ /\ OverLimit(s, t)
       /\ span' = [span EXCEPT ![s].kind = "real", ![s].isDropped = TRUE]
       /\ tx' = [tx EXCEPT ![t].dropped = @ + 1]
    \/ /\ ~OverLimit(s, t)
       /\ span' = [span EXCEPT ![s].kind = "real"]
       /\ tx' = [tx EXCEPT ![t].started = @ + 1]

(* The rest of the constructor, and the caller holds the span. *)
CountSpan(f) ==
    /\ call[f].at = "span"
    /\ LET s == call[f].of
       IN  Count(s, span[s].transaction) /\ currentSpan' = [currentSpan EXCEPT ![f] = s]
    /\ call' = [call EXCEPT ![f] = Idle]
    /\ UNCHANGED <<config, currentTransaction, queued, references, senderDisposed>>

EndRepeats(f, s) == ~senderDisposed     \* mutant of QueuesOnEnd: no isFirstEndCall

QueuesOnEnd(f, s) == ~senderDisposed /\ ~Ended(s)

RestoreRoot(f, s) ==             \* mutant: End goes back to the root
    currentSpan' = [currentSpan EXCEPT ![f] = None]

RestoreParent(f, s) == currentSpan' = [currentSpan EXCEPT ![f] = span[s].parentSpan]

(* Span.End.  QueueSpan throws when the sender is disposed, before         *)
(* CurrentSpan is put back; a second call does nothing.                    *)
EndSpan(f, s) ==
    /\ call[f] = Idle /\ span[s].kind = "real"
    /\ span' = [span EXCEPT ![s].ended = TRUE]
    /\ queued' = IF ShouldBeSentToApmServer(s) /\ QueuesOnEnd(f, s)
                 THEN [queued EXCEPT ![s] = @ + 1] ELSE queued
    /\ IF Ended(s) \/ (ShouldBeSentToApmServer(s) /\ senderDisposed)
       THEN UNCHANGED currentSpan
       ELSE RestoreParent(f, s)
    /\ UNCHANGED <<config, tx, currentTransaction, call, references, senderDisposed>>

(* NoopSpan.End, the first time or again. *)
EndNoopSpan(f, s) ==
    /\ call[f] = Idle /\ span[s].kind = "noop"
    /\ span' = [span EXCEPT ![s].ended = TRUE]
    /\ RestoreParent(f, s)
    /\ UNCHANGED <<config, tx, currentTransaction, call, queued, references, senderDisposed>>

(* Transaction.End and NoopTransaction.End; neither touches CurrentSpan. *)
EndTransaction(f, t) ==
    /\ call[f] = Idle /\ tx[t].kind \in {"real", "noop"}
    /\ tx' = [tx EXCEPT ![t].ended = TRUE]
    /\ queued' = IF tx[t].kind = "real" /\ QueuesOnEnd(f, t)
                 THEN [queued EXCEPT ![t] = @ + 1] ELSE queued
    /\ IF tx[t].kind = "real" /\ (Ended(t) \/ senderDisposed)
       THEN UNCHANGED currentTransaction
       ELSE currentTransaction' = [currentTransaction EXCEPT ![f] = None]
    /\ UNCHANGED <<config, span, currentSpan, call, references, senderDisposed>>

-----------------------------------------------------------------------------
ReferenceItself(s) == s          \* mutant: the id of a span nobody will send

(* The id an error or an outgoing header names. *)
ReferenceId(s) ==
    IF s \in Spans /\ ~ShouldBeSentToApmServer(s) THEN span[s].transaction ELSE s

(* CaptureError, CaptureException, OutgoingDistributedTracingData.  For a  *)
(* Noop segment they do nothing and return null.                           *)
Refer(f, s) ==
    /\ call[f] = Idle /\ Kind(s) = "real"
    /\ references' = references \cup {ReferenceId(s)}
    /\ UNCHANGED <<config, tx, span, currentTransaction, currentSpan, call, queued,
                   senderDisposed>>

(* Work is handed to another flow, which starts from copies. *)
Fork(f, g) ==
    /\ f # g /\ call[f] = Idle /\ call[g] = Idle
    /\ currentTransaction' = [currentTransaction EXCEPT ![g] = currentTransaction[f]]
    /\ currentSpan' = [currentSpan EXCEPT ![g] = currentSpan[f]]
    /\ UNCHANGED <<config, tx, span, call, queued, references, senderDisposed>>

(* Central configuration delivers another snapshot. *)
ChangeConfig ==
    /\ config' \in Snapshots \ {config}
    /\ UNCHANGED <<tx, span, currentTransaction, currentSpan, call, queued, references,
                   senderDisposed>>

DisposeSender ==
    /\ ~senderDisposed /\ senderDisposed' = TRUE
    /\ UNCHANGED <<config, tx, span, currentTransaction, currentSpan, call, queued, references>>

(* A flow uses the segments it has got hold of; automatic instrumentation  *)
(* uses the current one, whatever state that is in.                        *)
Usable(f, p) == (p = Current(f) /\ p # None) \/ (p \in Segments /\ ~Ended(p))

FlowStep(f) ==
    \/ \E t \in Transactions : StartTransaction(f, t) \/ EndTransaction(f, t)
    \/ StartTransactionInternal(f) \/ CountSpan(f)
    \/ \E s \in Spans, p \in Segments, internal \in BOOLEAN :
          Usable(f, p) /\ StartSpan(f, s, p, internal)
    \/ \E s \in Spans : EndSpan(f, s) \/ EndNoopSpan(f, s)
    \/ \E s \in Segments : Refer(f, s)

Next ==
    \/ \E f \in Flows : FlowStep(f) \/ \E g \in Flows : Fork(f, g)
    \/ ChangeConfig \/ DisposeSender

Spec == Init /\ [][Next]_vars

-----------------------------------------------------------------------------
Constructing(t) == {s \in Spans : span[s].kind = "constructing" /\ span[s].transaction = t}

(* SpanCount: at most TransactionMaxSpans spans are recorded, however the  *)
(* flows of a transaction interleave, and a span is dropped only when the  *)
(* limit is given out in full.                                             *)
SpanLimit ==
    \A t \in Transactions :
       LET max == tx[t].config.maxSpans
       IN  /\ max >= 0 => tx[t].started <= max
           /\ tx[t].dropped > 0 =>
                 max >= 0 /\ tx[t].started + Cardinality({s \in Constructing(t) : span[s].number <= max}) = max

(* The span_count a transaction reports is what the server gets: once all  *)
(* its spans have ended, as many were queued as were counted as started.   *)
ReportMatchesSpanCount ==
    \A t \in Transactions :
       (~senderDisposed /\ \A s \in Spans : span[s].transaction = t => span[s].ended)
          => Cardinality({s \in Spans : span[s].transaction = t /\ queued[s] > 0}) = tx[t].started

(* End: a segment is reported at most once, and only when it ended. *)
QueuedOnce ==
    \A s \in Segments : queued[s] <= 1 /\ (queued[s] = 1 => Kind(s) = "real" /\ Ended(s))

(* The parent_id of a span that is sent is its transaction or a span of    *)
(* the same transaction that is not dropped: no orphans, although children *)
(* start on any flow, before and after their parent ended.                 *)
NoOrphans ==
    \A s \in Spans : queued[s] > 0 =>
       \/ span[s].parent = span[s].transaction
       \/ /\ span[s].parent \in Spans
          /\ span[span[s].parent].transaction = span[s].transaction
          /\ ShouldBeSentToApmServer(span[s].parent)

(* Errors and outgoing headers name a transaction or a span that is sent,  *)
(* when it ends.                                                           *)
ReferencedIsSent ==
    \A s \in references : s \in Transactions \/ ShouldBeSentToApmServer(s)

=============================================================================
