---------------------- MODULE ExecutionSegmentsProofs ----------------------
(***************************************************************************)
(* Proofs about ExecutionSegments, for any flows, transactions, spans and  *)
(* limits.  The counters are not enough to say that nobody is orphaned:    *)
(* the invariant keeps the number each span got from IncrementTotal, which *)
(* grows from parent to child, so that what follows a dropped span is      *)
(* dropped too.                                                            *)
(***************************************************************************)
EXTENDS ExecutionSegments, FiniteSetTheorems, TLAPS

USE SegmentConstants

Born == {"constructing", "real"}

CallInv ==
    /\ \A f \in Flows :
          /\ call[f].at = "idle" => call[f].of = None
          /\ call[f].at = "span" => call[f].of \in Spans /\ span[call[f].of].kind = "constructing"
          /\ call[f].at = "transaction" =>
                call[f].of \in Transactions /\ tx[call[f].of].kind = "constructing"
    /\ \A f, g \in Flows : call[f].of = call[g].of /\ call[f].of # None => f = g

TransactionInv ==
    \A t \in Transactions :
       /\ tx[t].kind # "real" => tx[t].total = 0 /\ tx[t].started = 0 /\ tx[t].dropped = 0
       /\ queued[t] > 0 => queued[t] = 1 /\ tx[t].kind = "real" /\ tx[t].ended

(* Where a span belongs, and how its number compares with its parent's. *)
FamilyInv ==
    \A s \in Spans :
       IF span[s].kind \in Born
       THEN LET t == span[s].transaction
                p == span[s].parent
            IN  /\ t \in Transactions /\ tx[t].kind = "real"
                /\ tx[t].isSampled => span[s].number <= tx[t].total
                /\ \/ p = t
                   \/ /\ p \in Spans /\ span[p].kind = "real" /\ span[p].transaction = t
                      /\ tx[t].isSampled => span[p].number < span[s].number
       ELSE span[s].transaction = None

Dropped(s) == OverLimit(s, span[s].transaction)

DropInv ==
    \A s \in Spans :
       /\ span[s].kind = "constructing" =>
             tx[span[s].transaction].isSampled /\ ~span[s].ended /\ ~span[s].isDropped
       /\ span[s].kind = "real" /\ tx[span[s].transaction].isSampled =>
             (span[s].isDropped <=> Dropped(s))

QueueInv ==
    \A s \in Spans :
       /\ queued[s] > 0 => /\ queued[s] = 1 /\ span[s].kind = "real" /\ span[s].ended
                           /\ ShouldBeSentToApmServer(s)
       /\ (/\ ~senderDisposed /\ span[s].kind = "real" /\ span[s].ended
           /\ ShouldBeSentToApmServer(s)) => queued[s] > 0

ReferenceInv ==
    \A s \in references :
       s \in Transactions \/ (s \in Spans /\ span[s].kind = "real" /\ ShouldBeSentToApmServer(s))

SegmentInv ==
    SegmentsTypeOK /\ CallInv /\ TransactionInv /\ FamilyInv /\ DropInv /\ QueueInv /\ ReferenceInv

-----------------------------------------------------------------------------
LEMMA SegmentsInitial == Init => SegmentInv
<1> SUFFICES ASSUME Init PROVE SegmentInv
  OBVIOUS
<1>1. SegmentsTypeOK
  BY DEF Init, NoSpan, SegmentsTypeOK, TransactionObjects, SpanObjects, Snapshots, Kinds, Calls, Idle, Segments
<1>2. CallInv
  BY DEF Init, CallInv, Idle
<1>3. TransactionInv /\ FamilyInv /\ DropInv /\ QueueInv /\ ReferenceInv
  BY DEF Init, NoSpan, TransactionInv, FamilyInv, DropInv, QueueInv, ReferenceInv, Segments, Born
<1> QED
  BY <1>1, <1>2, <1>3 DEF SegmentInv

LEMMA CallTypes ==
    ASSUME SegmentsTypeOK
    PROVE  \A f \in Flows : /\ call[f].at \in {"idle", "transaction", "span"}
                             /\ call[f].of \in Segments \cup {None}
BY DEF SegmentsTypeOK, Calls

LEMMA CallIsTyped == \A s \in Segments : /\ [at |-> "transaction", of |-> s] \in Calls
                                          /\ [at |-> "span", of |-> s] \in Calls
                                          /\ Idle \in Calls
BY DEF Calls, Idle

LEMMA CallsAreTyped ==
    ASSUME call \in [Flows -> Calls], NEW f, NEW c \in Calls,
           call' = [call EXCEPT ![f] = c] \/ call' = call
    PROVE  call' \in [Flows -> Calls]
OBVIOUS

(* The steps that leave the segments alone. *)
LEMMA OtherStepKeeps ==
    ASSUME SegmentInv,
           \/ \E f, g \in Flows : Fork(f, g)
           \/ ChangeConfig \/ DisposeSender \/ UNCHANGED vars
    PROVE  SegmentInv'
<1> USE DEF SegmentInv
<1>0. UNCHANGED <<tx, span, call, queued, references>>
  BY DEF Fork, ChangeConfig, DisposeSender, vars
<1>1. SegmentsTypeOK'
  BY DEF Fork, ChangeConfig, DisposeSender, vars, SegmentsTypeOK, TransactionObjects, SpanObjects
<1>2. senderDisposed' \/ senderDisposed' = senderDisposed
  BY DEF Fork, ChangeConfig, DisposeSender, vars
<1>3. CallInv' /\ TransactionInv' /\ FamilyInv'
  BY <1>0 DEF CallInv, TransactionInv, FamilyInv
<1>4. DropInv' /\ ReferenceInv'
  BY <1>0 DEF DropInv, Dropped, OverLimit, ReferenceInv, ShouldBeSentToApmServer
<1>5. QueueInv'
  BY <1>0, <1>2 DEF QueueInv, ShouldBeSentToApmServer, SegmentsTypeOK, TransactionObjects, SpanObjects
<1> QED
  BY <1>1, <1>3, <1>4, <1>5

LEMMA ReferKeeps ==
    ASSUME SegmentInv, NEW f \in Flows, NEW s \in Segments, Refer(f, s)
    PROVE  SegmentInv'
<1> USE DEF SegmentInv
<1>0. UNCHANGED <<config, tx, span, currentTransaction, currentSpan, call, queued, senderDisposed>>
  BY DEF Refer
<1>1. ReferenceId(s) \in Segments
  BY DEF Refer, ReferenceId, Segments, FamilyInv, Kind, Born
<1>2. SegmentsTypeOK'
  BY <1>0, <1>1 DEF Refer, SegmentsTypeOK, TransactionObjects, SpanObjects
<1>3. CallInv' /\ TransactionInv' /\ FamilyInv'
  BY <1>0 DEF CallInv, TransactionInv, FamilyInv
<1>4. DropInv' /\ QueueInv'
  BY <1>0 DEF DropInv, Dropped, OverLimit, QueueInv, ShouldBeSentToApmServer
<1>5. ReferenceInv'
  BY <1>0 DEF Refer, ReferenceInv, ReferenceId, ShouldBeSentToApmServer, Segments, Kind, FamilyInv, Born
<1> QED
  BY <1>2, <1>3, <1>4, <1>5

LEMMA StartTransactionKeeps ==
    ASSUME SegmentInv, NEW f \in Flows, NEW t \in Transactions, StartTransaction(f, t)
    PROVE  SegmentInv'
<1> USE DEF SegmentInv
<1>0. UNCHANGED <<config, span, currentSpan, queued, references, senderDisposed>>
  BY DEF StartTransaction
<1>a. /\ \/ call' = [call EXCEPT ![f] = [at |-> "transaction", of |-> t]] /\ tx'[t].kind = "constructing"
         \/ call' = call
      /\ call[f] = Idle
      /\ tx' = [tx EXCEPT ![t].kind = "constructing"] \/ tx' = [tx EXCEPT ![t].kind = "noop"]
      /\ currentTransaction' = currentTransaction \/ currentTransaction' = [currentTransaction EXCEPT ![f] = t]
  BY DEF StartTransaction, SegmentsTypeOK, TransactionObjects, SpanObjects
<1>b. call' \in [Flows -> Calls] /\ currentTransaction' \in [Flows -> Transactions \cup {None}]
  <2>1. [at |-> "transaction", of |-> t] \in Calls
    BY CallIsTyped DEF Segments
  <2> QED
    BY <1>a, <2>1, CallsAreTyped DEF SegmentsTypeOK, TransactionObjects, SpanObjects
<1>1. SegmentsTypeOK'
  BY <1>0, <1>a, <1>b DEF SegmentsTypeOK, TransactionObjects, SpanObjects, Kinds
<1>2. /\ \A u \in Transactions \ {t} : tx'[u] = tx[u]
      /\ tx[t].kind = "none" /\ tx'[t].kind \in {"constructing", "noop"}
      /\ \A u \in Transactions : /\ tx'[u].config = tx[u].config /\ tx'[u].isSampled = tx[u].isSampled
                                 /\ tx'[u].total = tx[u].total /\ tx'[u].started = tx[u].started
                                 /\ tx'[u].dropped = tx[u].dropped /\ tx'[u].ended = tx[u].ended
  BY DEF StartTransaction, SegmentsTypeOK, TransactionObjects, SpanObjects
<1>3. CallInv'
  <2>1. CASE call' = call
    BY <1>0, <1>2, <2>1 DEF CallInv
  <2>2. CASE call' # call
    <3>1. /\ call'[f] = [at |-> "transaction", of |-> t] /\ tx'[t].kind = "constructing"
          /\ \A g \in Flows \ {f} : call'[g] = call[g]
      BY <1>a, <2>2 DEF SegmentsTypeOK, TransactionObjects, SpanObjects
    <3>2. \A g \in Flows : call[g].of # t
      <4>1. \A g \in Flows : call[g].at = "idle" => call[g].of # t
        BY DEF CallInv, Segments
      <4>2. \A g \in Flows : call[g].at = "span" => call[g].of # t
        BY DEF CallInv
      <4>3. \A g \in Flows : call[g].at = "transaction" => call[g].of # t
        BY <1>2 DEF CallInv
      <4> QED
        BY <4>1, <4>2, <4>3, CallTypes
    <3> QED
      BY <1>0, <1>2, <3>1, <3>2 DEF CallInv
  <2> QED
    BY <2>1, <2>2
<1>4. TransactionInv' /\ FamilyInv'
  BY <1>0, <1>2 DEF TransactionInv, FamilyInv
<1>5. DropInv' /\ QueueInv' /\ ReferenceInv'
  BY <1>0, <1>2 DEF DropInv, Dropped, OverLimit, QueueInv, ReferenceInv, ShouldBeSentToApmServer, FamilyInv, Born
<1> QED
  BY <1>1, <1>3, <1>4, <1>5

LEMMA StartTransactionInternalKeeps ==
    ASSUME SegmentInv, NEW f \in Flows, StartTransactionInternal(f)
    PROVE  SegmentInv'
<1> USE DEF SegmentInv
<1> DEFINE t == call[f].of
<1>0. /\ UNCHANGED <<config, span, currentSpan, queued, references, senderDisposed>>
      /\ t \in Transactions /\ tx[t].kind = "constructing"
  BY DEF StartTransactionInternal, CallInv
<1>1. SegmentsTypeOK'
  BY <1>0 DEF StartTransactionInternal, SegmentsTypeOK, TransactionObjects, SpanObjects, Kinds, Calls, Segments, Idle
<1>2. /\ \A u \in Transactions \ {t} : tx'[u] = tx[u]
      /\ tx'[t].kind = "real" /\ tx'[t].total = tx[t].total /\ tx'[t].ended = tx[t].ended
      /\ tx'[t].started = tx[t].started /\ tx'[t].dropped = tx[t].dropped
  BY <1>0 DEF StartTransactionInternal, SegmentsTypeOK, TransactionObjects, SpanObjects
<1>a. call'[f] = Idle /\ \A g \in Flows \ {f} : call'[g] = call[g]
  BY DEF StartTransactionInternal, SegmentsTypeOK, TransactionObjects, SpanObjects
<1>b. \A g \in Flows \ {f} : call[g].of # t
  BY <1>0 DEF CallInv, Segments
<1>3. CallInv'
  BY <1>0, <1>2, <1>a, <1>b DEF CallInv, Idle
<1>4. TransactionInv' /\ FamilyInv'
  BY <1>0, <1>2 DEF TransactionInv, FamilyInv
<1>5. DropInv' /\ QueueInv' /\ ReferenceInv'
  BY <1>0, <1>2 DEF DropInv, Dropped, OverLimit, QueueInv, ReferenceInv, ShouldBeSentToApmServer, FamilyInv, Born
<1> QED
  BY <1>1, <1>3, <1>4, <1>5

-----------------------------------------------------------------------------
LEMMA NewSpanType ==
    ASSUME SegmentInv, NEW p \in Segments, Kind(p) = "real"
    PROVE  /\ EnclosingTransaction(p) \in Transactions
           /\ tx[EnclosingTransaction(p)].kind = "real"
           /\ p = EnclosingTransaction(p)
              \/ (p \in Spans /\ span[p].kind = "real" /\ span[p].transaction = EnclosingTransaction(p))
           /\ \A k \in Kinds, n \in Nat : NewSpan(p, k, n) \in SpanObjects
BY DEF SpanObjects, SegmentInv, FamilyInv, EnclosingTransaction, Kind, NewSpan, Segments, Kinds, Born

LEMMA NewNoopSpanKeeps ==
    ASSUME SegmentInv, NEW f \in Flows, NEW s \in Spans, NEW p \in Spans \cup {None},
           NewNoopSpan(f, s, p), span[s].kind = "none",
           UNCHANGED <<config, currentTransaction, queued, references, senderDisposed>>
    PROVE  SegmentInv'
<1> USE DEF SegmentInv
<1>0. UNCHANGED <<tx, call>>
  BY DEF NewNoopSpan
<1>1. /\ \A u \in Spans \ {s} : span'[u] = span[u]
      /\ span'[s].kind = "noop" /\ span'[s].transaction = None
  BY DEF NewNoopSpan, NoSpan, SegmentsTypeOK
<1>a. [NoSpan EXCEPT !.kind = "noop", !.parentSpan = p] \in SpanObjects
  BY DEF NoSpan, SpanObjects, Kinds
<1>2. SegmentsTypeOK'
  BY <1>0, <1>a DEF NewNoopSpan, SegmentsTypeOK
<1>b. queued[s] = 0
  BY DEF QueueInv, SegmentsTypeOK, Segments
<1>3. CallInv' /\ TransactionInv'
  BY <1>0, <1>1 DEF CallInv, TransactionInv
<1>4. FamilyInv'
  BY <1>0, <1>1 DEF FamilyInv, Born
<1>5. DropInv' /\ QueueInv' /\ ReferenceInv'
  BY <1>0, <1>1, <1>b DEF DropInv, Dropped, OverLimit, QueueInv, ReferenceInv, ShouldBeSentToApmServer, FamilyInv, Born
<1> QED
  BY <1>2, <1>3, <1>4, <1>5

(* A span of a transaction that is not sampled. *)
LEMMA UnsampledSpanKeeps ==
    ASSUME SegmentInv, NEW f \in Flows, NEW s \in Spans, NEW p \in Segments,
           Kind(p) = "real", ~tx[EnclosingTransaction(p)].isSampled, span[s].kind = "none",
           span' = [span EXCEPT ![s] = NewSpan(p, "real", 0)],
           currentSpan' = [currentSpan EXCEPT ![f] = s],
           UNCHANGED <<config, tx, call, currentTransaction, queued, references, senderDisposed>>
    PROVE  SegmentInv'
<1> USE DEF SegmentInv
<1>1. \A u \in Spans \ {s} : span'[u] = span[u]
  BY DEF SegmentsTypeOK, TransactionObjects, SpanObjects
<1>2. /\ span'[s].kind = "real" /\ span'[s].transaction = EnclosingTransaction(p)
      /\ span'[s].parent = p /\ span'[s].number = 0
      /\ ~span'[s].isDropped /\ ~span'[s].ended
  BY DEF SegmentsTypeOK, TransactionObjects, SpanObjects, NewSpan
<1>3. SegmentsTypeOK'
  <2>1. NewSpan(p, "real", 0) \in SpanObjects
    BY NewSpanType DEF Kinds
  <2> QED
    BY <2>1 DEF SegmentsTypeOK
<1>4. CallInv' /\ TransactionInv'
  BY <1>1, <1>2 DEF CallInv, TransactionInv
<1>5. FamilyInv'
  <2>1. p # s
    BY DEF Kind
  <2> QED
    BY <1>1, <1>2, <2>1, NewSpanType DEF FamilyInv, Born
<1>6. queued[s] = 0
  BY DEF QueueInv, SegmentsTypeOK, TransactionObjects, SpanObjects, Segments
<1>7. DropInv' /\ QueueInv' /\ ReferenceInv'
  BY <1>1, <1>2, <1>6, NewSpanType
     DEF DropInv, Dropped, OverLimit, QueueInv, ReferenceInv, ShouldBeSentToApmServer, FamilyInv, Born
<1> QED
  BY <1>3, <1>4, <1>5, <1>7

LEMMA IncrementTotalKeeps ==
    ASSUME SegmentInv, NEW f \in Flows, NEW s \in Spans, NEW p \in Segments,
           Kind(p) = "real", tx[EnclosingTransaction(p)].isSampled, span[s].kind = "none",
           call[f] = Idle, IncrementTotal(f, s, p, EnclosingTransaction(p)),
           UNCHANGED <<config, currentTransaction, queued, references, senderDisposed>>
    PROVE  SegmentInv'
<1> USE DEF SegmentInv
<1> DEFINE t == EnclosingTransaction(p)
<1>0. UNCHANGED currentSpan /\ t \in Transactions /\ tx[t].kind = "real" /\ tx[t].total \in Nat
  BY NewSpanType DEF IncrementTotal, SegmentsTypeOK, TransactionObjects, SpanObjects
<1>1. \A u \in Spans \ {s} : span'[u] = span[u]
  BY DEF IncrementTotal, SegmentsTypeOK, TransactionObjects, SpanObjects
<1>2. /\ span'[s].kind = "constructing" /\ span'[s].transaction = t
      /\ span'[s].parent = p /\ span'[s].number = tx[t].total + 1
      /\ ~span'[s].isDropped /\ ~span'[s].ended
  BY DEF SegmentsTypeOK, TransactionObjects, SpanObjects, NewSpan, IncrementTotal
<1>3. /\ \A u \in Transactions \ {t} : tx'[u] = tx[u]
      /\ tx'[t].total = tx[t].total + 1
      /\ tx'[t].kind = tx[t].kind /\ tx'[t].config = tx[t].config
      /\ tx'[t].isSampled = tx[t].isSampled /\ tx'[t].ended = tx[t].ended
      /\ tx'[t].started = tx[t].started /\ tx'[t].dropped = tx[t].dropped
  BY <1>0 DEF IncrementTotal, SegmentsTypeOK, TransactionObjects, SpanObjects
<1>4. /\ call'[f] = [at |-> "span", of |-> s]
      /\ \A g \in Flows \ {f} : call'[g] = call[g]
      /\ \A g \in Flows : call[g].of # s
  <2>1. \A g \in Flows : call[g].at = "idle" => call[g].of # s
    BY DEF CallInv, Segments
  <2>2. \A g \in Flows : call[g].at = "span" => call[g].of # s
    BY DEF CallInv
  <2>3. \A g \in Flows : call[g].at = "transaction" => call[g].of # s
    BY DEF CallInv
  <2> QED
    BY <2>1, <2>2, <2>3, CallTypes DEF IncrementTotal, SegmentsTypeOK, TransactionObjects, SpanObjects
<1>5. SegmentsTypeOK'
  <2>1. call' \in [Flows -> Calls]
    BY CallIsTyped, CallsAreTyped DEF SegmentsTypeOK, TransactionObjects, SpanObjects, IncrementTotal, Segments
  <2>2. tx' \in [Transactions -> TransactionObjects]
    BY <1>0 DEF SegmentsTypeOK, TransactionObjects, SpanObjects, IncrementTotal
  <2>3. NewSpan(p, "constructing", tx[t].total + 1) \in SpanObjects
    BY <1>0, NewSpanType DEF Kinds
  <2> QED
    BY <1>0, <2>1, <2>2, <2>3 DEF SegmentsTypeOK, TransactionObjects, SpanObjects, IncrementTotal
<1>6. CallInv'
  BY <1>1, <1>2, <1>3, <1>4 DEF CallInv
<1>7. TransactionInv'
  BY <1>0, <1>3 DEF TransactionInv
<1>8. FamilyInv'
  <2>1. p # s
    BY DEF Kind
  <2>2. p \in Spans => span[p].number \in Nat /\ span[p].number <= tx[t].total
    <3> SUFFICES ASSUME p \in Spans PROVE span[p].number \in Nat /\ span[p].number <= tx[t].total
      OBVIOUS
    <3>1. span[p].kind = "real" /\ span[p].transaction = t
      BY <1>0, NewSpanType
    <3>2. span[p].number <= tx[t].total
      BY <3>1 DEF FamilyInv, Born
    <3> QED
      BY <3>2 DEF SegmentsTypeOK, SpanObjects
  <2>3. p = t \/ (p \in Spans /\ span'[p].kind = "real" /\ span'[p].transaction = t
                 /\ span'[p].number < span'[s].number)
    BY <1>0, <1>1, <1>2, <2>1, <2>2, NewSpanType
  <2>4. \A u \in Spans : span[u].number \in Nat
    BY DEF SegmentsTypeOK, TransactionObjects, SpanObjects
  <2>5. \A u \in Transactions : tx[u].total <= tx'[u].total /\ tx[u].total \in Nat
                              /\ tx'[u].total \in Nat
    BY <1>0, <1>3 DEF SegmentsTypeOK, TransactionObjects, SpanObjects
  <2> QED
    BY <1>0, <1>1, <1>2, <1>3, <2>3, <2>4, <2>5 DEF FamilyInv, Born
<1>9. queued[s] = 0
  BY DEF QueueInv, SegmentsTypeOK, TransactionObjects, SpanObjects, Segments
<1>10. \A u \in Transactions : tx'[u].config = tx[u].config /\ tx'[u].isSampled = tx[u].isSampled
  BY <1>3
<1>11. \A u \in Spans \ {s} : span[u].kind \in Born =>
          /\ ShouldBeSentToApmServer(u)' = ShouldBeSentToApmServer(u)
          /\ Dropped(u)' = Dropped(u)
          /\ tx'[span[u].transaction].isSampled = tx[span[u].transaction].isSampled
  BY <1>1, <1>10 DEF ShouldBeSentToApmServer, Dropped, OverLimit, FamilyInv
<1>12. DropInv'
  BY <1>0, <1>1, <1>2, <1>10, <1>11 DEF DropInv, Born
<1>13. QueueInv'
  BY <1>1, <1>2, <1>9, <1>11 DEF QueueInv, Born
<1>14. ReferenceInv'
  BY <1>1, <1>2, <1>11 DEF ReferenceInv, Born
<1> QED
  BY <1>5, <1>6, <1>7, <1>8, <1>12, <1>13, <1>14

LEMMA StartSpanKeeps ==
    ASSUME SegmentInv, NEW f \in Flows, NEW s \in Spans, NEW p \in Segments,
           NEW internal \in BOOLEAN, StartSpan(f, s, p, internal)
    PROVE  SegmentInv'
<1>0. /\ call[f] = Idle /\ span[s].kind = "none"
      /\ UNCHANGED <<config, currentTransaction, queued, references, senderDisposed>>
  BY DEF StartSpan
<1>1. CASE \E q \in Spans \cup {None} : NewNoopSpan(f, s, q)
  BY <1>0, <1>1, NewNoopSpanKeeps
<1>2. CASE Kind(p) = "real" /\ ConstructSpan(f, s, p)
  <2>1. CASE tx[EnclosingTransaction(p)].isSampled
    BY <1>0, <1>2, <2>1, IncrementTotalKeeps DEF ConstructSpan
  <2>2. CASE ~tx[EnclosingTransaction(p)].isSampled
    BY <1>0, <1>2, <2>2, UnsampledSpanKeeps DEF ConstructSpan
  <2> QED
    BY <2>1, <2>2
<1> QED
  BY <1>1, <1>2 DEF StartSpan

(* What the assignments to one object do to the table of objects. *)
LEMMA CountedSpan ==
    ASSUME span \in [Spans -> SpanObjects], NEW s \in Spans, NEW drop \in BOOLEAN,
           span' = [span EXCEPT ![s].kind = "real", ![s].isDropped = drop]
    PROVE  /\ span' \in [Spans -> SpanObjects]
           /\ \A u \in Spans \ {s} : span'[u] = span[u]
           /\ span'[s].kind = "real" /\ span'[s].transaction = span[s].transaction
           /\ span'[s].parent = span[s].parent /\ span'[s].number = span[s].number
           /\ span'[s].isDropped = drop /\ span'[s].ended = span[s].ended
BY DEF SpanObjects, Kinds

LEMMA StartedSpan ==
    ASSUME span \in [Spans -> SpanObjects], NEW s \in Spans,
           span' = [span EXCEPT ![s].kind = "real"]
    PROVE  /\ span' \in [Spans -> SpanObjects]
           /\ \A u \in Spans \ {s} : span'[u] = span[u]
           /\ span'[s].kind = "real" /\ span'[s].transaction = span[s].transaction
           /\ span'[s].parent = span[s].parent /\ span'[s].number = span[s].number
           /\ span'[s].isDropped = span[s].isDropped /\ span'[s].ended = span[s].ended
BY DEF SpanObjects, Kinds

LEMMA EndedSpan ==
    ASSUME span \in [Spans -> SpanObjects], NEW s \in Spans,
           span' = [span EXCEPT ![s].ended = TRUE]
    PROVE  /\ span' \in [Spans -> SpanObjects]
           /\ \A u \in Spans \ {s} : span'[u] = span[u]
           /\ span'[s].kind = span[s].kind /\ span'[s].transaction = span[s].transaction
           /\ span'[s].parent = span[s].parent /\ span'[s].number = span[s].number
           /\ span'[s].isDropped = span[s].isDropped /\ span'[s].ended
BY DEF SpanObjects

LEMMA EndedTransaction ==
    ASSUME tx \in [Transactions -> TransactionObjects], NEW t \in Transactions,
           tx' = [tx EXCEPT ![t].ended = TRUE]
    PROVE  /\ tx' \in [Transactions -> TransactionObjects]
           /\ \A u \in Transactions :
                 /\ tx'[u].kind = tx[u].kind /\ tx'[u].config = tx[u].config
                 /\ tx'[u].isSampled = tx[u].isSampled /\ tx'[u].total = tx[u].total
                 /\ tx'[u].started = tx[u].started /\ tx'[u].dropped = tx[u].dropped
                 /\ u # t => tx'[u].ended = tx[u].ended
           /\ tx'[t].ended
BY DEF TransactionObjects

LEMMA CountedTransaction ==
    ASSUME tx \in [Transactions -> TransactionObjects], NEW t \in Transactions,
           \/ tx' = [tx EXCEPT ![t].dropped = @ + 1]
           \/ tx' = [tx EXCEPT ![t].started = @ + 1]
    PROVE  /\ tx' \in [Transactions -> TransactionObjects]
           /\ \A u \in Transactions :
                 /\ tx'[u].kind = tx[u].kind /\ tx'[u].config = tx[u].config
                 /\ tx'[u].isSampled = tx[u].isSampled /\ tx'[u].total = tx[u].total
                 /\ tx'[u].ended = tx[u].ended /\ (u # t => tx'[u] = tx[u])
BY DEF TransactionObjects

LEMMA CountSpanKeeps ==
    ASSUME SegmentInv, NEW f \in Flows, CountSpan(f)
    PROVE  SegmentInv'
<1> USE DEF SegmentInv
<1>p. PICK s \in Spans : s = call[f].of
  BY DEF CountSpan, CallInv
<1>q. PICK t : t = span[s].transaction
  OBVIOUS
<1>0. /\ UNCHANGED <<config, currentTransaction, queued, references, senderDisposed>>
      /\ s \in Spans /\ span[s].kind = "constructing" /\ s # None
      /\ t \in Transactions /\ tx[t].kind = "real" /\ tx[t].isSampled
  <2>1. s \in Spans /\ span[s].kind = "constructing"
    BY <1>p DEF CountSpan, CallInv
  <2> QED
    BY <1>q, <2>1 DEF CountSpan, FamilyInv, DropInv, Born, Segments
<1>a. Count(s, t)
  BY <1>p, <1>q DEF CountSpan
<1>b. span \in [Spans -> SpanObjects] /\ tx \in [Transactions -> TransactionObjects]
  BY DEF SegmentsTypeOK
<1>c. ~span[s].isDropped
  BY <1>p, <1>q, <1>0 DEF DropInv
<1>1. /\ span' \in [Spans -> SpanObjects]
      /\ \A u \in Spans \ {s} : span'[u] = span[u]
      /\ span'[s].kind = "real" /\ span'[s].transaction = t
      /\ span'[s].parent = span[s].parent /\ span'[s].number = span[s].number
      /\ span'[s].isDropped <=> Dropped(s)
      /\ span'[s].ended = span[s].ended
  <2>1. CASE OverLimit(s, t) /\ span' = [span EXCEPT ![s].kind = "real", ![s].isDropped = TRUE]
    BY <1>p, <1>q, <1>0, <1>b, <2>1, CountedSpan DEF Dropped
  <2>2. CASE ~OverLimit(s, t) /\ span' = [span EXCEPT ![s].kind = "real"]
    BY <1>p, <1>q, <1>0, <1>b, <1>c, <2>2, StartedSpan DEF Dropped
  <2> QED
    BY <1>p, <1>q, <1>a, <2>1, <2>2 DEF Count
<1>2. /\ tx' \in [Transactions -> TransactionObjects]
      /\ \A u \in Transactions : /\ tx'[u].kind = tx[u].kind /\ tx'[u].config = tx[u].config
                                 /\ tx'[u].isSampled = tx[u].isSampled /\ tx'[u].total = tx[u].total
                                 /\ tx'[u].ended = tx[u].ended
                                 /\ u # t => tx'[u] = tx[u]
  BY <1>p, <1>q, <1>0, <1>a, <1>b, CountedTransaction DEF Count
<1>3. call'[f] = Idle /\ \A g \in Flows \ {f} : call'[g] = call[g] /\ call[g].of # s
  BY <1>p, <1>q, <1>0 DEF CountSpan, SegmentsTypeOK, CallInv
<1>4. SegmentsTypeOK'
  <2>1. call' \in [Flows -> Calls]
    BY <1>p, <1>q, <1>0, CallIsTyped, CallsAreTyped DEF SegmentsTypeOK, CountSpan, Segments
  <2>2. currentSpan' \in [Flows -> Spans \cup {None}]
    BY <1>p, <1>q, <1>0 DEF SegmentsTypeOK, CountSpan
  <2> QED
    BY <1>p, <1>q, <1>0, <1>1, <1>2, <2>1, <2>2 DEF SegmentsTypeOK
<1>5. CallInv'
  BY <1>p, <1>q, <1>0, <1>1, <1>2, <1>3 DEF CallInv, Idle
<1>6. TransactionInv'
  BY <1>p, <1>q, <1>0, <1>2 DEF TransactionInv
<1>7. FamilyInv'
  BY <1>p, <1>q, <1>0, <1>1, <1>2 DEF FamilyInv, Born
<1>8. \A u \in Spans \ {s} : span[u].kind \in Born =>
          /\ ShouldBeSentToApmServer(u)' = ShouldBeSentToApmServer(u)
          /\ Dropped(u)' = Dropped(u)
          /\ tx'[span[u].transaction].isSampled = tx[span[u].transaction].isSampled
  BY <1>p, <1>q, <1>1, <1>2 DEF ShouldBeSentToApmServer, Dropped, OverLimit, FamilyInv
<1>9. Dropped(s)' = Dropped(s) /\ queued[s] = 0 /\ ~span[s].ended
  <2>1. Dropped(s)' = Dropped(s)
    BY <1>p, <1>q, <1>0, <1>1, <1>2 DEF Dropped, OverLimit
  <2>2. queued[s] = 0
    BY <1>p, <1>q, <1>0 DEF QueueInv, SegmentsTypeOK, Segments
  <2>3. ~span[s].ended
    BY <1>p, <1>q, <1>0 DEF DropInv
  <2> QED
    BY <2>1, <2>2, <2>3
<1>10. DropInv'
  <2>1. ASSUME NEW u \in Spans, span'[u].kind = "constructing"
        PROVE  tx'[span'[u].transaction].isSampled /\ ~span'[u].ended /\ ~span'[u].isDropped
    BY <1>p, <1>q, <1>1, <1>8, <2>1 DEF DropInv, Born
  <2>2. ASSUME NEW u \in Spans, span'[u].kind = "real", tx'[span'[u].transaction].isSampled
        PROVE  span'[u].isDropped <=> Dropped(u)'
    <3>1. CASE u = s
      BY <1>p, <1>q, <1>1, <1>9, <3>1
    <3>2. CASE u # s
      BY <1>p, <1>q, <1>1, <1>8, <2>2, <3>2 DEF DropInv, Born
    <3> QED
      BY <3>1, <3>2
  <2> QED
    BY <2>1, <2>2 DEF DropInv
<1>11. QueueInv'
  BY <1>p, <1>q, <1>0, <1>1, <1>8, <1>9 DEF QueueInv, Born
<1>12. ReferenceInv'
  BY <1>p, <1>q, <1>0, <1>1, <1>8 DEF ReferenceInv, Born
<1> QED
  BY <1>p, <1>q, <1>4, <1>5, <1>6, <1>7, <1>10, <1>11, <1>12

LEMMA EndSpanKeeps ==
    ASSUME SegmentInv, NEW f \in Flows, NEW s \in Spans, EndSpan(f, s) \/ EndNoopSpan(f, s)
    PROVE  SegmentInv'
<1> USE DEF SegmentInv
<1>0. /\ UNCHANGED <<config, tx, currentTransaction, call, references, senderDisposed>>
      /\ span[s].kind \in {"real", "noop"}
  BY DEF EndSpan, EndNoopSpan
<1>1. /\ \A u \in Spans \ {s} : span'[u] = span[u]
      /\ span'[s].ended
      /\ span'[s].kind = span[s].kind /\ span'[s].transaction = span[s].transaction
      /\ span'[s].parent = span[s].parent /\ span'[s].number = span[s].number
      /\ span'[s].isDropped = span[s].isDropped
  BY EndedSpan DEF EndSpan, EndNoopSpan, SegmentsTypeOK
<1>2. /\ \A u \in Segments \ {s} : queued'[u] = queued[u]
      /\ queued'[s] = queued[s]
         \/ (/\ queued'[s] = queued[s] + 1 /\ span[s].kind = "real" /\ ~span[s].ended
             /\ ShouldBeSentToApmServer(s))
      /\ span[s].kind = "real" /\ ShouldBeSentToApmServer(s) /\ ~senderDisposed /\ ~span[s].ended
            => queued'[s] = queued[s] + 1
  BY DEF EndSpan, EndNoopSpan, QueuesOnEnd, Ended, SegmentsTypeOK, Segments
<1>3. SegmentsTypeOK'
  <2>1. span' \in [Spans -> SpanObjects]
    BY EndedSpan DEF EndSpan, EndNoopSpan, SegmentsTypeOK
  <2>2. queued' \in [Segments -> Nat]
    BY DEF EndSpan, EndNoopSpan, SegmentsTypeOK
  <2>3. currentSpan' \in [Flows -> Spans \cup {None}]
    BY DEF EndSpan, EndNoopSpan, RestoreParent, SegmentsTypeOK, SpanObjects
  <2> QED
    BY <1>0, <2>1, <2>2, <2>3 DEF SegmentsTypeOK
<1>4. CallInv' /\ FamilyInv'
  BY <1>0, <1>1 DEF CallInv, FamilyInv
<1>5. TransactionInv'
  BY <1>0, <1>2 DEF TransactionInv, Segments
<1>6. DropInv' /\ ReferenceInv'
  BY <1>0, <1>1 DEF DropInv, Dropped, OverLimit, ReferenceInv, ShouldBeSentToApmServer
<1>7. \A u \in Spans : ShouldBeSentToApmServer(u)' = ShouldBeSentToApmServer(u)
  BY <1>0, <1>1 DEF ShouldBeSentToApmServer
<1>8. queued[s] \in Nat /\ queued[s] > 0 => span[s].ended
  BY DEF QueueInv, SegmentsTypeOK, Segments
<1>9. QueueInv'
  BY <1>0, <1>1, <1>2, <1>7, <1>8 DEF QueueInv, SegmentsTypeOK, Segments
<1> QED
  BY <1>3, <1>4, <1>5, <1>6, <1>9

LEMMA EndTransactionKeeps ==
    ASSUME SegmentInv, NEW f \in Flows, NEW t \in Transactions, EndTransaction(f, t)
    PROVE  SegmentInv'
<1> USE DEF SegmentInv
<1>0. /\ UNCHANGED <<config, span, currentSpan, call, references, senderDisposed>>
      /\ tx[t].kind \in {"real", "noop"}
  BY DEF EndTransaction
<1>1. /\ \A u \in Transactions : /\ tx'[u].kind = tx[u].kind /\ tx'[u].config = tx[u].config
                                 /\ tx'[u].isSampled = tx[u].isSampled /\ tx'[u].total = tx[u].total
                                 /\ tx'[u].started = tx[u].started /\ tx'[u].dropped = tx[u].dropped
                                 /\ u # t => tx'[u].ended = tx[u].ended
      /\ tx'[t].ended
  BY EndedTransaction DEF EndTransaction, SegmentsTypeOK
<1>2. /\ \A u \in Segments \ {t} : queued'[u] = queued[u]
      /\ queued'[t] = queued[t]
         \/ (queued'[t] = queued[t] + 1 /\ tx[t].kind = "real" /\ ~tx[t].ended)
  BY DEF EndTransaction, QueuesOnEnd, Ended, SegmentsTypeOK, Segments
<1>3. SegmentsTypeOK'
  <2>1. tx' \in [Transactions -> TransactionObjects]
    BY EndedTransaction DEF EndTransaction, SegmentsTypeOK
  <2>2. queued' \in [Segments -> Nat]
    <3>1. queued' = queued \/ queued' = [queued EXCEPT ![t] = @ + 1]
      BY DEF EndTransaction
    <3> QED
      BY <3>1 DEF SegmentsTypeOK
  <2>3. currentTransaction' \in [Flows -> Transactions \cup {None}]
    BY DEF EndTransaction, SegmentsTypeOK
  <2> QED
    BY <1>0, <2>1, <2>2, <2>3 DEF SegmentsTypeOK
<1>4. CallInv' /\ FamilyInv'
  BY <1>0, <1>1 DEF CallInv, FamilyInv
<1>5. queued[t] \in Nat
  BY DEF SegmentsTypeOK, Segments
<1>6. TransactionInv'
  BY <1>1, <1>2, <1>5 DEF TransactionInv, Segments
<1>7. \A u \in Spans : span[u].kind \in Born =>
          /\ ShouldBeSentToApmServer(u)' = ShouldBeSentToApmServer(u)
          /\ Dropped(u)' = Dropped(u)
          /\ tx'[span[u].transaction].isSampled = tx[span[u].transaction].isSampled
  BY <1>0, <1>1 DEF ShouldBeSentToApmServer, Dropped, OverLimit, FamilyInv
<1>8. DropInv' /\ ReferenceInv'
  BY <1>0, <1>7 DEF DropInv, ReferenceInv, Born
<1>9. \A u \in Spans : queued'[u] = queued[u]
  BY <1>2 DEF Segments
<1>10. QueueInv'
  BY <1>0, <1>7, <1>9 DEF QueueInv, Born
<1> QED
  BY <1>3, <1>4, <1>6, <1>8, <1>10

LEMMA SegmentStep == SegmentInv /\ [Next]_vars => SegmentInv'
<1> SUFFICES ASSUME SegmentInv, [Next]_vars PROVE SegmentInv'
  OBVIOUS
<1>1. ASSUME NEW f \in Flows, FlowStep(f) PROVE SegmentInv'
  <2>1. ASSUME NEW t \in Transactions, StartTransaction(f, t) \/ EndTransaction(f, t)
        PROVE  SegmentInv'
    BY <2>1, StartTransactionKeeps, EndTransactionKeeps
  <2>2. CASE StartTransactionInternal(f)
    BY <2>2, StartTransactionInternalKeeps
  <2>3. CASE CountSpan(f)
    BY <2>3, CountSpanKeeps
  <2>4. ASSUME NEW s \in Spans, NEW p \in Segments, NEW internal \in BOOLEAN,
               StartSpan(f, s, p, internal)
        PROVE  SegmentInv'
    BY <2>4, StartSpanKeeps
  <2>5. ASSUME NEW s \in Spans, EndSpan(f, s) \/ EndNoopSpan(f, s) PROVE SegmentInv'
    BY <2>5, EndSpanKeeps
  <2>6. ASSUME NEW s \in Segments, Refer(f, s) PROVE SegmentInv'
    BY <2>6, ReferKeeps
  <2> QED
    BY <1>1, <2>1, <2>2, <2>3, <2>4, <2>5, <2>6 DEF FlowStep
<1> QED
  BY <1>1, OtherStepKeeps DEF Next

LEMMA SegmentInvariant == Spec => []SegmentInv
BY SegmentsInitial, SegmentStep, PTL DEF Spec

-----------------------------------------------------------------------------
(* Types. *)
THEOREM SegmentTypes == Spec => []SegmentsTypeOK
BY SegmentInvariant, PTL DEF SegmentInv

(* A segment is given to the sender once, and after it ended. *)
THEOREM SegmentsAreQueuedOnce == Spec => []QueuedOnce
<1>1. SegmentInv => QueuedOnce
  BY DEF SegmentInv, QueuedOnce, TransactionInv, QueueInv, SegmentsTypeOK, Kind, Ended, Segments
<1> QED
  BY <1>1, SegmentInvariant, PTL

(* A parent has the smaller number, so it is not dropped when its child is *)
(* sent.                                                                   *)
THEOREM SpansHaveParents == Spec => []NoOrphans
<1>1. SegmentInv => NoOrphans
  <2> SUFFICES ASSUME SegmentInv, NEW s \in Spans, queued[s] > 0,
                      span[s].parent # span[s].transaction
               PROVE  /\ span[s].parent \in Spans
                      /\ span[span[s].parent].transaction = span[s].transaction
                      /\ ShouldBeSentToApmServer(span[s].parent)
    BY DEF NoOrphans
  <2> USE DEF SegmentInv
  <2> DEFINE p == span[s].parent
             t == span[s].transaction
  <2>1. span[s].kind = "real" /\ ShouldBeSentToApmServer(s)
    BY DEF QueueInv
  <2>2. /\ t \in Transactions /\ tx[t].isSampled
        /\ p \in Spans /\ span[p].kind = "real" /\ span[p].transaction = t
        /\ span[p].number < span[s].number
    BY <2>1 DEF FamilyInv, Born, ShouldBeSentToApmServer
  <2>3. ~OverLimit(s, t)
    BY <2>1, <2>2 DEF DropInv, Dropped, ShouldBeSentToApmServer
  <2>4. /\ span[p].number \in Nat /\ span[s].number \in Nat /\ tx[t].config.maxSpans \in Int
    BY <2>2 DEF SegmentsTypeOK, SpanObjects, TransactionObjects, Snapshots
  <2>5. ~OverLimit(p, t)
    BY <2>2, <2>3, <2>4 DEF OverLimit
  <2> QED
    BY <2>2, <2>5 DEF DropInv, Dropped, ShouldBeSentToApmServer
<1> QED
  BY <1>1, SegmentInvariant, PTL

(* Errors and outgoing headers never name a dropped or unsampled span. *)
THEOREM ReferencesAreSent == Spec => []ReferencedIsSent
<1>1. SegmentInv => ReferencedIsSent
  BY DEF SegmentInv, ReferencedIsSent, ReferenceInv
<1> QED
  BY <1>1, SegmentInvariant, PTL

-----------------------------------------------------------------------------
(* The counters.  While total is under the limit every number has been     *)
(* given to a span that is started or about to be; above it, all the       *)
(* numbers up to the limit have.                                           *)
Started(t) == {s \in Spans : /\ span[s].kind = "real" /\ span[s].transaction = t
                             /\ ShouldBeSentToApmServer(s)}
Pending(t) == {s \in Constructing(t) : span[s].number <= tx[t].config.maxSpans}

CountInv(t) ==
    LET max == tx[t].config.maxSpans
    IN  /\ IsFiniteSet(Started(t)) /\ Cardinality(Started(t)) = tx[t].started
        /\ IsFiniteSet(Pending(t))
        /\ max >= 0 => tx[t].started + Cardinality(Pending(t))
                           = IF tx[t].total <= max THEN tx[t].total ELSE max
        /\ tx[t].dropped > 0 => max >= 0 /\ tx[t].total > max

CountsInv == \A t \in Transactions : CountInv(t)

LEMMA CountsInitial == Init => CountsInv
<1> SUFFICES ASSUME Init, NEW t \in Transactions PROVE CountInv(t)
  BY DEF CountsInv
<1>1. Started(t) = {} /\ Pending(t) = {}
  BY DEF Init, NoSpan, Started, Pending, Constructing
<1>2. config.maxSpans \in Int
  BY DEF Init, Snapshots
<1>3. tx[t].started = 0 /\ tx[t].dropped = 0 /\ tx[t].total = 0 /\ tx[t].config = config
  BY DEF Init
<1> QED
  BY <1>1, <1>2, <1>3, FS_EmptySet DEF CountInv

(* A transaction whose counters and spans stay as they are. *)
LEMMA CountsCarryOver ==
    ASSUME NEW t \in Transactions, CountInv(t),
           tx'[t].config = tx[t].config, tx'[t].total = tx[t].total,
           tx'[t].started = tx[t].started, tx'[t].dropped = tx[t].dropped,
           Started(t)' = Started(t), Pending(t)' = Pending(t)
    PROVE  CountInv(t)'
BY DEF CountInv

(* It is enough that the spans born before are the same and that the new   *)
(* ones are none of its own.                                               *)
LEMMA SpansCarryOver ==
    ASSUME SegmentInv, NEW t \in Transactions, CountInv(t),
           tx'[t].config = tx[t].config, tx'[t].total = tx[t].total,
           tx'[t].started = tx[t].started, tx'[t].dropped = tx[t].dropped,
           tx'[t].isSampled = tx[t].isSampled,
           \A s \in Spans : span[s].kind \in Born =>
              /\ span'[s].kind = span[s].kind \/ span[s].transaction # t
              /\ span'[s].transaction = span[s].transaction
              /\ span'[s].number = span[s].number
              /\ span'[s].isDropped = span[s].isDropped \/ span[s].transaction # t,
           \A s \in Spans : span[s].kind \notin Born /\ span'[s].kind \in Born =>
              span'[s].transaction # t \/ (span'[s].kind = "real" /\ ~tx[t].isSampled)
    PROVE  CountInv(t)'
<1>1. Pending(t)' = Pending(t)
  BY DEF Pending, Constructing, Born
<1>2. Started(t)' = Started(t)
  BY DEF Started, ShouldBeSentToApmServer, Born
<1> QED
  BY <1>1, <1>2, CountsCarryOver

(* The steps that give out no number and count no span. *)
LEMMA CountsUnderOtherSteps ==
    ASSUME SegmentInv, CountsInv,
           \/ UNCHANGED <<tx, span>>
           \/ \E f \in Flows, t \in Transactions : StartTransaction(f, t) \/ EndTransaction(f, t)
           \/ \E f \in Flows, s \in Spans : EndSpan(f, s) \/ EndNoopSpan(f, s)
    PROVE  CountsInv'
<1> SUFFICES ASSUME NEW t \in Transactions PROVE CountInv(t)'
  BY DEF CountsInv
<1>0. CountInv(t)
  BY DEF CountsInv
<1>t. span \in [Spans -> SpanObjects] /\ tx \in [Transactions -> TransactionObjects]
  BY DEF SegmentInv, SegmentsTypeOK
<1>1. CASE UNCHANGED <<tx, span>>
  BY <1>0, <1>1, SpansCarryOver
<1>2. ASSUME NEW f \in Flows, NEW u \in Transactions, StartTransaction(f, u)
      PROVE  CountInv(t)'
  <2>1. span' = span
    BY <1>2 DEF StartTransaction
  <2>2. /\ tx'[t].config = tx[t].config /\ tx'[t].total = tx[t].total
        /\ tx'[t].started = tx[t].started /\ tx'[t].dropped = tx[t].dropped
        /\ tx'[t].isSampled = tx[t].isSampled
    BY <1>2, <1>t DEF StartTransaction, TransactionObjects
  <2> QED
    BY <1>0, <2>1, <2>2, SpansCarryOver
<1>3. ASSUME NEW f \in Flows, NEW u \in Transactions, EndTransaction(f, u)
      PROVE  CountInv(t)'
  <2>1. span' = span /\ tx' = [tx EXCEPT ![u].ended = TRUE]
    BY <1>3 DEF EndTransaction
  <2>2. /\ tx'[t].config = tx[t].config /\ tx'[t].total = tx[t].total
        /\ tx'[t].started = tx[t].started /\ tx'[t].dropped = tx[t].dropped
        /\ tx'[t].isSampled = tx[t].isSampled
    BY <1>t, <2>1, EndedTransaction
  <2> QED
    BY <1>0, <2>1, <2>2, SpansCarryOver
<1>4. ASSUME NEW f \in Flows, NEW s \in Spans, EndSpan(f, s) \/ EndNoopSpan(f, s)
      PROVE  CountInv(t)'
  <2>1. tx' = tx /\ span' = [span EXCEPT ![s].ended = TRUE]
    BY <1>4 DEF EndSpan, EndNoopSpan
  <2>2. \A u \in Spans : /\ span'[u].kind = span[u].kind /\ span'[u].transaction = span[u].transaction
                         /\ span'[u].number = span[u].number /\ span'[u].isDropped = span[u].isDropped
    BY <1>t, <2>1, EndedSpan
  <2> QED
    BY <1>0, <2>1, <2>2, SpansCarryOver
<1> QED
  BY <1>1, <1>2, <1>3, <1>4

(* A new transaction has no spans yet. *)
LEMMA CountsUnderNewTransaction ==
    ASSUME SegmentInv, SegmentInv', CountsInv, NEW f \in Flows, StartTransactionInternal(f)
    PROVE  CountsInv'
<1> SUFFICES ASSUME NEW t \in Transactions PROVE CountInv(t)'
  BY DEF CountsInv
<1>0. CountInv(t)
  BY DEF CountsInv
<1>1. /\ call[f].of \in Transactions /\ tx[call[f].of].kind = "constructing" /\ span' = span
      /\ tx \in [Transactions -> TransactionObjects]
  BY DEF StartTransactionInternal, SegmentInv, CallInv, SegmentsTypeOK
<1>2. CASE t # call[f].of
  <2>1. tx'[t] = tx[t]
    BY <1>1, <1>2 DEF StartTransactionInternal
  <2> QED
    BY <1>0, <1>1, <2>1, SpansCarryOver
<1>3. CASE t = call[f].of
  <2>1. tx[t].kind # "real"
    BY <1>1, <1>3
  <2>2. Started(t)' = {} /\ Pending(t)' = {}
    BY <1>1, <2>1 DEF Started, Pending, Constructing, SegmentInv, FamilyInv, Born
  <2>3. tx[t].total = 0 /\ tx[t].started = 0 /\ tx[t].dropped = 0
    BY <2>1 DEF SegmentInv, TransactionInv
  <2>4. tx'[t].total = 0 /\ tx'[t].started = 0 /\ tx'[t].dropped = 0 /\ tx'[t].config.maxSpans \in Int
    <3>1. tx'[t].total = tx[t].total /\ tx'[t].started = tx[t].started /\ tx'[t].dropped = tx[t].dropped
      BY <1>1, <1>3 DEF StartTransactionInternal, TransactionObjects
    <3>2. tx'[t] \in TransactionObjects
      BY DEF SegmentInv, SegmentsTypeOK
    <3> QED
      BY <2>3, <3>1, <3>2 DEF TransactionObjects, Snapshots
  <2> QED
    BY <2>2, <2>4, FS_EmptySet DEF CountInv
<1> QED
  BY <1>2, <1>3

LEMMA CountsUnderStartSpan ==
    ASSUME SegmentInv, CountsInv, NEW f \in Flows, NEW s \in Spans, NEW p \in Segments,
           NEW internal \in BOOLEAN, StartSpan(f, s, p, internal)
    PROVE  CountsInv'
<1> SUFFICES ASSUME NEW t \in Transactions PROVE CountInv(t)'
  BY DEF CountsInv
<1>0. CountInv(t) /\ span[s].kind = "none" /\ "none" \notin Born
  BY DEF CountsInv, StartSpan, Born
<1>t. span \in [Spans -> SpanObjects] /\ tx \in [Transactions -> TransactionObjects]
  BY DEF SegmentInv, SegmentsTypeOK
<1>1. CASE \E q \in Spans \cup {None} : NewNoopSpan(f, s, q)
  <2>1. tx' = tx /\ span'[s].kind = "noop" /\ \A u \in Spans \ {s} : span'[u] = span[u]
    BY <1>1, <1>t DEF NewNoopSpan, NoSpan
  <2> QED
    BY <1>0, <2>1, SpansCarryOver DEF Born
<1>2. CASE Kind(p) = "real" /\ ConstructSpan(f, s, p)
  <2>p. PICK e : e = EnclosingTransaction(p)
    OBVIOUS
  <2>e. e \in Transactions
    BY <1>2, <2>p, NewSpanType
  <2>1. CASE ~tx[e].isSampled
    <3>1. /\ tx' = tx /\ \A u \in Spans \ {s} : span'[u] = span[u]
          /\ span'[s].kind = "real" /\ span'[s].transaction = e
      BY <1>2, <1>t, <2>1, <2>p DEF ConstructSpan, NewSpan
    <3> QED
      BY <1>0, <2>1, <3>1, SpansCarryOver
  <2>2. CASE tx[e].isSampled
    <3>1. /\ \A u \in Spans \ {s} : span'[u] = span[u]
          /\ span'[s].kind = "constructing" /\ span'[s].transaction = e
          /\ span'[s].number = tx[e].total + 1
      BY <1>2, <1>t, <2>2, <2>p DEF ConstructSpan, IncrementTotal, NewSpan
    <3>2. tx' = [tx EXCEPT ![e].total = @ + 1]
      BY <1>2, <2>2, <2>p DEF ConstructSpan, IncrementTotal
    <3>3. /\ \A u \in Transactions : u # e => tx'[u] = tx[u]
          /\ tx'[e].total = tx[e].total + 1
          /\ tx'[e].config = tx[e].config /\ tx'[e].isSampled = tx[e].isSampled
          /\ tx'[e].started = tx[e].started /\ tx'[e].dropped = tx[e].dropped
          /\ tx[e].total \in Nat /\ tx[e].started \in Nat /\ tx[e].dropped \in Nat
          /\ tx[e].config.maxSpans \in Int
      BY <1>t, <2>e, <3>2 DEF TransactionObjects, Snapshots
    <3>4. CASE t # e
      BY <1>0, <3>1, <3>3, <3>4, SpansCarryOver
    <3>5. CASE t = e
      <4>1. Started(t)' = Started(t)
        BY <1>0, <3>1, <3>3, <3>5 DEF Started, ShouldBeSentToApmServer
      <4>2. Pending(t)' = IF tx[t].total + 1 <= tx[t].config.maxSpans
                          THEN Pending(t) \cup {s} ELSE Pending(t)
        BY <1>0, <3>1, <3>3, <3>5 DEF Pending, Constructing
      <4>3. s \notin Pending(t)
        BY <1>0 DEF Pending, Constructing
      <4>4. IsFiniteSet(Pending(t)) /\ Cardinality(Pending(t)) \in Nat
        BY <1>0, FS_CardinalityType DEF CountInv
      <4>5. /\ IsFiniteSet(Pending(t)')
            /\ Cardinality(Pending(t)') = IF tx[t].total + 1 <= tx[t].config.maxSpans
                                          THEN Cardinality(Pending(t)) + 1 ELSE Cardinality(Pending(t))
        BY <4>2, <4>3, <4>4, FS_AddElement
      <4> QED
        BY <1>0, <3>3, <3>5, <4>1, <4>4, <4>5 DEF CountInv
    <3> QED
      BY <3>4, <3>5
  <2> QED
    BY <2>1, <2>2
<1> QED
  BY <1>1, <1>2 DEF StartSpan

LEMMA CountsUnderCountSpan ==
    ASSUME SegmentInv, CountsInv, NEW f \in Flows, CountSpan(f)
    PROVE  CountsInv'
<1> SUFFICES ASSUME NEW t \in Transactions PROVE CountInv(t)'
  BY DEF CountsInv
<1>0. CountInv(t)
  BY DEF CountsInv
<1>t. span \in [Spans -> SpanObjects] /\ tx \in [Transactions -> TransactionObjects]
  BY DEF SegmentInv, SegmentsTypeOK
<1>p. PICK s \in Spans : s = call[f].of
  BY DEF CountSpan, SegmentInv, CallInv
<1>q. PICK e : e = span[s].transaction
  OBVIOUS
<1>1. /\ span[s].kind = "constructing" /\ ~span[s].isDropped
      /\ e \in Transactions /\ tx[e].isSampled /\ span[s].number <= tx[e].total
      /\ span[s].number \in Nat /\ tx[e].total \in Nat /\ tx[e].started \in Nat
      /\ tx[e].dropped \in Nat /\ tx[e].config.maxSpans \in Int
  <2>1. span[s].kind = "constructing"
    BY <1>p DEF CountSpan, SegmentInv, CallInv
  <2>2. e \in Transactions /\ tx[e].isSampled /\ span[s].number <= tx[e].total /\ ~span[s].isDropped
    BY <1>q, <2>1 DEF SegmentInv, FamilyInv, DropInv, Born
  <2> QED
    BY <1>t, <2>1, <2>2 DEF SpanObjects, TransactionObjects, Snapshots
<1>2. Count(s, e)
  BY <1>p, <1>q DEF CountSpan
<1>3. /\ tx'[t].config = tx[t].config /\ tx'[t].isSampled = tx[t].isSampled
      /\ tx'[t].total = tx[t].total
      /\ t # e => tx'[t] = tx[t]
  BY <1>t, <1>1, <1>2, CountedTransaction DEF Count
<1>4. CASE OverLimit(s, e)
  <2>1. /\ span' = [span EXCEPT ![s].kind = "real", ![s].isDropped = TRUE]
        /\ tx' = [tx EXCEPT ![e].dropped = @ + 1]
    BY <1>2, <1>4 DEF Count
  <2>2. /\ \A u \in Spans \ {s} : span'[u] = span[u]
        /\ span'[s].kind = "real" /\ span'[s].transaction = e /\ span'[s].isDropped
    BY <1>t, <1>q, <2>1, CountedSpan
  <2>3. CASE t # e
    <3>1. span[s].transaction # t /\ span'[s].transaction = span[s].transaction
      BY <1>q, <2>2, <2>3
    <3>2. span'[s].number = span[s].number /\ span[s].kind \in Born
      BY <1>t, <1>1, <2>1, CountedSpan, StartedSpan DEF Born
    <3>3. tx'[t] = tx[t]
      BY <1>3, <2>3
    <3> QED
      BY <1>0, <2>2, <3>1, <3>2, <3>3, SpansCarryOver
  <2>4. CASE t = e
    <3>1. tx'[t].dropped = tx[t].dropped + 1 /\ tx'[t].started = tx[t].started
      BY <1>t, <1>1, <2>1, <2>4 DEF TransactionObjects
    <3>2. Started(t)' = Started(t)
      BY <1>1, <1>3, <2>2, <2>4 DEF Started, ShouldBeSentToApmServer
    <3>3. s \notin Pending(t)
      BY <1>1, <1>4, <2>4 DEF Pending, OverLimit
    <3>4. Pending(t)' = Pending(t)
      BY <1>3, <2>2, <3>3 DEF Pending, Constructing
    <3>5. tx[t].config.maxSpans >= 0 /\ tx[t].total > tx[t].config.maxSpans
      BY <1>1, <1>4, <2>4 DEF OverLimit
    <3> QED
      BY <1>0, <1>1, <1>3, <2>4, <3>1, <3>2, <3>4, <3>5 DEF CountInv
  <2> QED
    BY <2>3, <2>4
<1>5. CASE ~OverLimit(s, e)
  <2>1. /\ span' = [span EXCEPT ![s].kind = "real"]
        /\ tx' = [tx EXCEPT ![e].started = @ + 1]
    BY <1>2, <1>5 DEF Count
  <2>2. /\ \A u \in Spans \ {s} : span'[u] = span[u]
        /\ span'[s].kind = "real" /\ span'[s].transaction = e /\ ~span'[s].isDropped
    BY <1>t, <1>q, <1>1, <2>1, StartedSpan
  <2>3. CASE t # e
    <3>1. span[s].transaction # t /\ span'[s].transaction = span[s].transaction
      BY <1>q, <2>2, <2>3
    <3>2. span'[s].number = span[s].number /\ span[s].kind \in Born
      BY <1>t, <1>1, <2>1, CountedSpan, StartedSpan DEF Born
    <3>3. tx'[t] = tx[t]
      BY <1>3, <2>3
    <3> QED
      BY <1>0, <2>2, <3>1, <3>2, <3>3, SpansCarryOver
  <2>4. CASE t = e
    <3>1. tx'[t].dropped = tx[t].dropped /\ tx'[t].started = tx[t].started + 1
      BY <1>t, <1>1, <2>1, <2>4 DEF TransactionObjects
    <3>2. Started(t)' = Started(t) \cup {s} /\ s \notin Started(t)
      BY <1>1, <1>3, <2>2, <2>4 DEF Started, ShouldBeSentToApmServer
    <3>3. Cardinality(Started(t)') = tx[t].started + 1 /\ IsFiniteSet(Started(t)')
      BY <1>0, <3>2, FS_AddElement DEF CountInv
    <3>4. Pending(t)' = Pending(t) \ {s}
      BY <1>3, <2>2 DEF Pending, Constructing
    <3>5. tx[t].config.maxSpans >= 0 => s \in Pending(t)
      BY <1>1, <1>5, <1>q, <2>4 DEF Pending, Constructing, OverLimit
    <3>6. IsFiniteSet(Pending(t)) /\ Cardinality(Pending(t)) \in Nat
      BY <1>0, FS_CardinalityType DEF CountInv
    <3>7. /\ IsFiniteSet(Pending(t)')
          /\ tx[t].config.maxSpans >= 0 => Cardinality(Pending(t)') = Cardinality(Pending(t)) - 1
      BY <3>4, <3>5, <3>6, FS_RemoveElement
    <3> QED
      BY <1>0, <1>1, <1>3, <2>4, <3>1, <3>3, <3>6, <3>7 DEF CountInv
  <2> QED
    BY <2>3, <2>4
<1> QED
  BY <1>4, <1>5

LEMMA CountsStep == SegmentInv /\ SegmentInv' /\ CountsInv /\ [Next]_vars => CountsInv'
<1> SUFFICES ASSUME SegmentInv, SegmentInv', CountsInv, [Next]_vars PROVE CountsInv'
  OBVIOUS
<1>1. ASSUME NEW f \in Flows, FlowStep(f) PROVE CountsInv'
  <2>1. CASE StartTransactionInternal(f)
    BY <2>1, CountsUnderNewTransaction
  <2>2. CASE CountSpan(f)
    BY <2>2, CountsUnderCountSpan
  <2>3. ASSUME NEW s \in Spans, NEW p \in Segments, NEW internal \in BOOLEAN,
               StartSpan(f, s, p, internal)
        PROVE  CountsInv'
    BY <2>3, CountsUnderStartSpan
  <2>4. ASSUME NEW s \in Segments, Refer(f, s) PROVE CountsInv'
    BY <2>4, CountsUnderOtherSteps DEF Refer
  <2> QED
    BY <1>1, <2>1, <2>2, <2>3, <2>4, CountsUnderOtherSteps DEF FlowStep
<1>2. CASE UNCHANGED <<tx, span>>
  BY <1>2, CountsUnderOtherSteps
<1> QED
  BY <1>1, <1>2 DEF Next, Fork, ChangeConfig, DisposeSender, vars

LEMMA CountsInvariant == Spec => []CountsInv
BY SegmentInvariant, CountsInitial, CountsStep, PTL DEF Spec

(* TransactionMaxSpans is kept for every limit and any number of flows.    *)
THEOREM LimitIsKept == Spec => []SpanLimit
<1>1. SegmentInv /\ CountsInv => SpanLimit
  <2> SUFFICES ASSUME SegmentInv, CountsInv, NEW t \in Transactions
               PROVE  LET max == tx[t].config.maxSpans
                      IN  /\ max >= 0 => tx[t].started <= max
                          /\ tx[t].dropped > 0 =>
                                max >= 0 /\ tx[t].started + Cardinality(Pending(t)) = max
    BY DEF SpanLimit, Pending
  <2>1. /\ tx[t].total \in Nat /\ tx[t].started \in Nat /\ tx[t].config.maxSpans \in Int
    BY DEF SegmentInv, SegmentsTypeOK, TransactionObjects, Snapshots
  <2>2. CountInv(t)
    BY DEF CountsInv
  <2>3. Cardinality(Pending(t)) \in Nat
    BY <2>2, FS_CardinalityType DEF CountInv
  <2> QED
    BY <2>1, <2>2, <2>3 DEF CountInv
<1> QED
  BY <1>1, SegmentInvariant, CountsInvariant, PTL

(* The server gets as many spans as the transaction reports. *)
THEOREM ReportIsExact == Spec => []ReportMatchesSpanCount
<1>1. SegmentInv /\ CountsInv => ReportMatchesSpanCount
  <2> SUFFICES ASSUME SegmentInv, CountsInv, NEW t \in Transactions, ~senderDisposed,
                      \A s \in Spans : span[s].transaction = t => span[s].ended
               PROVE  Cardinality({s \in Spans : span[s].transaction = t /\ queued[s] > 0}) = tx[t].started
    BY DEF ReportMatchesSpanCount
  <2>1. {s \in Spans : span[s].transaction = t /\ queued[s] > 0} = Started(t)
    BY DEF Started, SegmentInv, QueueInv
  <2> QED
    BY <2>1 DEF CountsInv, CountInv
<1> QED
  BY <1>1, SegmentInvariant, CountsInvariant, PTL
=============================================================================
