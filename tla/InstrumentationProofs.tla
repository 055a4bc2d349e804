----------------------- MODULE InstrumentationProofs -----------------------
(***************************************************************************)
(* Proofs about Instrumentation, for any flows, spans and operations.  A   *)
(* start or stop event is ignored when the current span belongs to a       *)
(* competing module, so they rest on what a flow's current span can be.    *)
(* While a flow waits for an operation, it is the span of that operation,  *)
(* or one that no module takes for another one's (WaitInv): no stop event  *)
(* is ignored.  A span of EF Core is the current one only while its        *)
(* command runs (RivalInv): no start event is ignored because of an        *)
(* earlier command, and what is ignored has a span already (CaptureInv).   *)
(* The spans the application opens (StackInv) are nested in the same way   *)
(* as it opens them, below every span a listener makes meanwhile.          *)
(***************************************************************************)
EXTENDS Instrumentation, ExecutionSegmentsProofs

Phases == {"new", "sent", "ef", "sql", "answered", "done"}
Contexts == [transaction: Transactions \cup {None}, span: Spans \cup {None}]

ListenerTypeOK ==
    /\ phase \in [Operations -> Phases]
    /\ on \in [Operations -> Flows \cup {None}]
    /\ context \in [Operations -> Contexts]
    /\ flag \in [Spans -> Listeners \cup {"None"}]
    /\ madeFor \in [Spans -> Operations \cup {None}]
    /\ table \in [Listeners -> [Operations -> Spans \cup {None}]]
    /\ header \in [Requests -> Segments \cup {None}]
    /\ stack \in [Flows -> Seq(Spans)]

Made(s) == span[s].kind \in {"real", "noop"}

(* Spans that have become current, or may again, are made. *)
MadeInv ==
    /\ \A f \in Flows : currentSpan[f] # None => Made(currentSpan[f])
    /\ \A o \in Operations : context[o].span # None => Made(context[o].span)
    /\ \A s \in Spans : span[s].parentSpan # None =>
          /\ Made(span[s].parentSpan)
          /\ span[s].kind = "noop" => span[span[s].parentSpan].kind = "noop"
    /\ \A s \in Spans : span[s].kind = "none" =>
          span[s].parentSpan = None /\ flag[s] = "None"
    /\ \A s \in Spans : span[s].kind = "constructing" =>
          \E f \in Flows : call[f].at = "span" /\ call[f].of = s

Phased(o) ==
    /\ o \in Requests => phase[o] \in {"new", "sent", "done"}
    /\ o \in EfCommands => phase[o] # "sent"
    /\ o \in SqlCommands => phase[o] \in {"new", "sql", "done"}

(* A flow waits for one operation, and while it does it is in no other     *)
(* constructor than that of a span for it.                                 *)
PhaseInv ==
    /\ \A o \in Operations : Phased(o)
    /\ \A o \in Operations : on[o] # None => phase[o] \notin {"new", "done"}
    /\ \A c \in EfCommands : phase[c] \notin {"new", "done"} => on[c] # None
    /\ \A o, q \in Operations : on[o] = on[q] /\ on[o] # None => o = q
    /\ \A o \in Operations : on[o] # None /\ call[on[o]] # Idle =>
          call[on[o]].at = "span" /\ madeFor[call[on[o]].of] = o

(* Where the listener has seen the start event and not yet the stop event. *)
Active(l, o) ==
    \/ l = "HttpClient" /\ phase[o] = "sent"
    \/ l = "SqlClient" /\ phase[o] = "sql"
    \/ l = "EfCore" /\ o \in EfCommands /\ phase[o] \in {"ef", "sql", "answered"}

TableInv ==
    \A l \in Listeners, o \in Operations :
       LET s == table[l][o]
       IN  s # None => Active(l, o) /\ flag[s] = l /\ madeFor[s] = o /\ Made(s)

MadeForInv ==
    /\ \A s \in Spans : (flag[s] = "None") <=> (madeFor[s] = None)
    /\ \A s \in Spans : madeFor[s] # None /\ Made(s) =>
          span[s].ended \/ table[flag[s]][madeFor[s]] = s
    /\ \A s \in Spans : madeFor[s] # None /\ span[s].kind = "constructing" =>
          /\ Active(flag[s], madeFor[s]) /\ table[flag[s]][madeFor[s]] = None
          /\ flag[s] = "EfCore" => phase[madeFor[s]] = "ef"
          /\ flag[s] = "SqlClient" => table["EfCore"][madeFor[s]] = None
          /\ \A f \in Flows : call[f].at = "span" /\ call[f].of = s => on[madeFor[s]] \in {f, None}
          /\ \A u \in Spans : u # s /\ span[u].kind = "constructing" => madeFor[u] # madeFor[s]

(* No stop event of EF Core is ignored under such a current span. *)
Calm(s) == s # None => span[s].kind = "noop" \/ flag[s] = "EfCore"

WaitInv ==
    /\ \A o \in Operations : table["SqlClient"][o] # None =>
          /\ context[o].span = table["SqlClient"][o]
          /\ on[o] # None => currentSpan[on[o]] = table["SqlClient"][o]
    /\ \A c \in EfCommands : table["EfCore"][c] # None =>
          /\ Calm(currentSpan[on[c]])
          /\ phase[c] = "ef" => currentSpan[on[c]] = table["EfCore"][c]
          /\ table["SqlClient"][c] # None => span[table["SqlClient"][c]].kind = "noop"

(* An operation that has a span has a transaction to blame. *)
BlameInv ==
    /\ \A f \in Flows : call[f].at = "span" /\ madeFor[call[f].of] # None => currentTransaction[f] # None
    /\ \A r \in Requests : table["HttpClient"][r] # None => context[r].transaction # None

(* A span of EF Core that would make SqlClient ignore a command is the     *)
(* current one only of the flow that waits for EF Core's command, and      *)
(* nobody's parent, so no other command meets it.                          *)
Rival(u) == u # None /\ span[u].kind = "real" /\ flag[u] = "EfCore"

RivalInv ==
    /\ \A f \in Flows : Rival(currentSpan[f]) =>
          \E c \in EfCommands : on[c] = f /\ table["EfCore"][c] = currentSpan[f]
    /\ \A s \in Spans : ~Rival(span[s].parentSpan)

OneSpan(o) == \E s \in Spans : SpansOf(o) = {s}
NoopSpans(o) == SpansOf(o) # {} /\ \A s \in SpansOf(o) : span[s].kind = "noop"

CaptureInv ==
    /\ \A c \in EfCommands \cup SqlCommands :
          /\ phase[c] = "new" => SpansOf(c) = {}
          /\ context[c].transaction = None => SpansOf(c) = {}
          /\ phase[c] \notin {"new", "ef"} /\ context[c].transaction # None => OneSpan(c) \/ NoopSpans(c)
    /\ \A c \in EfCommands : phase[c] = "ef" =>
          /\ context[c].transaction = currentTransaction[on[c]]
          /\ SpansOf(c) # {} => OneSpan(c)
          /\ \A s \in SpansOf(c) : flag[s] = "EfCore" /\ (Made(s) => table["EfCore"][c] = s)

(* The header of a request names a segment that is sent. *)
HeaderInv ==
    \A r \in Requests : header[r] # None =>
       \/ header[r] \in Transactions
       \/ header[r] \in Spans /\ span[header[r]].kind = "real" /\ ShouldBeSentToApmServer(header[r])

ListenerInv ==
    /\ ListenerTypeOK /\ MadeInv /\ PhaseInv /\ TableInv /\ MadeForInv /\ WaitInv
    /\ BlameInv /\ HeaderInv /\ RivalInv /\ CaptureInv

InstrumentationInv == SegmentInv /\ ListenerInv

-----------------------------------------------------------------------------
(* What a span that is sent keeps. *)
StaysReal ==
    \A u \in Spans : span[u].kind = "real" =>
       span'[u].kind = "real" /\ (ShouldBeSentToApmServer(u)' <=> ShouldBeSentToApmServer(u))

(* What the steps of ExecutionSegments do to the variables that matter     *)
(* here.                                                                   *)
LEMMA SpanIsStarted ==
    ASSUME SegmentInv, NEW f \in Flows, NEW s \in Spans, NEW p \in Segments,
           NEW internal \in BOOLEAN, StartSpan(f, s, p, internal)
    PROVE  /\ call[f] = Idle /\ span[s].kind = "none" /\ Kind(p) \in {"real", "noop"}
           /\ \A u \in Spans \ {s} : span'[u] = span[u]
           /\ span'[s].kind \in {"constructing", "real", "noop"} /\ ~span'[s].ended
           /\ span'[s].parentSpan # None => p \in Spans /\ span'[s].parentSpan = p
           /\ Kind(p) = "noop" => span'[s].kind = "noop"
           /\ span'[s].kind = "noop" /\ span'[s].parentSpan # None => Kind(p) = "noop"
           /\ span'[s].kind = "constructing" =>
                 currentSpan' = currentSpan /\ call' = [call EXCEPT ![f] = [at |-> "span", of |-> s]]
           /\ span'[s].kind # "constructing" =>
                 currentSpan' = [currentSpan EXCEPT ![f] = s] /\ call' = call
           /\ UNCHANGED currentTransaction
<1> USE SegmentConstants DEF SegmentInv, SegmentsTypeOK
<1>1. CASE \E q \in Spans \cup {None} : /\ NewNoopSpan(f, s, q)
                                        /\ Kind(p) \in {"real", "noop"}
                                        /\ q # None => q = p /\ Kind(p) = "noop"
  BY <1>1 DEF StartSpan, NewNoopSpan, NoSpan
<1>2. CASE Kind(p) = "real" /\ ConstructSpan(f, s, p)
  BY <1>2 DEF StartSpan, ConstructSpan, IncrementTotal, NewSpan
<1>3. CASE Kind(p) = "noop" /\ NewNoopSpan(f, s, IF p \in Spans THEN p ELSE None)
  <2>1. PICK q \in Spans \cup {None} : q = IF p \in Spans THEN p ELSE None
    OBVIOUS
  <2> QED
    BY <1>1, <1>3, <2>1
<1>4. CASE Kind(p) = "real" /\ NewNoopSpan(f, s, None)
  BY <1>1, <1>4
<1> QED
  BY <1>2, <1>3, <1>4 DEF StartSpan

LEMMA StartKeepsReal ==
    ASSUME SegmentInv, NEW f \in Flows, NEW s \in Spans, NEW p \in Segments,
           NEW internal \in BOOLEAN, StartSpan(f, s, p, internal)
    PROVE  StaysReal
<1> USE SegmentConstants DEF SegmentInv, SegmentsTypeOK
<1>1. span[s].kind = "none" /\ \A u \in Spans \ {s} : span'[u] = span[u]
  BY SpanIsStarted
<1>2. tx' = tx \/ \E t \in Transactions : tx' = [tx EXCEPT ![t].total = @ + 1]
  <2>1. CASE Kind(p) = "real" /\ ConstructSpan(f, s, p)
    <3>1. EnclosingTransaction(p) \in Transactions
      BY <2>1 DEF FamilyInv, Born, Kind, EnclosingTransaction, Segments
    <3> QED
      BY <2>1, <3>1 DEF ConstructSpan, IncrementTotal
  <2> QED
    BY <2>1 DEF StartSpan, NewNoopSpan
<1>3. \A t \in Transactions : tx'[t].isSampled = tx[t].isSampled
  BY <1>2 DEF TransactionObjects
<1> QED
  BY <1>1, <1>3 DEF StaysReal, ShouldBeSentToApmServer, FamilyInv, Born

LEMMA SpanIsCounted ==
    ASSUME SegmentInv, NEW f \in Flows, CountSpan(f), NEW s, s = call[f].of
    PROVE  /\ s \in Spans /\ span[s].kind = "constructing" /\ call[f].at = "span"
           /\ \A u \in Spans \ {s} : span'[u] = span[u]
           /\ span'[s].kind = "real" /\ span'[s].ended = span[s].ended
           /\ span'[s].parentSpan = span[s].parentSpan
           /\ span'[s].transaction = span[s].transaction
           /\ currentSpan' = [currentSpan EXCEPT ![f] = s]
           /\ call' = [call EXCEPT ![f] = Idle]
           /\ UNCHANGED currentTransaction
<1> USE SegmentConstants DEF SegmentInv, SegmentsTypeOK
<1>1. s \in Spans /\ span[s].kind = "constructing" /\ call[f].at = "span"
  BY DEF CountSpan, CallInv
<1>2. \/ span' = [span EXCEPT ![s].kind = "real", ![s].isDropped = TRUE]
      \/ span' = [span EXCEPT ![s].kind = "real"]
  BY DEF CountSpan, Count
<1>3. /\ \A u \in Spans \ {s} : span'[u] = span[u]
      /\ span'[s].kind = "real" /\ span'[s].ended = span[s].ended
      /\ span'[s].parentSpan = span[s].parentSpan
      /\ span'[s].transaction = span[s].transaction
  BY <1>1, <1>2 DEF SpanObjects
<1> QED
  BY <1>1, <1>3 DEF CountSpan

LEMMA CountKeepsReal ==
    ASSUME SegmentInv, NEW f \in Flows, CountSpan(f)
    PROVE  StaysReal
<1> USE SegmentConstants DEF SegmentInv, SegmentsTypeOK
<1>1. PICK s \in Spans : s = call[f].of /\ span[s].kind = "constructing"
  BY SpanIsCounted
<1>2. \A u \in Spans \ {s} : span'[u] = span[u]
  BY <1>1, SpanIsCounted
<1>3. PICK t \in Transactions : t = span[s].transaction
  BY <1>1 DEF FamilyInv, Born
<1>4. \A u \in Transactions : tx'[u].isSampled = tx[u].isSampled
  BY <1>1, <1>3, CountedTransaction DEF CountSpan, Count
<1> QED
  BY <1>1, <1>2, <1>4 DEF StaysReal, ShouldBeSentToApmServer, FamilyInv, Born

-----------------------------------------------------------------------------
(* The steps of the application: they make and end segments, but not in a  *)
(* flow that waits for an operation.                                       *)
Kept(u) ==
    /\ span'[u].kind = span[u].kind /\ span'[u].parentSpan = span[u].parentSpan
    /\ span[u].ended => span'[u].ended

Opened(u) ==
    /\ span'[u].kind \in {"constructing", "real", "noop"}
    /\ span'[u].kind = "constructing" => \E f \in Flows : call'[f].at = "span" /\ call'[f].of = u
    /\ span'[u].parentSpan # None =>
          /\ span'[u].parentSpan \in Spans /\ Made(span'[u].parentSpan)
          /\ span'[u].kind = "noop" => span[span'[u].parentSpan].kind = "noop"
          /\ ~Rival(span'[u].parentSpan)

Quiet ==
    /\ StaysReal
    /\ \A u \in Spans : Kept(u) \/ (span[u].kind = "none" /\ Opened(u))
    /\ \A f \in Flows : currentSpan'[f] # None => Made(currentSpan[f])'
    /\ \A f \in Flows : currentSpan'[f] = currentSpan[f] \/ ~Rival(currentSpan[f])'
    /\ \A f \in Flows : Waits(f) => currentSpan'[f] = currentSpan[f] /\ call'[f] = call[f]
                                    /\ currentTransaction'[f] = currentTransaction[f]
    /\ \A f \in Flows : call[f].at = "span" => call'[f] = call[f] /\ currentTransaction'[f] = currentTransaction[f]
    /\ \A f \in Flows : call'[f].at = "span" => call'[f] = call[f] \/ span[call'[f].of].kind = "none"

LEMMA QuietKeeps ==
    ASSUME SegmentInv, SegmentInv', ListenerInv, Quiet, stack' \in [Flows -> Seq(Spans)],
           UNCHANGED <<phase, on, context, flag, madeFor, table, header>>
    PROVE  ListenerInv'
<1> USE DEF ListenerInv
<1>1. ListenerTypeOK'
  BY DEF ListenerTypeOK
<1>2. \A u \in Spans : Made(u) => Made(u)' /\ span'[u].kind = span[u].kind
  BY DEF Quiet, Kept, Made
<1>3. MadeInv'
  <2>1. \A o \in Operations : context'[o].span # None => Made(context[o].span)'
    BY <1>2 DEF MadeInv, ListenerTypeOK, Contexts
  <2>2. ASSUME NEW u \in Spans, span'[u].parentSpan # None
        PROVE  /\ Made(span[u].parentSpan)'
               /\ span'[u].kind = "noop" => span'[span'[u].parentSpan].kind = "noop"
    <3>1. span'[u].parentSpan \in Spans
      BY <2>2 DEF SegmentInv, SegmentsTypeOK, SpanObjects
    <3>2. Made(span'[u].parentSpan)
      BY <2>2 DEF MadeInv, Quiet, Kept, Opened
    <3>3. span'[u].kind = "noop" => span[span'[u].parentSpan].kind = "noop"
      BY <2>2 DEF MadeInv, Quiet, Kept, Opened
    <3> QED
      BY <1>2, <3>1, <3>2, <3>3
  <2>3. ASSUME NEW u \in Spans, span'[u].kind = "none"
        PROVE  span'[u].parentSpan = None /\ flag'[u] = "None"
    BY <2>3 DEF MadeInv, Quiet, Kept, Opened
  <2>4. ASSUME NEW u \in Spans, span'[u].kind = "constructing"
        PROVE  \E f \in Flows : call'[f].at = "span" /\ call'[f].of = u
    BY <2>4 DEF MadeInv, Quiet, Kept, Opened
  <2>5. \A f \in Flows : currentSpan'[f] # None => Made(currentSpan[f])'
    BY DEF Quiet
  <2> QED
    BY <2>1, <2>2, <2>3, <2>4, <2>5 DEF MadeInv
<1>4. PhaseInv'
  <2>1. \A o \in Operations : Phased(o)'
    BY DEF PhaseInv, Phased
  <2>2. \A o \in Operations : on[o] # None => on[o] \in Flows /\ call'[on[o]] = call[on[o]]
    BY DEF Quiet, Waits, ListenerTypeOK
  <2> QED
    BY <2>1, <2>2 DEF PhaseInv
<1>5. TableInv'
  BY <1>2 DEF TableInv, Active, ListenerTypeOK
<1>6. MadeForInv'
  <2>1. \A s \in Spans : madeFor[s] # None => span[s].kind # "none" /\ Kept(s)
    BY DEF MadeForInv, MadeInv, Quiet
  <2>2. \A s \in Spans : madeFor[s] # None /\ Made(s)' =>
          span'[s].ended \/ table'[flag'[s]][madeFor'[s]] = s
    BY <2>1 DEF MadeForInv, Kept, Made
  <2>3. ASSUME NEW s \in Spans, madeFor[s] # None, span'[s].kind = "constructing"
        PROVE  /\ Active(flag[s], madeFor[s])' /\ table[flag[s]][madeFor[s]] = None
               /\ flag[s] = "EfCore" => phase[madeFor[s]] = "ef"
               /\ flag[s] = "SqlClient" => table["EfCore"][madeFor[s]] = None
               /\ \A f \in Flows : call'[f].at = "span" /\ call'[f].of = s => on[madeFor[s]] \in {f, None}
               /\ \A u \in Spans : u # s /\ span'[u].kind = "constructing" => madeFor[u] # madeFor[s]
    <3>1. span[s].kind = "constructing"
      BY <2>1, <2>3 DEF Kept
    <3>2. \A f \in Flows : call'[f].at = "span" /\ call'[f].of = s => call'[f] = call[f]
      BY <3>1 DEF Quiet
    <3>3. \A u \in Spans : madeFor[u] = madeFor[s] /\ span'[u].kind = "constructing" => span[u].kind = "constructing"
      BY <2>1, <2>3 DEF Kept
    <3> QED
      BY <2>3, <3>1, <3>2, <3>3 DEF MadeForInv, Active
  <2>4. \A s \in Spans : (flag'[s] = "None") <=> (madeFor'[s] = None)
    BY DEF MadeForInv
  <2> QED
    BY <2>2, <2>3, <2>4 DEF MadeForInv
<1>7. WaitInv'
  <2>1. \A o \in Operations : on[o] # None => on[o] \in Flows /\ currentSpan'[on[o]] = currentSpan[on[o]]
    BY DEF Quiet, Waits, ListenerTypeOK
  <2>2. \A u \in Spans \cup {None} : Calm(u) => Calm(u)'
    BY <1>2 DEF Calm, Made
  <2>3. \A o \in Operations : table["EfCore"][o] # None => on[o] # None
    BY DEF TableInv, PhaseInv, Active, Listeners, Operations
  <2>4. \A o \in Operations : table["SqlClient"][o] \in Spans \cup {None}
    BY DEF ListenerTypeOK, Listeners
  <2>5. \A f \in Flows : currentSpan[f] \in Spans \cup {None}
    BY DEF SegmentInv, SegmentsTypeOK
  <2> QED
    BY <1>2, <2>1, <2>2, <2>3, <2>4, <2>5 DEF WaitInv, Operations, Made
<1>8. HeaderInv'
  BY DEF HeaderInv, Quiet, StaysReal
<1>9. BlameInv'
  <2>1. ASSUME NEW f \in Flows, call'[f].at = "span", madeFor'[call'[f].of] # None
        PROVE  currentTransaction'[f] # None
    <3>1. call'[f].of \in Spans
      BY <2>1 DEF SegmentInv, CallInv
    <3>2. span[call'[f].of].kind # "none"
      BY <2>1, <3>1 DEF MadeInv, MadeForInv
    <3> QED
      BY <2>1, <3>2 DEF Quiet, BlameInv
  <2> QED
    BY <2>1 DEF BlameInv
<1>10. \A u \in Spans : Made(u) => Rival(u)' = Rival(u)
  BY DEF Quiet, Kept, Made, Rival
<1>11. RivalInv'
  <2>1. ASSUME NEW f \in Flows, Rival(currentSpan[f])'
        PROVE  \E c \in EfCommands : on[c] = f /\ table["EfCore"][c] = currentSpan'[f]
    <3>1. currentSpan'[f] = currentSpan[f] /\ currentSpan[f] \in Spans
      BY <2>1 DEF Quiet, Rival, SegmentInv, SegmentsTypeOK
    <3>2. Rival(currentSpan[f])
      BY <1>10, <2>1, <3>1 DEF MadeInv, Rival
    <3> QED
      BY <3>1, <3>2 DEF RivalInv
  <2>2. ASSUME NEW u \in Spans PROVE ~Rival(span[u].parentSpan)'
    <3> SUFFICES ASSUME span'[u].parentSpan # None PROVE ~Rival(span[u].parentSpan)'
      BY DEF Rival
    <3>1. span'[u].parentSpan \in Spans
      BY DEF SegmentInv, SegmentsTypeOK, SpanObjects
    <3>2. Made(span'[u].parentSpan) /\ ~Rival(span'[u].parentSpan)
      BY DEF Quiet, Kept, Opened, MadeInv, RivalInv
    <3> QED
      BY <1>10, <3>1, <3>2
  <2> QED
    BY <2>1, <2>2 DEF RivalInv
<1>12. CaptureInv'
  <2>1. \A o \in Operations : SpansOf(o)' = SpansOf(o)
    BY DEF SpansOf
  <2>2. \A o \in Operations : \A s \in SpansOf(o) : s \in Spans /\ span[s].kind # "none" /\ Kept(s)
    BY OperationConstants DEF SpansOf, MadeInv, MadeForInv, Quiet
  <2>3. \A o \in Operations : OneSpan(o)' = OneSpan(o) /\ (NoopSpans(o) => NoopSpans(o)')
    BY <2>1, <2>2 DEF OneSpan, NoopSpans, Kept
  <2>4. EfCommands \subseteq Operations /\ SqlCommands \subseteq Operations
    BY DEF Operations
  <2>5. ASSUME NEW c \in EfCommands, phase[c] = "ef"
        PROVE  /\ context[c].transaction = currentTransaction'[on[c]]
               /\ \A s \in SpansOf(c) : flag[s] = "EfCore" /\ (Made(s)' => table["EfCore"][c] = s)
    <3>1. on[c] \in Flows /\ Waits(on[c])
      <4>1. on[c] # None
        BY <2>5 DEF PhaseInv
      <4>2. on[c] \in Flows
        BY <2>4, <4>1 DEF ListenerTypeOK
      <4> QED
        BY <2>4, <4>2 DEF Waits
    <3>2. \A s \in SpansOf(c) : Made(s)' = Made(s)
      BY <2>2, <2>4 DEF Kept, Made
    <3> QED
      BY <2>5, <3>1, <3>2 DEF CaptureInv, Quiet
  <2> QED
    BY <2>1, <2>3, <2>4, <2>5 DEF CaptureInv
<1> QED
  BY <1>1, <1>3, <1>4, <1>5, <1>6, <1>7, <1>8, <1>9, <1>11, <1>12

LEMMA OpenSpanKeeps ==
    ASSUME InstrumentationInv, NEW f \in Flows, NEW s \in Spans, OpenSpan(f, s)
    PROVE  InstrumentationInv'
<1> USE SegmentConstants DEF InstrumentationInv
<1>1. PICK p \in Segments, internal \in BOOLEAN : p = Current(f) /\ StartSpan(f, s, p, internal)
  BY DEF OpenSpan, Current, SegmentInv, SegmentsTypeOK, Segments
<1>2. SegmentInv'
  BY <1>1, StartSpanKeeps
<1>3. StaysReal
  BY <1>1, StartKeepsReal
<1>4. p \in Spans => p = currentSpan[f] /\ Made(p)
  BY <1>1 DEF Current, SegmentInv, SegmentsTypeOK, Segments, MadeInv, ListenerInv
<1>5. /\ call[f] = Idle /\ span[s].kind = "none"
      /\ \A u \in Spans \ {s} : span'[u] = span[u]
      /\ span'[s].kind \in {"constructing", "real", "noop"}
      /\ span'[s].parentSpan # None => p \in Spans /\ span'[s].parentSpan = p
      /\ span'[s].kind = "noop" /\ span'[s].parentSpan # None => Kind(p) = "noop"
      /\ span'[s].kind = "constructing" =>
            currentSpan' = currentSpan /\ call' = [call EXCEPT ![f] = [at |-> "span", of |-> s]]
      /\ span'[s].kind # "constructing" =>
            currentSpan' = [currentSpan EXCEPT ![f] = s] /\ call' = call
      /\ UNCHANGED currentTransaction
  BY <1>1, SpanIsStarted
<1>6. \A u \in Spans \ {s} : Kept(u)
  BY <1>5 DEF Kept
<1>a. ~Rival(currentSpan[f])
  BY DEF OpenSpan, Free, Waits, ListenerInv, RivalInv, Operations
<1>7. Opened(s)
  <2>1. span'[s].kind = "constructing" => call'[f].at = "span" /\ call'[f].of = s
    BY <1>5 DEF SegmentInv, SegmentsTypeOK
  <2> QED
    BY <1>4, <1>5, <1>a, <2>1 DEF Opened, Kind
<1>8. ~Waits(f) /\ \A g \in Flows \ {f} : currentSpan'[g] = currentSpan[g] /\ call'[g] = call[g]
  BY <1>5 DEF OpenSpan, Free, SegmentInv, SegmentsTypeOK
<1>9. \A g \in Flows : currentSpan'[g] # None => Made(currentSpan[g])'
  <2>1. \A u \in Spans : Made(u) => Made(u)'
    BY <1>5 DEF Made
  <2>2. currentSpan'[f] = currentSpan[f] \/ (currentSpan'[f] = s /\ Made(s)')
    BY <1>5 DEF Made, SegmentInv, SegmentsTypeOK
  <2> QED
    BY <1>8, <2>1, <2>2 DEF MadeInv, ListenerInv, SegmentInv, SegmentsTypeOK
<1>b. \A g \in Flows : currentSpan'[g] = currentSpan[g] \/ ~Rival(currentSpan[g])'
  <2>1. flag'[s] = "None"
    BY <1>5 DEF OpenSpan, ListenerInv, MadeInv
  <2>2. currentSpan'[f] = currentSpan[f] \/ currentSpan'[f] = s
    BY <1>5 DEF SegmentInv, SegmentsTypeOK
  <2> QED
    BY <1>8, <2>1, <2>2 DEF Rival
<1>10. call[f].at # "span" /\ (call'[f].at = "span" => call'[f].of = s)
  BY <1>5 DEF Idle, SegmentInv, SegmentsTypeOK
<1>11. Quiet
  BY <1>b, <1>3, <1>5, <1>6, <1>7, <1>8, <1>9, <1>10 DEF Quiet
<1>12. stack' \in [Flows -> Seq(Spans)]
  BY DEF OpenSpan, ListenerInv, ListenerTypeOK
<1> QED
  BY <1>2, <1>11, <1>12, QuietKeeps DEF OpenSpan

LEMMA CloseSpanKeeps ==
    ASSUME InstrumentationInv, NEW f \in Flows, CloseSpan(f)
    PROVE  InstrumentationInv'
<1> USE SegmentConstants DEF InstrumentationInv
<1>1. PICK s \in Spans : EndSpan(f, s) \/ EndNoopSpan(f, s)
  BY DEF CloseSpan, ListenerInv, ListenerTypeOK
<1>2. SegmentInv'
  BY <1>1, EndSpanKeeps
<1>3. /\ \A u \in Spans \ {s} : span'[u] = span[u]
      /\ span'[s].ended /\ span'[s].kind = span[s].kind /\ span'[s].parentSpan = span[s].parentSpan
      /\ span'[s].transaction = span[s].transaction /\ span'[s].isDropped = span[s].isDropped
      /\ UNCHANGED <<tx, call, currentTransaction>>
      /\ currentSpan' = currentSpan \/ currentSpan' = [currentSpan EXCEPT ![f] = span[s].parentSpan]
  BY <1>1 DEF EndSpan, EndNoopSpan, RestoreParent, SegmentInv, SegmentsTypeOK, SpanObjects
<1>4. StaysReal
  BY <1>3 DEF StaysReal, ShouldBeSentToApmServer
<1>5. \A u \in Spans : Kept(u)
  BY <1>3 DEF Kept
<1>6. ~Waits(f) /\ \A g \in Flows \ {f} : currentSpan'[g] = currentSpan[g]
  BY <1>3 DEF CloseSpan, Free, SegmentInv, SegmentsTypeOK
<1>7. \A g \in Flows : currentSpan'[g] # None => Made(currentSpan[g])'
  <2>1. \A u \in Spans : Made(u) => Made(u)'
    BY <1>3 DEF Made
  <2>2. currentSpan'[f] = currentSpan[f] \/ currentSpan'[f] = span[s].parentSpan
    BY <1>3 DEF SegmentInv, SegmentsTypeOK
  <2>3. span[s].parentSpan \in Spans \cup {None}
    BY DEF SegmentInv, SegmentsTypeOK, SpanObjects
  <2> QED
    BY <1>6, <2>1, <2>2, <2>3 DEF MadeInv, ListenerInv, SegmentInv, SegmentsTypeOK
<1>a. \A g \in Flows : currentSpan'[g] = currentSpan[g] \/ ~Rival(currentSpan[g])'
  <2>1. currentSpan'[f] = currentSpan[f] \/ currentSpan'[f] = span[s].parentSpan
    BY <1>3 DEF SegmentInv, SegmentsTypeOK
  <2>2. span[s].parentSpan \in Spans \cup {None} /\ ~Rival(span[s].parentSpan)
    BY DEF SegmentInv, SegmentsTypeOK, SpanObjects, ListenerInv, RivalInv
  <2>3. \A u \in Spans : Rival(u)' = Rival(u)
    BY <1>3 DEF CloseSpan, Rival
  <2> QED
    BY <1>6, <2>1, <2>2, <2>3 DEF Rival
<1>8. Quiet
  BY <1>a, <1>3, <1>4, <1>5, <1>6, <1>7 DEF Quiet
<1>9. stack' \in [Flows -> Seq(Spans)]
  BY DEF CloseSpan, ListenerInv, ListenerTypeOK
<1> QED
  BY <1>2, <1>8, <1>9, QuietKeeps DEF CloseSpan

(* Transactions and forks: no span is touched. *)
LEMMA SpansStayQuiet ==
    ASSUME InstrumentationInv, NEW f \in Flows, UNCHANGED <<span, flag>>, StaysReal, ~Waits(f),
           call[f].at # "span", call'[f].at # "span",
           \A g \in Flows \ {f} : currentTransaction'[g] = currentTransaction[g],
           \A g \in Flows \ {f} : call'[g] = call[g] /\ currentSpan'[g] = currentSpan[g],
           currentSpan'[f] = currentSpan[f]
              \/ \E g \in Flows : currentSpan'[f] = currentSpan[g] /\ ~Rival(currentSpan[g])
    PROVE  Quiet
<1>1. \A u \in Spans : Kept(u)
  BY DEF Kept
<1>2. \A g \in Flows : currentSpan'[g] # None => Made(currentSpan[g])'
  BY DEF InstrumentationInv, ListenerInv, MadeInv, Made
<1>3. \A g \in Flows : currentSpan'[g] = currentSpan[g] \/ ~Rival(currentSpan[g])'
  BY DEF Rival
<1> QED
  BY <1>1, <1>2, <1>3 DEF Quiet

LEMMA TransactionStepKeeps ==
    ASSUME InstrumentationInv, NEW f \in Flows,
           \/ TransactionConstructed(f) \/ CloseTransaction(f)
           \/ \E t \in Transactions : BeginTransaction(f, t)
    PROVE  InstrumentationInv'
<1> USE SegmentConstants DEF InstrumentationInv
<1>1. ~Waits(f)
  BY OperationConstants DEF TransactionConstructed, StartTransactionInternal, CloseTransaction,
         BeginTransaction, Free, Waits, Idle, ListenerInv, PhaseInv
<1>2. SegmentInv' /\ UNCHANGED listenerVars /\ UNCHANGED <<span, currentSpan>>
  <2>1. CASE TransactionConstructed(f)
    BY <2>1, StartTransactionInternalKeeps DEF TransactionConstructed, StartTransactionInternal
  <2>2. CASE CloseTransaction(f)
    <3>1. currentTransaction[f] \in Transactions
      BY <2>2 DEF CloseTransaction, SegmentInv, SegmentsTypeOK
    <3> QED
      BY <2>2, <3>1, EndTransactionKeeps DEF CloseTransaction, EndTransaction
  <2>3. ASSUME NEW t \in Transactions, BeginTransaction(f, t)
        PROVE  SegmentInv' /\ UNCHANGED listenerVars /\ UNCHANGED <<span, currentSpan>>
    BY <2>3, StartTransactionKeeps DEF BeginTransaction, StartTransaction
  <2> QED
    BY <2>1, <2>2, <2>3
<1>3. /\ call[f].at # "span" /\ call'[f].at # "span"
      /\ \A g \in Flows \ {f} : call'[g] = call[g] /\ currentTransaction'[g] = currentTransaction[g]
  BY DEF TransactionConstructed, StartTransactionInternal, CloseTransaction, BeginTransaction,
         EndTransaction, StartTransaction, Idle, SegmentInv, SegmentsTypeOK
<1>4. \A t \in Transactions : tx[t].kind = "real" => tx'[t].isSampled = tx[t].isSampled
  <2>1. CASE TransactionConstructed(f)
    <3>1. PICK u \in Transactions, sampled \in BOOLEAN :
             /\ tx[u].kind = "constructing"
             /\ tx' = [tx EXCEPT ![u].kind = "real", ![u].config = config, ![u].isSampled = sampled]
      BY <2>1 DEF TransactionConstructed, StartTransactionInternal, SegmentInv, CallInv
    <3> QED
      BY <3>1 DEF SegmentInv, SegmentsTypeOK, TransactionObjects
  <2>2. CASE CloseTransaction(f)
    BY <2>2 DEF CloseTransaction, EndTransaction, SegmentInv, SegmentsTypeOK, TransactionObjects
  <2>3. ASSUME NEW u \in Transactions, BeginTransaction(f, u)
        PROVE  \A t \in Transactions : tx'[t].isSampled = tx[t].isSampled
    BY <2>3 DEF BeginTransaction, StartTransaction, SegmentInv, SegmentsTypeOK, TransactionObjects
  <2> QED
    BY <2>1, <2>2, <2>3
<1>5. StaysReal
  BY <1>2, <1>4 DEF StaysReal, ShouldBeSentToApmServer, SegmentInv, FamilyInv, Born
<1>6. Quiet
  BY <1>1, <1>2, <1>3, <1>5, SpansStayQuiet DEF listenerVars
<1> QED
  BY <1>2, <1>6, QuietKeeps DEF listenerVars, ListenerInv, ListenerTypeOK

LEMMA ForkFlowKeeps ==
    ASSUME InstrumentationInv, NEW f \in Flows, NEW g \in Flows, ForkFlow(f, g)
    PROVE  InstrumentationInv'
<1> USE SegmentConstants DEF InstrumentationInv
<1>1. SegmentInv'
  BY OtherStepKeeps DEF ForkFlow
<1>2. StaysReal
  BY DEF ForkFlow, Fork, StaysReal, ShouldBeSentToApmServer
<1>3. /\ ~Waits(g) /\ UNCHANGED <<span, call>> /\ call[g].at # "span"
      /\ currentSpan'[g] = currentSpan[f]
      /\ \A h \in Flows \ {g} : currentSpan'[h] = currentSpan[h] /\ currentTransaction'[h] = currentTransaction[h]
  BY DEF ForkFlow, Free, Fork, Idle, SegmentInv, SegmentsTypeOK
<1>a. ~Rival(currentSpan[f])
  BY DEF ForkFlow, Free, Waits, ListenerInv, RivalInv, Operations
<1>4. Quiet
  BY <1>2, <1>3, <1>a, SpansStayQuiet DEF ForkFlow, listenerVars
<1> QED
  BY <1>1, <1>4, QuietKeeps DEF ForkFlow, listenerVars, ListenerInv, ListenerTypeOK

-----------------------------------------------------------------------------
Tables == [Listeners -> [Operations -> Spans \cup {None}]]

LEMMA TableIsSet ==
    ASSUME table \in Tables, NEW l \in Listeners, NEW o \in Operations, NEW s \in Spans \cup {None},
           table' = [table EXCEPT ![l][o] = s]
    PROVE  /\ table' \in Tables /\ table'[l][o] = s
           /\ \A k \in Listeners, q \in Operations : k # l \/ q # o => table'[k][q] = table[k][q]
BY DEF Tables

LEMMA TableIsCleared ==
    ASSUME table \in Tables, NEW l \in Listeners, NEW o \in Operations,
           table' = [table EXCEPT ![l][o] = None]
    PROVE  /\ table' \in Tables /\ table'[l][o] = None
           /\ \A k \in Listeners, q \in Operations : k # l \/ q # o => table'[k][q] = table[k][q]
BY DEF Tables

LEMMA ContextIsSet ==
    ASSUME context \in [Operations -> Contexts], NEW o \in Operations, NEW t \in Transactions \cup {None},
           NEW s \in Spans \cup {None}, context' = [context EXCEPT ![o] = [transaction |-> t, span |-> s]]
    PROVE  /\ context' \in [Operations -> Contexts] /\ context'[o].span = s
           /\ context'[o].transaction = t
           /\ \A q \in Operations \ {o} : context'[q] = context[q]
BY DEF Contexts

LEMMA ContextIsCleared ==
    ASSUME context \in [Operations -> Contexts], NEW o \in Operations,
           context' = [context EXCEPT ![o].span = None]
    PROVE  /\ context' \in [Operations -> Contexts] /\ context'[o].span = None
           /\ context'[o].transaction = context[o].transaction
           /\ \A q \in Operations \ {o} : context'[q] = context[q]
BY DEF Contexts

(* A header names what is sent. *)
LEMMA HeaderIsKept ==
    ASSUME HeaderInv, StaysReal, SegmentInv', header \in [Requests -> Segments \cup {None}],
           \/ header' = header
           \/ \E r \in Requests, s \in Spans :
                 span'[s].kind = "real" /\ header' = [header EXCEPT ![r] = ReferenceId(s)']
    PROVE  HeaderInv' /\ header' \in [Requests -> Segments \cup {None}]
<1>1. CASE header' = header
  BY <1>1 DEF HeaderInv, StaysReal
<1>2. ASSUME NEW r \in Requests, NEW s \in Spans, span'[s].kind = "real",
             header' = [header EXCEPT ![r] = ReferenceId(s)']
      PROVE  HeaderInv' /\ header' \in [Requests -> Segments \cup {None}]
  <2>1. \/ ReferenceId(s)' \in Transactions
        \/ ReferenceId(s)' = s /\ ShouldBeSentToApmServer(s)'
    BY <1>2 DEF ReferenceId, SegmentInv, FamilyInv, Born
  <2>2. \A q \in Requests \ {r} : header'[q] = header[q]
    BY <1>2
  <2>3. header'[r] = ReferenceId(s)'
    BY <1>2
  <2>4. \A q \in Requests \ {r} : header'[q] # None =>
           \/ header'[q] \in Transactions
           \/ header'[q] \in Spans /\ span'[header[q]].kind = "real" /\ ShouldBeSentToApmServer(header[q])'
    BY <2>2 DEF HeaderInv, StaysReal
  <2> QED
    BY <1>2, <2>1, <2>2, <2>3, <2>4 DEF HeaderInv, Segments
<1> QED
  BY <1>1, <1>2

(* A constructor ends: at most one operation has a span in it. *)
LEMMA SpanConstructedKeeps ==
    ASSUME InstrumentationInv, NEW f \in Flows, SpanConstructed(f)
    PROVE  InstrumentationInv'
<1> USE SegmentConstants, OperationConstants DEF InstrumentationInv, ListenerInv
<1>0. SegmentInv' /\ StaysReal
  BY CountSpanKeeps, CountKeepsReal DEF SpanConstructed
<1>1. PICK s : s = call[f].of /\ s \in Spans
  BY DEF SpanConstructed
<1>2. /\ span[s].kind = "constructing" /\ call[f].at = "span"
      /\ \A u \in Spans \ {s} : span'[u] = span[u]
      /\ span'[s].kind = "real" /\ span'[s].ended = span[s].ended
      /\ span'[s].parentSpan = span[s].parentSpan
      /\ currentSpan' = [currentSpan EXCEPT ![f] = s]
      /\ call' = [call EXCEPT ![f] = Idle]
      /\ UNCHANGED <<phase, on, flag, madeFor, stack, currentTransaction>>
  BY <1>1, SpanIsCounted DEF SpanConstructed
<1>3. /\ currentSpan'[f] = s /\ call'[f] = Idle
      /\ \A g \in Flows \ {f} : currentSpan'[g] = currentSpan[g] /\ call'[g] = call[g] /\ call[g].of # s
  BY <1>1, <1>2 DEF SegmentInv, SegmentsTypeOK, CallInv, Segments
<1>4. PICK o \in Operations \cup {None} : o = madeFor[s]
  BY <1>1 DEF ListenerTypeOK
<1>5. o = None => UNCHANGED <<table, header, context>>
  BY <1>1, <1>4 DEF SpanConstructed, MadeForInv
<1>6. ASSUME o # None
      PROVE  /\ flag[s] \in Listeners /\ o \in Operations
             /\ table[flag[s]][o] = None /\ Active(flag[s], o)
             /\ flag[s] = "EfCore" => phase[o] = "ef"
             /\ flag[s] = "SqlClient" => table["EfCore"][o] = None
             /\ on[o] \in {f, None}
             /\ \A u \in Spans : u # s /\ span[u].kind = "constructing" => madeFor[u] # o
  BY <1>1, <1>2, <1>4, <1>6 DEF MadeForInv, ListenerTypeOK
<1>7. ASSUME o # None
      PROVE  /\ table' = [table EXCEPT ![flag[s]][o] = s]
             /\ context' = [context EXCEPT ![o] = [transaction |-> currentTransaction[f], span |-> s]]
             /\ header' = header \/ (o \in Requests /\ header' = [header EXCEPT ![o] = ReferenceId(s)'])
  BY <1>1, <1>3, <1>4, <1>6, <1>7 DEF SpanConstructed, Track, Copy, MadeForInv
<1>8. /\ table' \in Tables
      /\ \A k \in Listeners, q \in Operations : o = None \/ k # flag[s] \/ q # o => table'[k][q] = table[k][q]
      /\ o # None => table'[flag[s]][o] = s
  <2>0. table \in Tables
    BY DEF ListenerTypeOK, Tables
  <2>1. CASE o = None
    BY <1>5, <2>0, <2>1
  <2>2. CASE o # None
    BY <1>1, <1>6, <1>7, <2>0, <2>2, TableIsSet
  <2> QED
    BY <2>1, <2>2
<1>9. /\ context' \in [Operations -> Contexts]
      /\ \A q \in Operations : o = None \/ q # o => context'[q] = context[q]
      /\ o # None => context'[o].span = s /\ context'[o].transaction = currentTransaction[f]
  <2>0. context \in [Operations -> Contexts] /\ currentTransaction[f] \in Transactions \cup {None}
    BY DEF ListenerTypeOK, SegmentInv, SegmentsTypeOK
  <2>1. CASE o = None
    BY <1>5, <2>0, <2>1
  <2>2. CASE o # None
    BY <1>1, <1>6, <1>7, <2>0, <2>2, ContextIsSet
  <2> QED
    BY <2>1, <2>2
<1>10. HeaderInv' /\ header' \in [Requests -> Segments \cup {None}]
  <2>1. header' = header \/ \E r \in Requests, u \in Spans :
           span'[u].kind = "real" /\ header' = [header EXCEPT ![r] = ReferenceId(u)']
    BY <1>1, <1>2, <1>5, <1>7
  <2> QED
    BY <1>0, <2>1, HeaderIsKept DEF ListenerTypeOK
<1>11. ListenerTypeOK'
  BY <1>2, <1>8, <1>9, <1>10 DEF ListenerTypeOK, Tables
<1>12. \A u \in Spans : /\ Made(u) => u # s /\ Made(u)' /\ span'[u].kind = span[u].kind
                        /\ Made(u)' => Made(u) \/ u = s
                        /\ span'[u].parentSpan = span[u].parentSpan /\ span'[u].ended = span[u].ended
                        /\ span'[u].kind = "constructing" => u # s /\ span[u].kind = "constructing"
                        /\ span'[u].kind = "noop" => u # s /\ span[u].kind = "noop"
                        /\ span'[u].kind = "none" => u # s /\ span[u].kind = "none"
  BY <1>1, <1>2 DEF Made
<1>13. Made(s)'
  BY <1>2 DEF Made
<1>14. MadeInv'
  <2>1. \A g \in Flows : currentSpan'[g] # None => Made(currentSpan[g])'
    BY <1>3, <1>12, <1>13 DEF MadeInv, SegmentInv, SegmentsTypeOK
  <2>2. \A q \in Operations : context'[q].span # None => Made(context[q].span)'
    BY <1>9, <1>12, <1>13 DEF MadeInv, ListenerTypeOK, Contexts
  <2>3. \A u \in Spans : span'[u].parentSpan # None =>
          /\ Made(span[u].parentSpan)'
          /\ span'[u].kind = "noop" => span'[span'[u].parentSpan].kind = "noop"
    BY <1>12 DEF MadeInv, SegmentInv, SegmentsTypeOK, SpanObjects
  <2>4. \A u \in Spans : span'[u].kind = "none" => span'[u].parentSpan = None /\ flag'[u] = "None"
    BY <1>2, <1>12 DEF MadeInv
  <2>5. \A u \in Spans : span'[u].kind = "constructing" => \E g \in Flows : call'[g].at = "span" /\ call'[g].of = u
    BY <1>1, <1>3, <1>12 DEF MadeInv
  <2> QED
    BY <2>1, <2>2, <2>3, <2>4, <2>5 DEF MadeInv
<1>15. PhaseInv'
  <2>1. \A q \in Operations : Phased(q)'
    BY <1>2 DEF PhaseInv, Phased
  <2>2. \A q \in Operations : on[q] # None => on[q] \in Flows /\ (call'[on[q]] = Idle \/ call'[on[q]] = call[on[q]])
    BY <1>3 DEF ListenerTypeOK
  <2> QED
    BY <1>2, <2>1, <2>2 DEF PhaseInv
<1>16. TableInv'
  <2>1. ASSUME NEW k \in Listeners, NEW q \in Operations, table'[k][q] # None
        PROVE  Active(k, q)' /\ flag'[table'[k][q]] = k /\ madeFor'[table'[k][q]] = q /\ Made(table[k][q])'
    <3>1. CASE o = None \/ k # flag[s] \/ q # o
      BY <1>2, <1>8, <1>12, <2>1, <3>1 DEF TableInv, Active, ListenerTypeOK
    <3>2. CASE o # None /\ k = flag[s] /\ q = o
      BY <1>2, <1>4, <1>6, <1>8, <1>13, <3>2 DEF Active
    <3> QED
      BY <3>1, <3>2
  <2> QED
    BY <2>1 DEF TableInv
<1>17. MadeForInv'
  <2>1. \A u \in Spans : (flag'[u] = "None") <=> (madeFor'[u] = None)
    BY <1>2 DEF MadeForInv
  <2>2. ASSUME NEW u \in Spans, madeFor'[u] # None, Made(u)'
        PROVE  span'[u].ended \/ table'[flag'[u]][madeFor'[u]] = u
    <3>1. CASE u = s
      BY <1>2, <1>4, <1>8, <2>2, <3>1
    <3>2. CASE u # s
      <4>1. span[u].ended \/ table[flag[u]][madeFor[u]] = u
        BY <1>2, <1>12, <2>2, <3>2 DEF MadeForInv
      <4>2. flag[u] \in Listeners /\ madeFor[u] \in Operations
        BY <1>2, <2>2 DEF MadeForInv, ListenerTypeOK
      <4>3. table[flag[u]][madeFor[u]] = u => o = None \/ flag[u] # flag[s] \/ madeFor[u] # o
        BY <1>6 DEF Segments
      <4> QED
        BY <1>2, <1>8, <1>12, <4>1, <4>2, <4>3
    <3> QED
      BY <3>1, <3>2
  <2>3. ASSUME NEW u \in Spans, madeFor'[u] # None, span'[u].kind = "constructing"
        PROVE  /\ Active(flag[u], madeFor[u])' /\ table'[flag'[u]][madeFor'[u]] = None
               /\ flag'[u] = "EfCore" => phase'[madeFor'[u]] = "ef"
               /\ flag'[u] = "SqlClient" => table'["EfCore"][madeFor'[u]] = None
               /\ \A g \in Flows : call'[g].at = "span" /\ call'[g].of = u => on'[madeFor'[u]] \in {g, None}
               /\ \A v \in Spans : v # u /\ span'[v].kind = "constructing" => madeFor'[v] # madeFor'[u]
    <3>1. span[u].kind = "constructing" /\ u # s
      BY <1>12, <2>3
    <3>2. flag[u] \in Listeners /\ madeFor[u] \in Operations
      BY <1>2, <2>3 DEF MadeForInv, ListenerTypeOK
    <3>3. o = None \/ madeFor[u] # o
      BY <1>6, <3>1
    <3>4. \A k \in Listeners : table'[k][madeFor[u]] = table[k][madeFor[u]]
      BY <1>8, <3>2, <3>3
    <3>5. \A g \in Flows : call'[g].at = "span" => call'[g] = call[g]
      BY <1>3 DEF Idle
    <3>6. /\ Active(flag[u], madeFor[u]) /\ table[flag[u]][madeFor[u]] = None
          /\ flag[u] = "EfCore" => phase[madeFor[u]] = "ef"
          /\ flag[u] = "SqlClient" => table["EfCore"][madeFor[u]] = None
          /\ \A g \in Flows : call[g].at = "span" /\ call[g].of = u => on[madeFor[u]] \in {g, None}
          /\ \A v \in Spans : v # u /\ span[v].kind = "constructing" => madeFor[v] # madeFor[u]
      BY <1>2, <2>3, <3>1 DEF MadeForInv
    <3> QED
      BY <1>2, <1>12, <3>2, <3>4, <3>5, <3>6 DEF Active, Listeners
  <2> QED
    BY <2>1, <2>2, <2>3 DEF MadeForInv
<1>18. \A q \in Operations : on[q] # None /\ q # o => on[q] \in Flows /\ currentSpan'[on[q]] = currentSpan[on[q]]
  BY <1>1, <1>2, <1>3, <1>4 DEF PhaseInv, ListenerTypeOK, Idle
<1>19. WaitInv'
  <2>1. ASSUME NEW q \in Operations, table'["SqlClient"][q] # None
        PROVE  /\ context'[q].span = table'["SqlClient"][q]
               /\ on'[q] # None => currentSpan'[on'[q]] = table'["SqlClient"][q]
    <3>1. CASE q # o
      BY <1>2, <1>8, <1>9, <1>18, <2>1, <3>1 DEF WaitInv, Listeners
    <3>2. CASE q = o /\ flag[s] = "SqlClient"
      BY <1>2, <1>3, <1>6, <1>8, <1>9, <3>2
    <3>3. CASE q = o /\ flag[s] # "SqlClient"
      <4>1. table["SqlClient"][q] # None /\ Active(flag[s], q)
        BY <1>6, <1>8, <2>1, <3>3 DEF Listeners
      <4>2. phase[q] = "sql" /\ (flag[s] = "EfCore" => phase[q] = "ef")
        BY <1>6, <3>3, <4>1 DEF TableInv, Active, Listeners
      <4> QED
        BY <1>6, <3>3, <4>1, <4>2 DEF Active, Listeners
    <3> QED
      BY <3>1, <3>2, <3>3
  <2>2. ASSUME NEW c \in EfCommands, table'["EfCore"][c] # None
        PROVE  /\ Calm(currentSpan[on[c]])'
               /\ phase'[c] = "ef" => currentSpan'[on'[c]] = table'["EfCore"][c]
               /\ table'["SqlClient"][c] # None => span'[table'["SqlClient"][c]].kind = "noop"
    <3>0. c \in Operations
      BY DEF Operations
    <3>1. CASE c # o
      <4>1. /\ table'["EfCore"][c] = table["EfCore"][c] /\ table'["SqlClient"][c] = table["SqlClient"][c]
        BY <1>8, <3>0, <3>1 DEF Listeners
      <4>2. on[c] \in Flows /\ currentSpan'[on[c]] = currentSpan[on[c]]
        BY <1>18, <2>2, <3>0, <3>1, <4>1 DEF TableInv, PhaseInv, Active, Listeners
      <4>3. /\ Calm(currentSpan[on[c]])
            /\ phase[c] = "ef" => currentSpan[on[c]] = table["EfCore"][c]
            /\ table["SqlClient"][c] # None => span[table["SqlClient"][c]].kind = "noop"
        BY <2>2, <4>1 DEF WaitInv
      <4>4. Calm(currentSpan[on[c]])'
        <5>1. currentSpan[on[c]] \in Spans \cup {None}
          BY <4>2 DEF SegmentInv, SegmentsTypeOK
        <5> QED
          BY <1>2, <1>12, <4>2, <4>3, <5>1 DEF Calm, Made
      <4>5. table["SqlClient"][c] \in Spans \cup {None}
        BY <3>0 DEF ListenerTypeOK, Listeners
      <4> QED
        BY <1>2, <1>12, <4>1, <4>2, <4>3, <4>4, <4>5 DEF Made
    <3>2. CASE c = o /\ flag[s] = "EfCore"
      <4>1. phase[c] = "ef" /\ on[c] = f
        BY <1>6, <3>0, <3>2 DEF PhaseInv
      <4>2. table'["EfCore"][c] = s /\ table'["SqlClient"][c] = table["SqlClient"][c]
        BY <1>8, <3>0, <3>2 DEF Listeners
      <4>3. table["SqlClient"][c] = None
        BY <3>0, <4>1 DEF TableInv, Active, Listeners
      <4> QED
        BY <1>2, <1>3, <3>2, <4>1, <4>2, <4>3 DEF Calm
    <3>3. CASE c = o /\ flag[s] = "SqlClient"
      BY <1>6, <1>8, <2>2, <3>0, <3>3 DEF Listeners
    <3>4. CASE c = o /\ flag[s] = "HttpClient"
      BY <1>6, <3>0, <3>4 DEF Active, PhaseInv, Phased
    <3> QED
      BY <1>6, <3>0, <3>1, <3>2, <3>3, <3>4 DEF Listeners
  <2> QED
    BY <2>1, <2>2 DEF WaitInv
<1>20. BlameInv'
  <2>1. \A g \in Flows : call'[g].at = "span" => g # f /\ call'[g] = call[g]
    BY <1>3 DEF Idle
  <2>2. ASSUME NEW r \in Requests, table'["HttpClient"][r] # None
        PROVE  context'[r].transaction # None
    <3>0. r \in Operations /\ "HttpClient" \in Listeners
      BY DEF Operations, Listeners
    <3>1. CASE r = o
      BY <1>1, <1>2, <1>4, <1>9, <3>0, <3>1 DEF BlameInv
    <3>2. CASE r # o
      BY <1>8, <1>9, <2>2, <3>0, <3>2 DEF BlameInv
    <3> QED
      BY <3>1, <3>2
  <2> QED
    BY <1>2, <2>1, <2>2 DEF BlameInv
<1>21. \A u \in Spans \ {s} : Rival(u)' = Rival(u)
  BY <1>2 DEF Rival
<1>22. ASSUME flag[s] = "EfCore"
       PROVE  o \in EfCommands /\ on[o] = f /\ table'["EfCore"][o] = s
  <2>1. o # None
    BY <1>1, <1>4, <1>22 DEF MadeForInv
  <2>2. o \in EfCommands /\ phase[o] = "ef"
    BY <1>6, <1>22, <2>1 DEF Active
  <2> QED
    BY <1>6, <1>8, <1>22, <2>1, <2>2 DEF PhaseInv
<1>23. RivalInv'
  <2>1. ASSUME NEW g \in Flows, Rival(currentSpan[g])'
        PROVE  \E c \in EfCommands : on'[c] = g /\ table'["EfCore"][c] = currentSpan'[g]
    <3>1. CASE g = f
      BY <1>2, <1>3, <1>22, <2>1, <3>1 DEF Rival
    <3>2. CASE g # f
      <4>1. currentSpan'[g] = currentSpan[g] /\ currentSpan[g] \in Spans \ {s}
        BY <1>2, <1>3, <2>1, <3>2 DEF Rival, MadeInv, Made, SegmentInv, SegmentsTypeOK
      <4>2. PICK c \in EfCommands : on[c] = g /\ table["EfCore"][c] = currentSpan[g]
        BY <1>21, <2>1, <4>1 DEF RivalInv
      <4>3. c \in Operations /\ "EfCore" \in Listeners
        BY DEF Operations, Listeners
      <4>4. table'["EfCore"][c] = table["EfCore"][c]
        BY <1>8, <1>22, <3>2, <4>2, <4>3
      <4> QED
        BY <1>2, <4>1, <4>2, <4>4
    <3> QED
      BY <3>1, <3>2
  <2>2. ASSUME NEW u \in Spans, span'[u].parentSpan # None PROVE ~Rival(span[u].parentSpan)'
    <3>1. span'[u].parentSpan = span[u].parentSpan
      BY <1>12
    <3>2. span[u].parentSpan \in Spans \ {s}
      BY <1>2, <2>2, <3>1 DEF MadeInv, Made, SegmentInv, SegmentsTypeOK, SpanObjects
    <3> QED
      BY <1>21, <3>1, <3>2 DEF RivalInv
  <2>3. \A u \in Spans : span'[u].parentSpan = None => ~Rival(span[u].parentSpan)'
    BY DEF Rival
  <2> QED
    BY <2>1, <2>2, <2>3 DEF RivalInv
<1>24. CaptureInv'
  <2>0. /\ \A c \in EfCommands \cup SqlCommands : c \in Operations
        /\ "EfCore" \in Listeners
    BY DEF Operations, Listeners
  <2>1. \A q \in Operations : SpansOf(q)' = SpansOf(q) /\ OneSpan(q)' = OneSpan(q)
    BY <1>2 DEF SpansOf, OneSpan
  <2>2. \A q \in Operations : NoopSpans(q) => NoopSpans(q)'
    BY <1>2, <2>1 DEF NoopSpans, SpansOf
  <2>3. ASSUME NEW c \in EfCommands \cup SqlCommands
        PROVE  (context'[c].transaction = None) <=> (context[c].transaction = None)
    <3>1. CASE c # o
      BY <1>9, <2>0, <3>1
    <3>2. CASE c = o
      <4>1. context'[c].transaction # None
        BY <1>1, <1>2, <1>4, <1>9, <2>0, <3>2 DEF BlameInv
      <4>2. s \in SpansOf(c)
        BY <1>1, <1>4, <3>2 DEF SpansOf
      <4> QED
        BY <4>1, <4>2 DEF CaptureInv
    <3> QED
      BY <3>1, <3>2
  <2>4. ASSUME NEW c \in EfCommands, phase[c] = "ef"
        PROVE  /\ context'[c].transaction = currentTransaction'[on'[c]]
               /\ \A u \in SpansOf(c) : flag'[u] = "EfCore" /\ (Made(u)' => table'["EfCore"][c] = u)
    <3>1. context'[c].transaction = currentTransaction'[on'[c]]
      <4>1. CASE c # o
        BY <1>2, <1>9, <2>0, <2>4, <4>1 DEF CaptureInv
      <4>2. CASE c = o
        <5>1. on[c] # None
          BY <2>4 DEF PhaseInv
        <5>2. on[c] = f
          BY <1>6, <2>0, <4>2, <5>1
        <5> QED
          BY <1>2, <1>9, <2>0, <4>2, <5>2
      <4> QED
        BY <4>1, <4>2
    <3>2. ASSUME NEW u \in SpansOf(c)
          PROVE  flag'[u] = "EfCore" /\ (Made(u)' => table'["EfCore"][c] = u)
      <4>1. u \in Spans /\ madeFor[u] = c /\ flag[u] = "EfCore" /\ (Made(u) => table["EfCore"][c] = u)
        BY <2>4 DEF CaptureInv, SpansOf
      <4>2. CASE u = s
        BY <1>2, <1>4, <1>22, <4>1, <4>2
      <4>3. CASE u # s
        <5>1. Made(u)' => table["EfCore"][c] = u /\ u # None
          BY <1>12, <4>1, <4>3 DEF Segments
        <5>2. table["EfCore"][c] = u /\ u # None => table'["EfCore"][c] = u
          BY <1>6, <1>8, <2>0
        <5> QED
          BY <1>2, <4>1, <5>1, <5>2
      <4> QED
        BY <4>2, <4>3
    <3> QED
      BY <3>1, <3>2
  <2>5. \A c \in EfCommands \cup SqlCommands :
          /\ phase'[c] = "new" => SpansOf(c)' = {}
          /\ context'[c].transaction = None => SpansOf(c)' = {}
          /\ phase'[c] \notin {"new", "ef"} /\ context'[c].transaction # None => OneSpan(c)' \/ NoopSpans(c)'
    BY <1>2, <2>0, <2>1, <2>2, <2>3 DEF CaptureInv
  <2>6. \A c \in EfCommands : phase'[c] = "ef" =>
          /\ context'[c].transaction = currentTransaction'[on'[c]]
          /\ SpansOf(c)' # {} => OneSpan(c)'
          /\ \A u \in SpansOf(c)' : flag'[u] = "EfCore" /\ (Made(u)' => table'["EfCore"][c] = u)
    BY <1>2, <2>0, <2>1, <2>4 DEF CaptureInv
  <2> QED
    BY <2>5, <2>6 DEF CaptureInv
<1> QED
  BY <1>0, <1>10, <1>11, <1>14, <1>15, <1>16, <1>17, <1>19, <1>20, <1>23, <1>24

-----------------------------------------------------------------------------
(* Start events.  The operation is new, or EF Core passes its command on   *)
(* to SqlClient.                                                           *)
Begins(f, l, o) ==
    /\ Free(f) /\ phase[o] \in {"new", "done"} /\ (o \notin Requests => phase[o] = "new")
    /\ on' = [on EXCEPT ![o] = f] \/ on' = on
    /\ \/ o \in Requests /\ l = "HttpClient" /\ phase' = [phase EXCEPT ![o] = "sent"]
       \/ o \in SqlCommands /\ l = "SqlClient" /\ phase' = [phase EXCEPT ![o] = "sql"]
       \/ /\ o \in EfCommands /\ l = "EfCore" /\ phase' = [phase EXCEPT ![o] = "ef"]
          /\ on' = [on EXCEPT ![o] = f]

PassesOn(f, l, o) ==
    /\ o \in EfCommands /\ l = "SqlClient" /\ on[o] = f /\ call[f] = Idle /\ UNCHANGED on
    /\ phase[o] = "ef" /\ phase' = [phase EXCEPT ![o] = "sql"]

(* What both have in common. *)
Starting(f, l, o) ==
    /\ call[f] = Idle /\ table[l][o] = None /\ Active(l, o)'
    /\ \A k \in Listeners, q \in Operations : Active(k, q) => Active(k, q)'
    /\ \A k \in Listeners : table[k][o] # None =>
          /\ k = "EfCore" /\ l = "SqlClient" /\ phase'[o] = "sql"
          /\ currentSpan[f] = table["EfCore"][o]
    /\ \A s \in Spans : madeFor[s] = o => span[s].kind # "constructing"
    /\ l = "EfCore" => phase'[o] = "ef"
    /\ phase' \in [Operations -> Phases] /\ Phased(o)' /\ phase'[o] \notin {"new", "done"}
    /\ on' \in [Operations -> Flows \cup {None}] /\ on'[o] \in {f, None}
    /\ o \in EfCommands => on'[o] = f
    /\ \A q \in Operations \ {o} : phase'[q] = phase[q] /\ on'[q] = on[q] /\ on[q] # f
    /\ \/ on[o] = None /\ (o \notin Requests => SpansOf(o) = {})
       \/ on[o] = f /\ o \in EfCommands /\ phase[o] = "ef" /\ l = "SqlClient"

LEMMA BeginsIsStarting ==
    ASSUME InstrumentationInv, NEW f \in Flows, NEW l \in Listeners, NEW o \in Operations,
           Begins(f, l, o)
    PROVE  Starting(f, l, o)
<1> USE SegmentConstants, OperationConstants DEF InstrumentationInv, ListenerInv
<1>1. \A k \in Listeners : ~Active(k, o)
  BY DEF Begins, Active
<1>2. \A k \in Listeners : table[k][o] = None
  BY <1>1 DEF TableInv
<1>3. \A s \in Spans : madeFor[s] = o => span[s].kind # "constructing"
  BY <1>1 DEF MadeForInv, ListenerTypeOK, Operations
<1>4. call[f] = Idle /\ \A q \in Operations : on[q] # f
  BY DEF Begins, Free, Waits
<1>5. on[o] = None
  BY DEF Begins, PhaseInv, ListenerTypeOK
<1>6. /\ on' \in [Operations -> Flows \cup {None}] /\ on'[o] \in {f, None}
      /\ \A q \in Operations \ {o} : on'[q] = on[q]
      /\ o \in EfCommands => on'[o] = f
  BY <1>5 DEF Begins, ListenerTypeOK
<1>7. /\ phase' \in [Operations -> Phases]
      /\ \A q \in Operations \ {o} : phase'[q] = phase[q]
      /\ \/ o \in Requests /\ l = "HttpClient" /\ phase'[o] = "sent"
         \/ o \in SqlCommands /\ l = "SqlClient" /\ phase'[o] = "sql"
         \/ o \in EfCommands /\ l = "EfCore" /\ phase'[o] = "ef"
  BY DEF Begins, ListenerTypeOK, Phases
<1>8. Active(l, o)' /\ \A k \in Listeners, q \in Operations : Active(k, q) => Active(k, q)'
  BY <1>1, <1>7 DEF Active
<1>9. Phased(o)'
  BY <1>7 DEF Phased
<1>10. o \notin Requests => SpansOf(o) = {}
  BY DEF Begins, CaptureInv, Operations
<1> QED
  BY <1>2, <1>3, <1>4, <1>5, <1>6, <1>7, <1>8, <1>9, <1>10 DEF Starting

LEMMA PassesOnIsStarting ==
    ASSUME InstrumentationInv, NEW f \in Flows, NEW l \in Listeners, NEW o \in Operations,
           PassesOn(f, l, o)
    PROVE  Starting(f, l, o)
<1> USE SegmentConstants, OperationConstants DEF InstrumentationInv, ListenerInv
<1>1. \A k \in Listeners : Active(k, o) <=> k = "EfCore"
  BY DEF PassesOn, Active, Listeners
<1>2. \A k \in Listeners : table[k][o] # None => k = "EfCore" /\ currentSpan[f] = table["EfCore"][o]
  BY <1>1 DEF PassesOn, TableInv, WaitInv
<1>3. ASSUME NEW s \in Spans, madeFor[s] = o, span[s].kind = "constructing" PROVE FALSE
  <2>1. PICK g \in Flows : call[g].at = "span" /\ call[g].of = s
    BY <1>3 DEF MadeInv
  <2>2. on[o] \in {g, None}
    BY <1>3, <2>1 DEF MadeForInv, Operations
  <2> QED
    BY <2>1, <2>2 DEF PassesOn, Idle
<1>4. \A q \in Operations \ {o} : on[q] # f
  BY DEF PassesOn, PhaseInv
<1>5. /\ phase' \in [Operations -> Phases] /\ phase'[o] = "sql"
      /\ \A q \in Operations \ {o} : phase'[q] = phase[q]
  BY DEF PassesOn, ListenerTypeOK, Phases
<1>6. Active(l, o)' /\ \A k \in Listeners, q \in Operations : Active(k, q) => Active(k, q)'
  BY <1>1, <1>5 DEF PassesOn, Active
<1>7. Phased(o)'
  BY <1>5 DEF PassesOn, Phased
<1> QED
  BY <1>1, <1>2, <1>3, <1>4, <1>5, <1>6, <1>7 DEF Starting, PassesOn, ListenerTypeOK, Listeners

LEMMA CompetesIsKnown ==
    \A u : /\ ~Competes("HttpClient", u)
           /\ Competes("EfCore", u) <=> (u # None /\ span[u].kind = "real" /\ flag[u] = "SqlClient")
           /\ Competes("SqlClient", u) <=> (u # None /\ span[u].kind = "real" /\ flag[u] = "EfCore")
<1>1. Rivals("HttpClient") = {}
  BY Zenon DEF Rivals
<1>2. Rivals("EfCore") = {"SqlClient"}
  BY Zenon DEF Rivals
<1>3. Rivals("SqlClient") = {"EfCore"}
  BY Zenon DEF Rivals
<1> QED
  BY <1>1, <1>2, <1>3 DEF Competes

(* No span is made: the flow keeps its current span. *)
LEMMA IgnoredStartKeeps ==
    ASSUME InstrumentationInv, NEW f \in Flows, NEW l \in Listeners, NEW o \in Operations,
           Starting(f, l, o), IgnoreStart(f, l), UNCHANGED stack,
           context' = [context EXCEPT ![o] = Copy(f)]
    PROVE  InstrumentationInv'
<1> USE SegmentConstants, OperationConstants DEF InstrumentationInv, ListenerInv
<1>1. SegmentInv' /\ UNCHANGED <<tx, span, currentSpan, currentTransaction, call, flag, madeFor, table, header, stack>>
  BY OtherStepKeeps DEF vars, IgnoreStart
<1>2. /\ context' \in [Operations -> Contexts] /\ context'[o].span = currentSpan[f]
      /\ context'[o].transaction = currentTransaction[f]
      /\ \A q \in Operations \ {o} : context'[q] = context[q]
  <2>1. PICK t \in Transactions \cup {None}, u \in Spans \cup {None} :
           t = currentTransaction[f] /\ u = currentSpan[f]
    BY DEF SegmentInv, SegmentsTypeOK
  <2>2. context' = [context EXCEPT ![o] = [transaction |-> t, span |-> u]]
    BY <1>1, <2>1 DEF Copy
  <2>3. context \in [Operations -> Contexts]
    BY DEF ListenerTypeOK
  <2> HIDE DEF InstrumentationInv, ListenerInv
  <2> QED
    BY <2>1, <2>2, <2>3, ContextIsSet
<1>3. ListenerTypeOK'
  BY <1>1, <1>2 DEF ListenerTypeOK, Starting
<1>4. MadeInv'
  <2>1. \A q \in Operations : context'[q].span # None => Made(context[q].span)'
    BY <1>1, <1>2 DEF MadeInv, Made
  <2> QED
    BY <1>1, <2>1 DEF MadeInv, Made
<1>5. PhaseInv'
  <2>1. \A q \in Operations : Phased(q)'
    BY DEF PhaseInv, Starting, Phased
  <2>2. \A q \in Operations : on'[q] # None => phase'[q] \notin {"new", "done"}
    BY DEF PhaseInv, Starting
  <2>3. \A c \in EfCommands : phase'[c] \notin {"new", "done"} => on'[c] # None
    BY DEF PhaseInv, Starting, Operations
  <2>4. \A q, r \in Operations : on'[q] = on'[r] /\ on'[q] # None => q = r
    BY DEF PhaseInv, Starting
  <2>5. \A q \in Operations : on'[q] # None /\ call[on'[q]] # Idle =>
           call[on'[q]].at = "span" /\ madeFor[call[on'[q]].of] = q
    BY DEF PhaseInv, Starting
  <2> QED
    BY <1>1, <2>1, <2>2, <2>3, <2>4, <2>5 DEF PhaseInv
<1>6. TableInv'
  BY <1>1 DEF TableInv, Starting, Made
<1>7. MadeForInv'
  <2>1. \A s \in Spans : madeFor[s] # None /\ span[s].kind = "constructing" =>
           /\ flag[s] \in Listeners /\ madeFor[s] \in Operations \ {o}
           /\ phase'[madeFor[s]] = phase[madeFor[s]] /\ on'[madeFor[s]] = on[madeFor[s]]
    BY DEF Starting, ListenerTypeOK, MadeForInv
  <2> QED
    BY <1>1, <2>1 DEF MadeForInv, Made, Starting
<1>8. WaitInv'
  <2>1. ASSUME NEW q \in Operations, table["SqlClient"][q] # None
        PROVE  /\ context'[q].span = table["SqlClient"][q]
               /\ on'[q] # None => currentSpan'[on'[q]] = table["SqlClient"][q]
    <3>1. q # o
      BY <2>1 DEF Starting, Listeners
    <3> QED
      BY <1>1, <1>2, <2>1, <3>1 DEF WaitInv, Starting
  <2>2. ASSUME NEW c \in EfCommands, table["EfCore"][c] # None
        PROVE  /\ Calm(currentSpan[on[c]])'
               /\ phase'[c] = "ef" => currentSpan'[on'[c]] = table["EfCore"][c]
               /\ table["SqlClient"][c] # None => span'[table["SqlClient"][c]].kind = "noop"
    <3>0. c \in Operations /\ "EfCore" \in Listeners /\ "SqlClient" \in Listeners
      BY DEF Operations, Listeners
    <3>1. CASE c # o
      BY <1>1, <2>2, <3>0, <3>1 DEF WaitInv, Starting, Calm
    <3>2. CASE c = o
      <4>1. on'[c] = f /\ currentSpan[f] = table["EfCore"][c]
        BY <2>2, <3>0, <3>2 DEF Starting
      <4>2. flag[currentSpan[f]] = "EfCore" /\ table["SqlClient"][c] = None
        BY <2>2, <3>0, <3>2, <4>1 DEF TableInv, Starting
      <4> QED
        BY <1>1, <4>1, <4>2 DEF Calm
    <3> QED
      BY <3>1, <3>2
  <2> QED
    BY <1>1, <2>1, <2>2 DEF WaitInv
<1>9. HeaderInv'
  BY <1>1 DEF HeaderInv, ShouldBeSentToApmServer
<1>10. BlameInv'
  <2>1. \A r \in Requests : table["HttpClient"][r] # None => r # o /\ r \in Operations
    BY DEF Starting, Operations, Listeners
  <2> QED
    BY <1>1, <1>2, <2>1 DEF BlameInv
<1>11. \A u \in Spans \cup {None} : Rival(u)' = Rival(u)
  BY <1>1 DEF Rival
<1>12. RivalInv'
  <2>1. ASSUME NEW g \in Flows, Rival(currentSpan[g])'
        PROVE  \E c \in EfCommands : on'[c] = g /\ table'["EfCore"][c] = currentSpan'[g]
    <3>1. PICK c \in EfCommands : on[c] = g /\ table["EfCore"][c] = currentSpan[g]
      BY <1>1, <2>1 DEF Rival, RivalInv
    <3>2. on'[c] = on[c]
      BY <3>1 DEF Starting, Operations
    <3> QED
      BY <1>1, <3>1, <3>2
  <2>2. \A u \in Spans : ~Rival(span[u].parentSpan)'
    BY <1>1 DEF Rival, RivalInv
  <2> QED
    BY <2>1, <2>2 DEF RivalInv
<1>13. CaptureInv'
  <2>0. /\ \A c \in EfCommands \cup SqlCommands : c \in Operations
        /\ "EfCore" \in Listeners
    BY DEF Operations, Listeners
  <2>1. \A q \in Operations : /\ SpansOf(q)' = SpansOf(q) /\ OneSpan(q)' = OneSpan(q)
                              /\ NoopSpans(q)' = NoopSpans(q)
    BY <1>1 DEF SpansOf, OneSpan, NoopSpans
  <2>2. \A q \in Operations \ {o} : phase'[q] = phase[q] /\ on'[q] = on[q] /\ context'[q] = context[q]
    BY <1>2 DEF Starting
  <2>3. \A c \in (EfCommands \cup SqlCommands) \ {o} :
          /\ phase'[c] = "new" => SpansOf(c)' = {}
          /\ context'[c].transaction = None => SpansOf(c)' = {}
          /\ phase'[c] \notin {"new", "ef"} /\ context'[c].transaction # None => OneSpan(c)' \/ NoopSpans(c)'
    BY <2>0, <2>1, <2>2 DEF CaptureInv
  <2>4. \A c \in EfCommands \ {o} : phase'[c] = "ef" =>
          /\ context'[c].transaction = currentTransaction'[on'[c]]
          /\ SpansOf(c)' # {} => OneSpan(c)'
          /\ \A u \in SpansOf(c)' : flag'[u] = "EfCore" /\ (Made(u)' => table'["EfCore"][c] = u)
    BY <1>1, <2>0, <2>1, <2>2 DEF CaptureInv, Made
  <2>5. ASSUME o \in EfCommands \cup SqlCommands
        PROVE  /\ phase'[o] # "new"
               /\ context'[o].transaction = None => SpansOf(o) = {}
               /\ phase'[o] # "ef" /\ context'[o].transaction # None => OneSpan(o)
               /\ phase'[o] = "ef" => SpansOf(o) = {} /\ context'[o].transaction = currentTransaction'[on'[o]]
    <3>1. phase'[o] # "new" /\ l \in {"EfCore", "SqlClient"} /\ (l = "EfCore" <=> phase'[o] = "ef")
      BY <2>5 DEF Starting, Active, Phased, Listeners
    <3>2. o \notin Requests
      BY <2>5
    <3>3. CASE on[o] = None /\ SpansOf(o) = {}
      <4>1. \A q \in Operations : on[q] # f
        BY <3>3 DEF Starting
      <4>2. ~Rival(currentSpan[f])
        BY <2>0, <4>1 DEF RivalInv
      <4>3. l = "SqlClient" => ~Competes(l, currentSpan[f])
        BY <4>2, CompetesIsKnown DEF Rival
      <4>4. phase'[o] # "ef" => context'[o].transaction = None
        BY <1>2, <3>1, <4>3 DEF IgnoreStart
      <4>5. phase'[o] = "ef" => on'[o] = f
        BY <2>5, <3>1 DEF Starting, Active
      <4> QED
        BY <1>1, <1>2, <3>1, <3>3, <4>4, <4>5
    <3>4. CASE on[o] = f /\ o \in EfCommands /\ phase[o] = "ef" /\ l = "SqlClient"
      <4>1. context[o].transaction = currentTransaction[f]
        BY <3>4 DEF CaptureInv
      <4>2. context'[o].transaction = None => SpansOf(o) = {}
        BY <1>2, <3>4, <4>1 DEF CaptureInv
      <4>3. ASSUME context'[o].transaction # None PROVE OneSpan(o)
        <5>1. Rival(currentSpan[f])
          BY <1>2, <3>4, <4>3, CompetesIsKnown DEF IgnoreStart, Rival
        <5>2. PICK c \in EfCommands : on[c] = f /\ table["EfCore"][c] = currentSpan[f]
          BY <5>1 DEF RivalInv
        <5>3. c = o
          BY <2>0, <5>2 DEF Starting
        <5>4. currentSpan[f] \in Spans /\ madeFor[currentSpan[f]] = o
          BY <2>0, <5>1, <5>2, <5>3 DEF TableInv, Rival, ListenerTypeOK
        <5>5. currentSpan[f] \in SpansOf(o)
          BY <5>4 DEF SpansOf
        <5> QED
          BY <3>4, <5>5 DEF CaptureInv
      <4> QED
        BY <3>1, <3>4, <4>2, <4>3
    <3> QED
      BY <3>2, <3>3, <3>4 DEF Starting
  <2>6. o \in EfCommands \cup SqlCommands =>
          /\ phase'[o] = "new" => SpansOf(o)' = {}
          /\ context'[o].transaction = None => SpansOf(o)' = {}
          /\ phase'[o] \notin {"new", "ef"} /\ context'[o].transaction # None => OneSpan(o)' \/ NoopSpans(o)'
    BY <2>1, <2>5
  <2>7. o \in EfCommands /\ phase'[o] = "ef" =>
          /\ context'[o].transaction = currentTransaction'[on'[o]]
          /\ SpansOf(o)' # {} => OneSpan(o)'
          /\ \A u \in SpansOf(o)' : flag'[u] = "EfCore" /\ (Made(u)' => table'["EfCore"][o] = u)
    BY <2>1, <2>5
  <2> QED
    BY <2>3, <2>4, <2>6, <2>7 DEF CaptureInv
<1> QED
  BY <1>1, <1>3, <1>4, <1>5, <1>6, <1>7, <1>8, <1>9, <1>10, <1>12, <1>13

(* A span is made.  It is a NoopSpan when the flow's current span is one,  *)
(* so it is constructed later only if no other module has the operation.   *)
LEMMA MadeStartKeeps ==
    ASSUME InstrumentationInv, NEW f \in Flows, NEW l \in Listeners, NEW o \in Operations, NEW s \in Spans,
           Starting(f, l, o), MakeSpan(f, l, o, s), UNCHANGED stack,
           context' = [context EXCEPT ![o] = Copy(f)]
    PROVE  InstrumentationInv'
<1> USE SegmentConstants, OperationConstants DEF InstrumentationInv, ListenerInv
<1>1. PICK p \in Segments, internal \in BOOLEAN : p = Current(f) /\ StartSpan(f, s, p, internal)
  BY DEF MakeSpan, Current, SegmentInv, SegmentsTypeOK, Segments
<1>2. SegmentInv' /\ StaysReal
  BY <1>1, StartSpanKeeps, StartKeepsReal
<1>3. p \in Spans => p = currentSpan[f] /\ Made(p)
  BY <1>1 DEF Current, SegmentInv, SegmentsTypeOK, Segments, MadeInv
<1>4. /\ call[f] = Idle /\ span[s].kind = "none"
      /\ \A u \in Spans \ {s} : span'[u] = span[u]
      /\ span'[s].kind \in {"constructing", "real", "noop"}
      /\ span'[s].parentSpan # None => p \in Spans /\ span'[s].parentSpan = p
      /\ Kind(p) = "noop" => span'[s].kind = "noop"
      /\ span'[s].kind = "noop" /\ span'[s].parentSpan # None => Kind(p) = "noop"
      /\ span'[s].kind = "constructing" =>
            currentSpan' = currentSpan /\ call' = [call EXCEPT ![f] = [at |-> "span", of |-> s]]
      /\ span'[s].kind # "constructing" =>
            currentSpan' = [currentSpan EXCEPT ![f] = s] /\ call' = call
      /\ UNCHANGED currentTransaction
  BY <1>1, SpanIsStarted
<1>5. /\ \A g \in Flows \ {f} : currentSpan'[g] = currentSpan[g] /\ call'[g] = call[g]
      /\ span'[s].kind = "constructing" =>
            currentSpan'[f] = currentSpan[f] /\ call'[f].at = "span" /\ call'[f].of = s
      /\ span'[s].kind # "constructing" => currentSpan'[f] = s /\ call'[f] = Idle
  BY <1>4 DEF SegmentInv, SegmentsTypeOK
<1>6. /\ flag' = [flag EXCEPT ![s] = l] /\ madeFor' = [madeFor EXCEPT ![s] = o]
      /\ flag'[s] = l /\ madeFor'[s] = o /\ flag[s] = "None" /\ madeFor[s] = None
      /\ \A u \in Spans \ {s} : flag'[u] = flag[u] /\ madeFor'[u] = madeFor[u]
  BY <1>4 DEF MakeSpan, ListenerTypeOK, MadeInv, MadeForInv
<1>7. /\ span'[s].kind = "constructing" => UNCHANGED <<table, header>>
      /\ span'[s].kind # "constructing" =>
            /\ table' = [table EXCEPT ![l][o] = s]
            /\ \/ header' = header
               \/ o \in Requests /\ span'[s].kind = "real" /\ header' = [header EXCEPT ![o] = ReferenceId(s)']
  BY DEF MakeSpan, Track, Starting
<1>8. /\ table' \in Tables
      /\ \A k \in Listeners, q \in Operations : k # l \/ q # o => table'[k][q] = table[k][q]
      /\ span'[s].kind = "constructing" => table'[l][o] = None
      /\ span'[s].kind # "constructing" => table'[l][o] = s
  <2>0. table \in Tables
    BY DEF ListenerTypeOK, Tables
  <2>1. CASE span'[s].kind = "constructing"
    BY <1>7, <2>0, <2>1 DEF Starting
  <2>2. CASE span'[s].kind # "constructing"
    BY <1>7, <2>0, <2>2, TableIsSet
  <2> QED
    BY <2>1, <2>2
<1>9. /\ context' \in [Operations -> Contexts] /\ context'[o].span = currentSpan'[f]
      /\ context'[o].transaction = currentTransaction[f]
      /\ \A q \in Operations \ {o} : context'[q] = context[q]
  <2>1. currentTransaction[f] \in Transactions \cup {None} /\ currentSpan'[f] \in Spans \cup {None}
    BY <1>2 DEF SegmentInv, SegmentsTypeOK
  <2>2. PICK u \in Spans \cup {None} : u = currentSpan'[f]
    BY <2>1
  <2>3. context' = [context EXCEPT ![o] = [transaction |-> currentTransaction[f], span |-> u]]
    BY <2>2 DEF Copy
  <2> QED
    BY <2>1, <2>2, <2>3, ContextIsSet DEF ListenerTypeOK
<1>10. HeaderInv' /\ header' \in [Requests -> Segments \cup {None}]
  <2>1. header' = header \/ \E r \in Requests, u \in Spans :
           span'[u].kind = "real" /\ header' = [header EXCEPT ![r] = ReferenceId(u)']
    BY <1>7
  <2> QED
    BY <1>2, <2>1, HeaderIsKept DEF ListenerTypeOK
<1>11. ListenerTypeOK'
  BY <1>6, <1>8, <1>9, <1>10 DEF ListenerTypeOK, Tables, Starting
<1>12. \A u \in Spans : Made(u) => u # s /\ Made(u)' /\ span'[u].kind = span[u].kind
  BY <1>4 DEF Made
<1>13. span'[s].kind # "constructing" => Made(s)'
  BY <1>4 DEF Made
<1>14. currentSpan'[f] # None => currentSpan'[f] \in Spans /\ Made(currentSpan[f])'
  BY <1>5, <1>12, <1>13 DEF MadeInv, SegmentInv, SegmentsTypeOK
<1>15. MadeInv'
  <2>1. \A g \in Flows : currentSpan'[g] # None => Made(currentSpan[g])'
    BY <1>5, <1>12, <1>14 DEF MadeInv, SegmentInv, SegmentsTypeOK
  <2>2. \A q \in Operations : context'[q].span # None => Made(context[q].span)'
    <3>1. context'[o].span # None => Made(context[o].span)'
      BY <1>9, <1>14 DEF Made
    <3>2. \A q \in Operations \ {o} : context'[q].span # None => Made(context[q].span)'
      BY <1>9, <1>12 DEF MadeInv, ListenerTypeOK, Contexts
    <3> QED
      BY <3>1, <3>2
  <2>3. ASSUME NEW u \in Spans, span'[u].parentSpan # None
        PROVE  /\ Made(span[u].parentSpan)'
               /\ span'[u].kind = "noop" => span'[span'[u].parentSpan].kind = "noop"
    <3>1. CASE u = s
      BY <1>3, <1>4, <1>12, <2>3, <3>1 DEF Kind, Made
    <3>2. CASE u # s
      BY <1>4, <1>12, <2>3, <3>2 DEF MadeInv, SegmentInv, SegmentsTypeOK, SpanObjects
    <3> QED
      BY <3>1, <3>2
  <2>4. \A u \in Spans : span'[u].kind = "none" => span'[u].parentSpan = None /\ flag'[u] = "None"
    BY <1>4, <1>6 DEF MadeInv
  <2>5. ASSUME NEW u \in Spans, span'[u].kind = "constructing"
        PROVE  \E g \in Flows : call'[g].at = "span" /\ call'[g].of = u
    <3>1. CASE u = s
      BY <1>5, <2>5, <3>1
    <3>2. CASE u # s
      <4>1. PICK g \in Flows : call[g].at = "span" /\ call[g].of = u
        BY <1>4, <2>5, <3>2 DEF MadeInv
      <4>2. g # f
        BY <1>4, <4>1 DEF Idle
      <4> QED
        BY <1>5, <4>1, <4>2
    <3> QED
      BY <3>1, <3>2
  <2> QED
    BY <2>1, <2>2, <2>3, <2>4, <2>5 DEF MadeInv
<1>16. PhaseInv'
  <2>1. \A q \in Operations : Phased(q)'
    BY DEF PhaseInv, Starting, Phased
  <2>2. \A q \in Operations : on'[q] # None => phase'[q] \notin {"new", "done"}
    BY DEF PhaseInv, Starting
  <2>3. \A c \in EfCommands : phase'[c] \notin {"new", "done"} => on'[c] # None
    BY DEF PhaseInv, Starting, Operations
  <2>4. \A q, r \in Operations : on'[q] = on'[r] /\ on'[q] # None => q = r
    BY DEF PhaseInv, Starting
  <2>5. ASSUME NEW q \in Operations, on'[q] # None, call'[on'[q]] # Idle
        PROVE  call'[on'[q]].at = "span" /\ madeFor'[call'[on'[q]].of] = q
    <3>1. CASE q = o
      BY <1>5, <1>6, <2>5, <3>1 DEF Starting
    <3>2. CASE q # o
      <4>1. on'[q] = on[q] /\ on[q] \in Flows \ {f}
        BY <2>5, <3>2 DEF Starting, ListenerTypeOK
      <4>2. call[on[q]] # Idle /\ call[on[q]].at = "span" /\ madeFor[call[on[q]].of] = q
        BY <1>5, <2>5, <4>1 DEF PhaseInv
      <4>3. call[on[q]].of \in Spans \ {s}
        BY <1>4, <4>1, <4>2 DEF SegmentInv, CallInv
      <4> QED
        BY <1>5, <1>6, <4>1, <4>2, <4>3
    <3> QED
      BY <3>1, <3>2
  <2> QED
    BY <2>1, <2>2, <2>3, <2>4, <2>5 DEF PhaseInv
<1>17. TableInv'
  <2>1. ASSUME NEW k \in Listeners, NEW q \in Operations, table'[k][q] # None
        PROVE  Active(k, q)' /\ flag'[table'[k][q]] = k /\ madeFor'[table'[k][q]] = q /\ Made(table[k][q])'
    <3>1. CASE k # l \/ q # o
      <4>1. table'[k][q] = table[k][q] /\ table[k][q] \in Spans
        BY <1>8, <2>1, <3>1 DEF ListenerTypeOK
      <4>2. Active(k, q) /\ flag[table[k][q]] = k /\ madeFor[table[k][q]] = q /\ Made(table[k][q])
        BY <2>1, <4>1 DEF TableInv
      <4> QED
        BY <1>6, <1>12, <4>1, <4>2 DEF Starting
    <3>2. CASE k = l /\ q = o
      BY <1>6, <1>8, <1>13, <2>1, <3>2 DEF Starting
    <3> QED
      BY <3>1, <3>2
  <2> QED
    BY <2>1 DEF TableInv
<1>18. \A u \in Spans \ {s} : madeFor[u] # None =>
          flag[u] \in Listeners /\ madeFor[u] \in Operations
  BY DEF ListenerTypeOK, MadeForInv
<1>19. \A k \in Listeners : span'[s].kind = "constructing" => table[k][o] = None
  <2> SUFFICES ASSUME NEW k \in Listeners, span'[s].kind = "constructing", table[k][o] # None
               PROVE  FALSE
    OBVIOUS
  <2>1. k = "EfCore" /\ l = "SqlClient" /\ currentSpan[f] = table[k][o]
    BY DEF Starting
  <2>2. currentSpan[f] \in Spans /\ flag[currentSpan[f]] = "EfCore" /\ Made(currentSpan[f])
    BY <2>1 DEF TableInv, ListenerTypeOK
  <2>3. span[currentSpan[f]].kind = "noop"
    BY <2>1, <2>2, CompetesIsKnown DEF MakeSpan, Made
  <2>4. Kind(p) = "noop"
    BY <1>1, <2>2, <2>3 DEF Current, Kind, Segments
  <2> QED
    BY <1>4, <2>4
<1>20. MadeForInv'
  <2>1. \A u \in Spans : (flag'[u] = "None") <=> (madeFor'[u] = None)
    BY <1>6 DEF MadeForInv, Listeners
  <2>2. ASSUME NEW u \in Spans, madeFor'[u] # None, Made(u)'
        PROVE  span'[u].ended \/ table'[flag'[u]][madeFor'[u]] = u
    <3>1. CASE u = s
      BY <1>6, <1>8, <2>2, <3>1 DEF Made
    <3>2. CASE u # s
      <4>1. span[u].ended \/ table[flag[u]][madeFor[u]] = u
        BY <1>4, <1>6, <2>2, <3>2 DEF MadeForInv, Made
      <4>2. table[flag[u]][madeFor[u]] = u => flag[u] # l \/ madeFor[u] # o
        BY DEF Starting, Segments
      <4> QED
        BY <1>4, <1>6, <1>8, <1>18, <2>2, <3>2, <4>1, <4>2
    <3> QED
      BY <3>1, <3>2
  <2>3. ASSUME NEW u \in Spans, madeFor'[u] # None, span'[u].kind = "constructing"
        PROVE  /\ Active(flag[u], madeFor[u])' /\ table'[flag'[u]][madeFor'[u]] = None
               /\ flag'[u] = "EfCore" => phase'[madeFor'[u]] = "ef"
               /\ flag'[u] = "SqlClient" => table'["EfCore"][madeFor'[u]] = None
               /\ \A g \in Flows : call'[g].at = "span" /\ call'[g].of = u => on'[madeFor'[u]] \in {g, None}
               /\ \A v \in Spans : v # u /\ span'[v].kind = "constructing" => madeFor'[v] # madeFor'[u]
    <3>1. CASE u = s
      <4>1. \A v \in Spans : v # s /\ span'[v].kind = "constructing" => madeFor'[v] # o
        BY <1>4, <1>6 DEF Starting
      <4>2. \A g \in Flows : call'[g].at = "span" /\ call'[g].of = s => g = f
        <5>1. \A g \in Flows : call[g].at = "span" => call[g].of # s
          BY <1>4 DEF SegmentInv, CallInv
        <5> QED
          BY <1>5, <5>1
      <4>3. table'[l][o] = None /\ (l = "SqlClient" => table'["EfCore"][o] = None)
        BY <1>8, <1>19, <2>3, <3>1 DEF Listeners
      <4>4. Active(flag[u], madeFor[u])'
        BY <1>6, <3>1 DEF Starting, Active
      <4> QED
        BY <1>6, <3>1, <4>1, <4>2, <4>3, <4>4 DEF Starting
    <3>2. CASE u # s
      <4>1. span[u].kind = "constructing" /\ flag'[u] = flag[u] /\ madeFor'[u] = madeFor[u] /\ madeFor[u] # None
        BY <1>4, <1>6, <2>3, <3>2
      <4>2. madeFor[u] # o /\ flag[u] \in Listeners /\ madeFor[u] \in Operations
        BY <1>18, <3>2, <4>1 DEF Starting
      <4>3. /\ Active(flag[u], madeFor[u]) /\ table[flag[u]][madeFor[u]] = None
            /\ flag[u] = "EfCore" => phase[madeFor[u]] = "ef"
            /\ flag[u] = "SqlClient" => table["EfCore"][madeFor[u]] = None
            /\ \A g \in Flows : call[g].at = "span" /\ call[g].of = u => on[madeFor[u]] \in {g, None}
            /\ \A v \in Spans : v # u /\ span[v].kind = "constructing" => madeFor[v] # madeFor[u]
        BY <4>1 DEF MadeForInv
      <4>4. \A k \in Listeners : table'[k][madeFor[u]] = table[k][madeFor[u]]
        BY <1>8, <4>2
      <4>5. phase'[madeFor[u]] = phase[madeFor[u]] /\ on'[madeFor[u]] = on[madeFor[u]]
        BY <4>2 DEF Starting
      <4>6. Active(flag[u], madeFor[u])'
        BY <4>1, <4>2, <4>3, <4>5 DEF Active
      <4>7. \A g \in Flows : call'[g].at = "span" /\ call'[g].of = u => call[g].at = "span" /\ call[g].of = u
        BY <1>5, <3>2 DEF Idle
      <4>8. \A v \in Spans : v # u /\ span'[v].kind = "constructing" => madeFor'[v] # madeFor[u]
        BY <1>4, <1>6, <4>2, <4>3
      <4> QED
        BY <4>1, <4>2, <4>3, <4>4, <4>5, <4>6, <4>7, <4>8 DEF Listeners
    <3> QED
      BY <3>1, <3>2
  <2> QED
    BY <2>1, <2>2, <2>3 DEF MadeForInv
<1>21. WaitInv'
  <2>0. "EfCore" \in Listeners /\ "SqlClient" \in Listeners
    BY DEF Listeners
  <2>1. ASSUME NEW q \in Operations, table'["SqlClient"][q] # None
        PROVE  /\ context'[q].span = table'["SqlClient"][q]
               /\ on'[q] # None => currentSpan'[on'[q]] = table'["SqlClient"][q]
    <3>1. CASE q # o
      <4>1. /\ context[q].span = table["SqlClient"][q]
            /\ on[q] # None => currentSpan[on[q]] = table["SqlClient"][q]
        BY <1>8, <2>0, <2>1, <3>1 DEF WaitInv
      <4>2. on'[q] = on[q] /\ (on[q] # None => on[q] \in Flows \ {f})
        BY <3>1 DEF Starting, ListenerTypeOK
      <4> QED
        BY <1>5, <1>8, <1>9, <2>0, <3>1, <4>1, <4>2
    <3>2. CASE q = o
      <4>1. l = "SqlClient" /\ span'[s].kind # "constructing"
        BY <1>8, <2>0, <2>1, <3>2 DEF Starting
      <4> QED
        BY <1>5, <1>8, <1>9, <3>2, <4>1 DEF Starting
    <3> QED
      BY <3>1, <3>2
  <2>2. ASSUME NEW c \in EfCommands, table'["EfCore"][c] # None
        PROVE  /\ Calm(currentSpan[on[c]])'
               /\ phase'[c] = "ef" => currentSpan'[on'[c]] = table'["EfCore"][c]
               /\ table'["SqlClient"][c] # None => span'[table'["SqlClient"][c]].kind = "noop"
    <3>0. c \in Operations
      BY DEF Operations
    <3>1. CASE c # o
      <4>1. table'["EfCore"][c] = table["EfCore"][c] /\ table'["SqlClient"][c] = table["SqlClient"][c]
        BY <1>8, <2>0, <3>0, <3>1
      <4>2. /\ Calm(currentSpan[on[c]])
            /\ phase[c] = "ef" => currentSpan[on[c]] = table["EfCore"][c]
            /\ table["SqlClient"][c] # None => span[table["SqlClient"][c]].kind = "noop"
        BY <2>2, <4>1 DEF WaitInv
      <4>3. phase[c] \notin {"new", "done"}
        BY <2>0, <2>2, <3>0, <4>1 DEF TableInv, Active
      <4>4. on'[c] = on[c] /\ on[c] \in Flows \ {f} /\ phase'[c] = phase[c]
        BY <3>0, <3>1, <4>3 DEF Starting, PhaseInv, ListenerTypeOK
      <4>5. currentSpan[on[c]] \in Spans \cup {None} /\ currentSpan'[on[c]] = currentSpan[on[c]]
        BY <1>5, <4>4 DEF SegmentInv, SegmentsTypeOK
      <4>6. currentSpan[on[c]] # None =>
               /\ span'[currentSpan[on[c]]].kind = span[currentSpan[on[c]]].kind
               /\ flag'[currentSpan[on[c]]] = flag[currentSpan[on[c]]]
        BY <1>6, <1>12, <4>4, <4>5 DEF MadeInv
      <4>7. Calm(currentSpan[on[c]])'
        BY <4>2, <4>4, <4>5, <4>6 DEF Calm
      <4>8. table["SqlClient"][c] # None => span'[table["SqlClient"][c]].kind = "noop"
        BY <1>12, <2>0, <3>0, <4>2 DEF ListenerTypeOK, Made
      <4> QED
        BY <4>1, <4>2, <4>4, <4>5, <4>7, <4>8
    <3>2. CASE c = o /\ l = "EfCore"
      <4>1. span'[s].kind # "constructing" /\ table'["EfCore"][c] = s /\ on'[c] = f
        BY <1>8, <2>2, <3>2 DEF Starting
      <4>2. table'["SqlClient"][c] = None
        BY <1>8, <2>0, <3>0, <3>2 DEF Starting
      <4> QED
        BY <1>5, <1>6, <3>2, <4>1, <4>2 DEF Calm
    <3>3. CASE c = o /\ l # "EfCore"
      <4>1. table["EfCore"][c] # None /\ table'["EfCore"][c] = table["EfCore"][c]
        BY <1>8, <2>0, <2>2, <3>0, <3>3
      <4>2. l = "SqlClient" /\ phase'[c] = "sql" /\ on'[c] = f
        BY <2>0, <3>3, <4>1 DEF Starting
      <4>3. span'[s].kind # "constructing"
        BY <1>19, <2>0, <3>3, <4>1
      <4>4. span'[s].kind = "noop"
        <5>1. currentSpan[f] = table["EfCore"][c] /\ currentSpan[f] \in Spans
          BY <2>0, <3>3, <4>1 DEF Starting, ListenerTypeOK
        <5>2. flag[currentSpan[f]] = "EfCore" /\ Made(currentSpan[f])
          BY <2>0, <3>0, <4>1, <5>1 DEF TableInv
        <5>3. span[currentSpan[f]].kind = "noop"
          BY <4>2, <5>1, <5>2, CompetesIsKnown DEF MakeSpan, Made, Segments
        <5>4. Kind(p) = "noop"
          BY <1>1, <5>1, <5>3 DEF Current, Kind, Segments
        <5> QED
          BY <1>4, <5>4
      <4>5. table'["SqlClient"][c] = s
        BY <1>8, <3>3, <4>2, <4>3
      <4> QED
        BY <1>5, <4>2, <4>3, <4>4, <4>5 DEF Calm
    <3> QED
      BY <3>1, <3>2, <3>3
  <2> QED
    BY <2>1, <2>2 DEF WaitInv
<1>22. BlameInv'
  <2>1. currentTransaction[f] # None
    BY DEF MakeSpan
  <2>2. ASSUME NEW g \in Flows, call'[g].at = "span", madeFor'[call'[g].of] # None
        PROVE  currentTransaction'[g] # None
    <3>1. CASE g = f
      BY <1>4, <2>1, <3>1
    <3>2. CASE g # f
      <4>1. call'[g] = call[g] /\ call[g].of \in Spans \ {s}
        BY <1>4, <1>5, <2>2, <3>2 DEF SegmentInv, CallInv
      <4> QED
        BY <1>4, <1>6, <2>2, <4>1 DEF BlameInv
    <3> QED
      BY <3>1, <3>2
  <2>3. ASSUME NEW r \in Requests, table'["HttpClient"][r] # None
        PROVE  context'[r].transaction # None
    <3>0. r \in Operations /\ "HttpClient" \in Listeners
      BY DEF Operations, Listeners
    <3>1. CASE r = o
      BY <1>9, <2>1, <3>1
    <3>2. CASE r # o
      BY <1>8, <1>9, <2>3, <3>0, <3>2 DEF BlameInv
    <3> QED
      BY <3>1, <3>2
  <2> QED
    BY <2>2, <2>3 DEF BlameInv
<1>23. \A u \in Spans \ {s} : Rival(u)' = Rival(u)
  BY <1>4, <1>6 DEF Rival
<1>24. ~Rival(currentSpan[f])
  <2> SUFFICES ASSUME Rival(currentSpan[f]) PROVE FALSE
    OBVIOUS
  <2>1. PICK c \in EfCommands : on[c] = f
    BY DEF RivalInv
  <2>2. l = "SqlClient"
    BY <2>1 DEF Starting, Operations
  <2> QED
    BY <2>2, CompetesIsKnown DEF MakeSpan, Rival
<1>25. RivalInv'
  <2>0. "EfCore" \in Listeners /\ EfCommands \subseteq Operations
    BY DEF Operations, Listeners
  <2>1. ASSUME NEW g \in Flows, Rival(currentSpan[g])'
        PROVE  \E c \in EfCommands : on'[c] = g /\ table'["EfCore"][c] = currentSpan'[g]
    <3>1. CASE currentSpan'[g] = currentSpan[g]
      <4>1. currentSpan[g] \in Spans \ {s}
        BY <1>4, <2>1, <3>1 DEF Rival, MadeInv, Made, SegmentInv, SegmentsTypeOK
      <4>2. PICK c \in EfCommands : on[c] = g /\ table["EfCore"][c] = currentSpan[g]
        BY <1>23, <2>1, <3>1, <4>1 DEF RivalInv
      <4>3. g # f
        BY <1>23, <1>24, <2>1, <3>1, <4>1
      <4>4. c # o
        BY <4>2, <4>3 DEF Starting
      <4>5. on'[c] = on[c]
        BY <2>0, <4>4 DEF Starting
      <4>6. table'["EfCore"][c] = table["EfCore"][c]
        BY <1>8, <2>0, <4>4
      <4> QED
        BY <3>1, <4>2, <4>5, <4>6
    <3>2. CASE g = f /\ currentSpan'[f] = s /\ span'[s].kind # "constructing"
      <4>1. l = "EfCore"
        BY <1>6, <2>1, <3>2 DEF Rival
      <4>2. o \in EfCommands /\ on'[o] = f
        BY <4>1 DEF Starting, Active
      <4>3. table'["EfCore"][o] = s
        BY <1>8, <3>2, <4>1
      <4> QED
        BY <3>2, <4>2, <4>3
    <3> QED
      BY <1>5, <3>1, <3>2
  <2>2. ASSUME NEW u \in Spans, span'[u].parentSpan # None PROVE ~Rival(span[u].parentSpan)'
    <3>1. CASE u = s
      <4>1. span'[s].parentSpan = currentSpan[f] /\ currentSpan[f] \in Spans /\ Made(currentSpan[f])
        BY <1>3, <1>4, <2>2, <3>1
      <4>2. currentSpan[f] # s
        BY <1>4, <4>1 DEF Made
      <4> QED
        BY <1>23, <1>24, <3>1, <4>1, <4>2
    <3>2. CASE u # s
      <4>1. span'[u].parentSpan = span[u].parentSpan
        BY <1>4, <3>2
      <4>2. span[u].parentSpan \in Spans \ {s}
        BY <1>4, <2>2, <4>1 DEF MadeInv, Made, SegmentInv, SegmentsTypeOK, SpanObjects
      <4> QED
        BY <1>23, <4>1, <4>2 DEF RivalInv
    <3> QED
      BY <3>1, <3>2
  <2>3. \A u \in Spans : span'[u].parentSpan = None => ~Rival(span[u].parentSpan)'
    BY DEF Rival
  <2> QED
    BY <2>1, <2>2, <2>3 DEF RivalInv
<1>26. CaptureInv'
  <2>0. /\ \A c \in EfCommands \cup SqlCommands : c \in Operations
        /\ "EfCore" \in Listeners
    BY DEF Operations, Listeners
  <2>1. \A q \in Operations \ {o} : /\ SpansOf(q)' = SpansOf(q) /\ s \notin SpansOf(q)
                                     /\ OneSpan(q)' = OneSpan(q)
    <3>1. \A q \in Operations \ {o} : SpansOf(q)' = SpansOf(q) /\ s \notin SpansOf(q)
      BY <1>6 DEF SpansOf
    <3> QED
      BY <3>1 DEF OneSpan
  <2>2. SpansOf(o)' = SpansOf(o) \cup {s}
    BY <1>6 DEF SpansOf
  <2>3. \A q \in Operations \ {o} : NoopSpans(q) => NoopSpans(q)'
    BY <1>4, <2>1 DEF NoopSpans, SpansOf
  <2>4. \A q \in Operations \ {o} : phase'[q] = phase[q] /\ on'[q] = on[q] /\ context'[q] = context[q]
    BY <1>9 DEF Starting
  <2>5. \A c \in (EfCommands \cup SqlCommands) \ {o} :
          /\ phase'[c] = "new" => SpansOf(c)' = {}
          /\ context'[c].transaction = None => SpansOf(c)' = {}
          /\ phase'[c] \notin {"new", "ef"} /\ context'[c].transaction # None => OneSpan(c)' \/ NoopSpans(c)'
    BY <2>0, <2>1, <2>3, <2>4 DEF CaptureInv
  <2>6. ASSUME NEW c \in EfCommands \ {o}, phase'[c] = "ef"
        PROVE  /\ context'[c].transaction = currentTransaction'[on'[c]]
               /\ SpansOf(c)' # {} => OneSpan(c)'
               /\ \A u \in SpansOf(c)' : flag'[u] = "EfCore" /\ (Made(u)' => table'["EfCore"][c] = u)
    <3>1. /\ context[c].transaction = currentTransaction[on[c]]
          /\ SpansOf(c) # {} => OneSpan(c)
          /\ \A u \in SpansOf(c) : flag[u] = "EfCore" /\ (Made(u) => table["EfCore"][c] = u)
      BY <2>0, <2>4, <2>6 DEF CaptureInv
    <3>2. \A u \in SpansOf(c) : flag'[u] = flag[u] /\ (Made(u)' => Made(u))
      BY <1>4, <1>6, <2>0, <2>1 DEF Made, SpansOf
    <3>3. table'["EfCore"][c] = table["EfCore"][c]
      BY <1>8, <2>0
    <3> QED
      BY <1>4, <2>0, <2>1, <2>4, <3>1, <3>2, <3>3
  <2>7. phase'[o] # "new" /\ context'[o].transaction # None
    BY <1>9 DEF Starting, MakeSpan
  <2>8. ASSUME o \in EfCommands \cup SqlCommands, phase'[o] # "ef"
        PROVE  OneSpan(o)' \/ NoopSpans(o)'
    <3>1. CASE SpansOf(o) = {}
      BY <2>2, <3>1 DEF OneSpan
    <3>2. CASE SpansOf(o) # {}
      <4>1. on[o] = f /\ o \in EfCommands /\ phase[o] = "ef" /\ l = "SqlClient"
        BY <2>8, <3>2 DEF Starting
      <4>2. PICK e \in Spans : SpansOf(o) = {e} /\ flag[e] = "EfCore" /\ (Made(e) => table["EfCore"][o] = e)
        BY <3>2, <4>1 DEF CaptureInv, OneSpan
      <4>3. madeFor[e] = o /\ e # s
        BY <1>6, <4>2 DEF SpansOf
      <4>4. Made(e)
        <5>1. span[e].kind # "constructing" /\ span[e].kind # "none"
          BY <4>2, <4>3 DEF Starting, MadeInv
        <5> QED
          BY <5>1 DEF SegmentInv, SegmentsTypeOK, SpanObjects, Kinds, Made
      <4>5. currentSpan[f] = e /\ e # None
        BY <2>0, <4>2, <4>4 DEF Starting, Segments
      <4>6. span[e].kind = "noop"
        BY <1>24, <4>2, <4>4, <4>5 DEF Rival, Made
      <4>7. Kind(p) = "noop"
        BY <1>1, <4>5, <4>6 DEF Current, Kind, Segments
      <4>8. span'[s].kind = "noop" /\ span'[e].kind = "noop"
        BY <1>4, <4>3, <4>6, <4>7
      <4>9. SpansOf(o)' = {e, s}
        BY <2>2, <4>2
      <4> QED
        BY <4>8, <4>9 DEF NoopSpans
    <3> QED
      BY <3>1, <3>2
  <2>9. ASSUME o \in EfCommands, phase'[o] = "ef"
        PROVE  /\ context'[o].transaction = currentTransaction'[on'[o]]
               /\ SpansOf(o)' # {} => OneSpan(o)'
               /\ \A u \in SpansOf(o)' : flag'[u] = "EfCore" /\ (Made(u)' => table'["EfCore"][o] = u)
    <3>1. l = "EfCore"
      BY <2>9 DEF Starting, Active, Listeners
    <3>2. SpansOf(o) = {} /\ on'[o] = f
      BY <2>9, <3>1 DEF Starting
    <3>3. SpansOf(o)' = {s}
      BY <2>2, <3>2
    <3>4. Made(s)' => table'["EfCore"][o] = s
      BY <1>8, <3>1 DEF Made
    <3> QED
      BY <1>4, <1>6, <1>9, <3>1, <3>2, <3>3, <3>4 DEF OneSpan
  <2>10. \A c \in EfCommands \cup SqlCommands :
          /\ phase'[c] = "new" => SpansOf(c)' = {}
          /\ context'[c].transaction = None => SpansOf(c)' = {}
          /\ phase'[c] \notin {"new", "ef"} /\ context'[c].transaction # None => OneSpan(c)' \/ NoopSpans(c)'
    BY <2>5, <2>7, <2>8
  <2>11. \A c \in EfCommands : phase'[c] = "ef" =>
          /\ context'[c].transaction = currentTransaction'[on'[c]]
          /\ SpansOf(c)' # {} => OneSpan(c)'
          /\ \A u \in SpansOf(c)' : flag'[u] = "EfCore" /\ (Made(u)' => table'["EfCore"][c] = u)
    BY <2>6, <2>9
  <2> QED
    BY <2>10, <2>11 DEF CaptureInv
<1> QED
  BY <1>2, <1>10, <1>11, <1>15, <1>16, <1>17, <1>20, <1>21, <1>22, <1>25, <1>26

-----------------------------------------------------------------------------
(* Stop events. *)
SegmentsKept == UNCHANGED <<config, tx, currentTransaction, call, senderDisposed>>

LEMMA EndTrackedKeeps ==
    ASSUME SegmentInv, NEW f \in Flows \cup {None}, NEW l \in Listeners, NEW o \in Operations,
           NEW s \in Spans, NEW failed \in BOOLEAN, EndTracked(f, l, o, s, failed), SegmentsKept,
           Made(s), Blamed(l, o, s) \subseteq Segments
    PROVE  /\ SegmentInv' /\ StaysReal
           /\ \A u \in Spans \ {s} : span'[u] = span[u]
           /\ span'[s].ended /\ span'[s].kind = span[s].kind /\ span'[s].parentSpan = span[s].parentSpan
           /\ IF f = None THEN UNCHANGED currentSpan
              ELSE currentSpan' = [currentSpan EXCEPT ![f] = span[s].parentSpan]
<1> USE SegmentConstants DEF SegmentInv
<1>0. UNCHANGED <<config, tx, currentTransaction, call, senderDisposed>> /\ span[s].kind \in {"real", "noop"}
  BY DEF SegmentsKept, Made
<1>1. /\ \A u \in Spans \ {s} : span'[u] = span[u]
      /\ span'[s].ended
      /\ span'[s].kind = span[s].kind /\ span'[s].transaction = span[s].transaction
      /\ span'[s].parent = span[s].parent /\ span'[s].number = span[s].number
      /\ span'[s].isDropped = span[s].isDropped
  BY EndedSpan DEF EndTracked, SegmentsTypeOK
<1>2. span'[s].parentSpan = span[s].parentSpan
  BY DEF EndTracked, SegmentsTypeOK, SpanObjects
<1>3. Kind(s) = span[s].kind /\ Ended(s) = span[s].ended
  BY DEF Kind, Ended
<1>4. /\ \A u \in Segments \ {s} : queued'[u] = queued[u]
      /\ queued'[s] = queued[s]
         \/ (/\ queued'[s] = queued[s] + 1 /\ span[s].kind = "real" /\ ~span[s].ended
             /\ ShouldBeSentToApmServer(s))
      /\ span[s].kind = "real" /\ ShouldBeSentToApmServer(s) /\ ~senderDisposed /\ ~span[s].ended
            => queued'[s] = queued[s] + 1
  BY <1>3 DEF EndTracked, QueuesOnEnd, SegmentsTypeOK, Segments
<1>5. PICK segment \in Segments :
         \/ references' = references
         \/ Kind(segment) = "real" /\ references' = references \cup {ReferenceId(segment)}
  BY DEF EndTracked, Capture
<1>6. Kind(segment) = "real" =>
         \/ ReferenceId(segment) \in Transactions
         \/ /\ ReferenceId(segment) \in Spans /\ span[ReferenceId(segment)].kind = "real"
            /\ ShouldBeSentToApmServer(ReferenceId(segment))
  BY DEF ReferenceId, Segments, Kind, FamilyInv, Born
<1>7. SegmentsTypeOK'
  <2>1. span' \in [Spans -> SpanObjects]
    BY EndedSpan DEF EndTracked, SegmentsTypeOK
  <2>2. queued' \in [Segments -> Nat]
    <3>1. queued' = queued \/ queued' = [queued EXCEPT ![s] = @ + 1]
      BY DEF EndTracked
    <3> QED
      BY <3>1 DEF SegmentsTypeOK
  <2>3. currentSpan' \in [Flows -> Spans \cup {None}]
    <3>1. span[s].parentSpan \in Spans \cup {None}
      BY DEF SegmentsTypeOK, SpanObjects
    <3> QED
      BY <3>1 DEF EndTracked, RestoreParent, SegmentsTypeOK
  <2>4. references' \in SUBSET Segments
    BY <1>5, <1>6 DEF SegmentsTypeOK, Segments
  <2> QED
    BY <1>0, <2>1, <2>2, <2>3, <2>4 DEF SegmentsTypeOK
<1>8. CallInv' /\ FamilyInv'
  BY <1>0, <1>1 DEF CallInv, FamilyInv
<1>9. TransactionInv'
  BY <1>0, <1>4 DEF TransactionInv, Segments
<1>10. DropInv'
  BY <1>0, <1>1 DEF DropInv, Dropped, OverLimit
<1>11. \A u \in Spans : ShouldBeSentToApmServer(u)' = ShouldBeSentToApmServer(u)
  BY <1>0, <1>1 DEF ShouldBeSentToApmServer
<1>12. queued[s] \in Nat /\ queued[s] > 0 => span[s].ended
  BY DEF QueueInv, SegmentsTypeOK, Segments
<1>13. QueueInv'
  BY <1>0, <1>1, <1>4, <1>11, <1>12 DEF QueueInv, SegmentsTypeOK, Segments
<1>14. ReferenceInv'
  <2>1. \A u \in references' : u \in references \/ (Kind(segment) = "real" /\ u = ReferenceId(segment))
    BY <1>5
  <2>2. \A u \in references' :
           u \in Transactions \/ (u \in Spans /\ span[u].kind = "real" /\ ShouldBeSentToApmServer(u))
    BY <1>6, <2>1 DEF ReferenceInv
  <2> QED
    BY <1>1, <1>11, <2>2 DEF ReferenceInv
<1>15. StaysReal
  BY <1>1, <1>11 DEF StaysReal
<1> QED
  BY <1>1, <1>2, <1>7, <1>8, <1>9, <1>10, <1>13, <1>14, <1>15 DEF EndTracked, RestoreParent

(* What the stop events have in common.  f is None in a callback. *)
Stopping(f, l, o) ==
    /\ f # None => f = on[o]
    /\ l = "EfCore" => f = on[o] /\ o \in EfCommands /\ on[o] # None
    /\ l = "HttpClient" => o \in Requests
    /\ \A k \in Listeners, q \in Operations : Active(k, q) /\ (k # l \/ q # o) => Active(k, q)'
    /\ \A k \in Listeners : k # l /\ table[k][o] # None =>
          k = "EfCore" /\ l = "SqlClient" /\ phase'[o] = "answered" /\ UNCHANGED on
    /\ \A s \in Spans : madeFor[s] = o => span[s].kind # "constructing"
    /\ phase' \in [Operations -> Phases] /\ Phased(o)'
    /\ on' \in [Operations -> Flows \cup {None}] /\ on'[o] \in {on[o], None}
    /\ IF phase'[o] = "done" THEN on'[o] = None ELSE phase'[o] = "answered" /\ UNCHANGED on
    /\ on[o] = None => o \notin EfCommands
    /\ phase[o] \notin {"new", "ef"}
    /\ \A q \in Operations \ {o} : phase'[q] = phase[q] /\ on'[q] = on[q]

LEMMA NothingIsConstructed ==
    ASSUME InstrumentationInv, NEW o \in Operations, Constructed(o)
    PROVE  \A s \in Spans : madeFor[s] = o => span[s].kind # "constructing"
BY DEF InstrumentationInv, ListenerInv, MadeInv, Constructed

LEMMA RequestIsStopping ==
    ASSUME InstrumentationInv, NEW r \in Requests, NEW failed \in BOOLEAN, RequestDone(r, failed)
    PROVE  Stopping(on[r], "HttpClient", r)
<1> USE OperationConstants DEF InstrumentationInv, ListenerInv
<1>1. /\ r \in Operations /\ r \notin EfCommands /\ r \notin SqlCommands
      /\ phase[r] = "sent" /\ phase' = [phase EXCEPT ![r] = "done"]
      /\ on' = [on EXCEPT ![r] = None] /\ Constructed(r)
  BY DEF RequestDone, Stop, Operations
<1>2. /\ phase' \in [Operations -> Phases] /\ phase'[r] = "done"
      /\ \A q \in Operations \ {r} : phase'[q] = phase[q]
  BY <1>1 DEF ListenerTypeOK, Phases
<1>3. /\ on' \in [Operations -> Flows \cup {None}] /\ on'[r] = None
      /\ \A q \in Operations \ {r} : on'[q] = on[q]
  BY <1>1 DEF ListenerTypeOK
<1>4. \A k \in Listeners : Active(k, r) => k = "HttpClient"
  BY <1>1 DEF Active
<1>5. \A k \in Listeners, q \in Operations : Active(k, q) /\ (k # "HttpClient" \/ q # r) => Active(k, q)'
  BY <1>2, <1>4 DEF Active
<1>6. Phased(r)'
  BY <1>1, <1>2 DEF Phased
<1>7. \A k \in Listeners : k # "HttpClient" => table[k][r] = None
  BY <1>1, <1>4 DEF TableInv
<1> QED
  BY <1>1, <1>2, <1>3, <1>5, <1>6, <1>7, NothingIsConstructed DEF Stopping

LEMMA SqlIsStopping ==
    ASSUME InstrumentationInv, NEW c \in SqlCommands, NEW failed \in BOOLEAN, SqlDone(c, failed)
    PROVE  Stopping(on[c], "SqlClient", c)
<1> USE OperationConstants DEF InstrumentationInv, ListenerInv
<1>1. /\ c \in Operations /\ c \notin EfCommands /\ c \notin Requests
      /\ phase[c] = "sql" /\ phase' = [phase EXCEPT ![c] = "done"]
      /\ on' = [on EXCEPT ![c] = None] /\ Constructed(c)
  BY DEF SqlDone, Stop, Operations
<1>2. /\ phase' \in [Operations -> Phases] /\ phase'[c] = "done"
      /\ \A q \in Operations \ {c} : phase'[q] = phase[q]
  BY <1>1 DEF ListenerTypeOK, Phases
<1>3. /\ on' \in [Operations -> Flows \cup {None}] /\ on'[c] = None
      /\ \A q \in Operations \ {c} : on'[q] = on[q]
  BY <1>1 DEF ListenerTypeOK
<1>4. \A k \in Listeners : Active(k, c) => k = "SqlClient"
  BY <1>1 DEF Active
<1>5. \A k \in Listeners, q \in Operations : Active(k, q) /\ (k # "SqlClient" \/ q # c) => Active(k, q)'
  BY <1>2, <1>4 DEF Active
<1>6. Phased(c)'
  BY <1>1, <1>2 DEF Phased
<1>7. \A k \in Listeners : k # "SqlClient" => table[k][c] = None
  BY <1>1, <1>4 DEF TableInv
<1> QED
  BY <1>1, <1>2, <1>3, <1>5, <1>6, <1>7, NothingIsConstructed DEF Stopping

LEMMA EfSqlIsStopping ==
    ASSUME InstrumentationInv, NEW c \in EfCommands, NEW f \in Flows \cup {None},
           NEW failed \in BOOLEAN, EfSqlDone(c, f, failed)
    PROVE  Stopping(f, "SqlClient", c)
<1> USE OperationConstants DEF InstrumentationInv, ListenerInv
<1>1. /\ c \in Operations /\ c \notin SqlCommands /\ c \notin Requests
      /\ phase[c] = "sql" /\ phase' = [phase EXCEPT ![c] = "answered"]
      /\ UNCHANGED on /\ Constructed(c) /\ f \in {on[c], None}
  BY DEF EfSqlDone, Stop, Operations
<1>2. /\ phase' \in [Operations -> Phases] /\ phase'[c] = "answered"
      /\ \A q \in Operations \ {c} : phase'[q] = phase[q]
  BY <1>1 DEF ListenerTypeOK, Phases
<1>3. on' \in [Operations -> Flows \cup {None}] /\ on[c] # None
  BY <1>1 DEF ListenerTypeOK, PhaseInv
<1>4. \A k \in Listeners : Active(k, c) => k = "SqlClient" \/ k = "EfCore"
  BY <1>1 DEF Active
<1>5. \A k \in Listeners, q \in Operations : Active(k, q) /\ (k # "SqlClient" \/ q # c) => Active(k, q)'
  BY <1>2, <1>4 DEF Active
<1>6. Phased(c)'
  BY <1>1, <1>2 DEF Phased
<1>7. \A k \in Listeners : k # "SqlClient" /\ table[k][c] # None => k = "EfCore"
  BY <1>1, <1>4 DEF TableInv
<1> QED
  BY <1>1, <1>2, <1>3, <1>5, <1>6, <1>7, NothingIsConstructed DEF Stopping

LEMMA EfIsStopping ==
    ASSUME InstrumentationInv, NEW c \in EfCommands, NEW failed \in BOOLEAN, EfDone(c, failed)
    PROVE  Stopping(on[c], "EfCore", c)
<1> USE OperationConstants DEF InstrumentationInv, ListenerInv
<1>1. /\ c \in Operations /\ c \notin SqlCommands /\ c \notin Requests
      /\ phase[c] = "answered" /\ phase' = [phase EXCEPT ![c] = "done"]
      /\ on' = [on EXCEPT ![c] = None] /\ Constructed(c)
  BY DEF EfDone, Stop, Operations
<1>2. /\ phase' \in [Operations -> Phases] /\ phase'[c] = "done"
      /\ \A q \in Operations \ {c} : phase'[q] = phase[q]
  BY <1>1 DEF ListenerTypeOK, Phases
<1>3. /\ on' \in [Operations -> Flows \cup {None}] /\ on[c] # None /\ on'[c] = None
      /\ \A q \in Operations \ {c} : on'[q] = on[q]
  BY <1>1 DEF ListenerTypeOK, PhaseInv
<1>4. \A k \in Listeners : Active(k, c) => k = "EfCore"
  BY <1>1 DEF Active
<1>5. \A k \in Listeners, q \in Operations : Active(k, q) /\ (k # "EfCore" \/ q # c) => Active(k, q)'
  BY <1>2, <1>4 DEF Active
<1>6. Phased(c)'
  BY <1>1, <1>2 DEF Phased
<1>7. \A k \in Listeners : k # "EfCore" => table[k][c] = None
  BY <1>1, <1>4 DEF TableInv
<1> QED
  BY <1>1, <1>2, <1>3, <1>5, <1>6, <1>7, NothingIsConstructed DEF Stopping

(* A tracked span is ended: the current span of the flow or the callback   *)
(* is its own, or one of EF Core's that no other module has claimed.       *)
LEMMA StopIsNotIgnored ==
    ASSUME InstrumentationInv, NEW f \in Flows \cup {None}, NEW l \in Listeners, NEW o \in Operations,
           Stopping(f, l, o), table[l][o] # None
    PROVE  ~Competes(l, IF f = None THEN context[o].span ELSE currentSpan[f])
<1> USE SegmentConstants, OperationConstants DEF InstrumentationInv, ListenerInv
<1>1. CASE l = "HttpClient"
  BY <1>1, CompetesIsKnown
<1>2. CASE l = "SqlClient"
  <2>1. (IF f = None THEN context[o].span ELSE currentSpan[f]) = table[l][o]
    BY <1>2 DEF Stopping, WaitInv
  <2>2. flag[table[l][o]] = "SqlClient"
    BY <1>2 DEF TableInv
  <2> QED
    BY <1>2, <2>1, <2>2, CompetesIsKnown
<1>3. CASE l = "EfCore"
  <2>1. f # None /\ f = on[o] /\ Calm(currentSpan[f])
    BY <1>3 DEF Stopping, WaitInv
  <2> QED
    BY <1>3, <2>1, CompetesIsKnown DEF Calm
<1> QED
  BY <1>1, <1>2, <1>3 DEF Listeners

LEMMA StopKeeps ==
    ASSUME InstrumentationInv, NEW f \in Flows \cup {None}, NEW l \in Listeners, NEW o \in Operations,
           NEW failed \in BOOLEAN, StopEvent(f, l, o, failed), Stopping(f, l, o),
           context' = [context EXCEPT ![o].span = None], UNCHANGED stack
    PROVE  InstrumentationInv'
<1> USE SegmentConstants, OperationConstants DEF InstrumentationInv, ListenerInv
<1>1. UNCHANGED <<config, tx, currentTransaction, call, senderDisposed, flag, madeFor, header>> /\ SegmentsKept
  BY DEF StopEvent, SegmentsKept
<1>2. /\ SegmentInv' /\ StaysReal /\ table' \in Tables /\ table'[l][o] = None
      /\ \A k \in Listeners, q \in Operations : k # l \/ q # o => table'[k][q] = table[k][q]
      /\ \A u \in Spans : /\ span'[u].kind = span[u].kind /\ span'[u].parentSpan = span[u].parentSpan
                          /\ span[u].ended => span'[u].ended
      /\ table[l][o] # None => span'[table[l][o]].ended
      /\ \A g \in Flows : \/ currentSpan'[g] = currentSpan[g] /\ (g # f \/ table[l][o] = None)
                          \/ /\ g = f /\ table[l][o] # None
                             /\ currentSpan'[g] = span[table[l][o]].parentSpan
  <2>0. table \in Tables
    BY DEF ListenerTypeOK, Tables
  <2>1. CASE table[l][o] = None
    <3>1. UNCHANGED <<span, queued, references, currentSpan, table>>
      BY <2>1 DEF StopEvent
    <3>2. SegmentInv'
      BY <1>1, <3>1, OtherStepKeeps DEF vars
    <3>3. StaysReal
      BY <1>1, <3>1 DEF StaysReal, ShouldBeSentToApmServer
    <3> QED
      BY <2>0, <2>1, <3>1, <3>2, <3>3
  <2>2. CASE table[l][o] # None
    <3>1. PICK s \in Spans : s = table[l][o]
      BY <2>2 DEF ListenerTypeOK
    <3>2. EndTracked(f, l, o, s, failed)
      BY <2>2, <3>1, StopIsNotIgnored DEF StopEvent
    <3>3. Made(s) /\ Blamed(l, o, s) \subseteq Segments
      <4>1. Made(s)
        BY <2>2, <3>1 DEF TableInv
      <4>2. l = "HttpClient" => context[o].transaction \in Transactions
        BY <2>2 DEF Stopping, BlameInv, ListenerTypeOK, Contexts
      <4> QED
        BY <4>1, <4>2 DEF Blamed, Segments
    <3>4. /\ SegmentInv' /\ StaysReal
          /\ \A u \in Spans \ {s} : span'[u] = span[u]
          /\ span'[s].ended /\ span'[s].kind = span[s].kind /\ span'[s].parentSpan = span[s].parentSpan
          /\ IF f = None THEN UNCHANGED currentSpan
             ELSE currentSpan' = [currentSpan EXCEPT ![f] = span[s].parentSpan]
      BY <1>1, <3>2, <3>3, EndTrackedKeeps
    <3>5. /\ table' \in Tables /\ table'[l][o] = None
          /\ \A k \in Listeners, q \in Operations : k # l \/ q # o => table'[k][q] = table[k][q]
      <4>1. table' = [table EXCEPT ![l][o] = None]
        BY <3>2, Zenon DEF EndTracked
      <4> QED
        BY <2>0, <4>1, TableIsCleared
    <3>6. \A g \in Flows : IF g = f THEN currentSpan'[g] = span[s].parentSpan
                                   ELSE currentSpan'[g] = currentSpan[g]
      BY <3>4 DEF SegmentInv, SegmentsTypeOK
    <3> QED
      BY <2>2, <3>1, <3>4, <3>5, <3>6
  <2> QED
    BY <2>1, <2>2
<1>3. /\ context' \in [Operations -> Contexts] /\ context'[o].span = None
      /\ context'[o].transaction = context[o].transaction
      /\ \A q \in Operations \ {o} : context'[q] = context[q]
  BY ContextIsCleared DEF ListenerTypeOK
<1>4. ListenerTypeOK'
  BY <1>1, <1>2, <1>3 DEF ListenerTypeOK, Tables, Stopping
<1>5. \A u \in Spans : Made(u)' = Made(u)
  BY <1>2 DEF Made
<1>6. MadeInv'
  <2>1. ASSUME NEW g \in Flows, currentSpan'[g] # None
        PROVE  Made(currentSpan[g])'
    <3>1. CASE currentSpan'[g] = currentSpan[g]
      BY <1>5, <2>1, <3>1 DEF MadeInv, SegmentInv, SegmentsTypeOK
    <3>2. CASE table[l][o] # None /\ currentSpan'[g] = span[table[l][o]].parentSpan
      <4>1. table[l][o] \in Spans
        BY <3>2 DEF ListenerTypeOK
      <4> QED
        BY <1>5, <2>1, <3>2, <4>1 DEF MadeInv, SegmentInv, SegmentsTypeOK, SpanObjects
    <3> QED
      BY <1>2, <3>1, <3>2
  <2>2. \A q \in Operations : context'[q].span # None => Made(context[q].span)'
    BY <1>3, <1>5 DEF MadeInv, ListenerTypeOK, Contexts
  <2>3. \A u \in Spans : span'[u].parentSpan # None =>
          /\ Made(span[u].parentSpan)'
          /\ span'[u].kind = "noop" => span'[span'[u].parentSpan].kind = "noop"
    BY <1>2, <1>5 DEF MadeInv, SegmentInv, SegmentsTypeOK, SpanObjects
  <2>4. \A u \in Spans : span'[u].kind = "none" => span'[u].parentSpan = None /\ flag'[u] = "None"
    BY <1>1, <1>2 DEF MadeInv
  <2>5. \A u \in Spans : span'[u].kind = "constructing" => \E g \in Flows : call'[g].at = "span" /\ call'[g].of = u
    BY <1>1, <1>2 DEF MadeInv
  <2> QED
    BY <2>1, <2>2, <2>3, <2>4, <2>5 DEF MadeInv
<1>7. PhaseInv'
  <2>1. \A q \in Operations : Phased(q)'
    BY DEF PhaseInv, Stopping, Phased
  <2>2. \A q \in Operations : on'[q] # None => on'[q] = on[q] /\ phase'[q] \notin {"new", "done"}
    BY DEF PhaseInv, Stopping
  <2>3. \A c \in EfCommands : phase'[c] \notin {"new", "done"} => on'[c] # None
    BY DEF PhaseInv, Stopping, Operations
  <2> QED
    BY <1>1, <2>1, <2>2, <2>3 DEF PhaseInv
<1>8. TableInv'
  <2>1. ASSUME NEW k \in Listeners, NEW q \in Operations, table'[k][q] # None
        PROVE  Active(k, q)' /\ flag'[table'[k][q]] = k /\ madeFor'[table'[k][q]] = q /\ Made(table[k][q])'
    <3>1. (k # l \/ q # o) /\ table'[k][q] = table[k][q] /\ table[k][q] \in Spans
      BY <1>2, <2>1 DEF ListenerTypeOK
    <3>2. Active(k, q) /\ flag[table[k][q]] = k /\ madeFor[table[k][q]] = q /\ Made(table[k][q])
      BY <2>1, <3>1 DEF TableInv
    <3>3. Active(k, q)'
      BY <3>1, <3>2 DEF Stopping
    <3> QED
      BY <1>1, <1>5, <3>1, <3>2, <3>3
  <2> QED
    BY <2>1 DEF TableInv
<1>9. MadeForInv'
  <2>1. \A u \in Spans : (flag'[u] = "None") <=> (madeFor'[u] = None)
    BY <1>1 DEF MadeForInv
  <2>2. ASSUME NEW u \in Spans, madeFor'[u] # None, Made(u)'
        PROVE  span'[u].ended \/ table'[flag'[u]][madeFor'[u]] = u
    <3>1. span[u].ended \/ table[flag[u]][madeFor[u]] = u
      BY <1>1, <1>5, <2>2 DEF MadeForInv
    <3>2. flag[u] \in Listeners /\ madeFor[u] \in Operations
      BY <1>1, <2>2 DEF ListenerTypeOK, MadeForInv
    <3>3. u # None
      BY DEF Segments
    <3> QED
      BY <1>1, <1>2, <3>1, <3>2, <3>3
  <2>3. ASSUME NEW u \in Spans, madeFor'[u] # None, span'[u].kind = "constructing"
        PROVE  /\ Active(flag[u], madeFor[u])' /\ table'[flag'[u]][madeFor'[u]] = None
               /\ flag'[u] = "EfCore" => phase'[madeFor'[u]] = "ef"
               /\ flag'[u] = "SqlClient" => table'["EfCore"][madeFor'[u]] = None
               /\ \A g \in Flows : call'[g].at = "span" /\ call'[g].of = u => on'[madeFor'[u]] \in {g, None}
               /\ \A v \in Spans : v # u /\ span'[v].kind = "constructing" => madeFor'[v] # madeFor'[u]
    <3>1. span[u].kind = "constructing" /\ madeFor[u] # None
      BY <1>1, <1>2, <2>3
    <3>2. flag[u] \in Listeners /\ madeFor[u] \in Operations \ {o}
      BY <3>1 DEF ListenerTypeOK, MadeForInv, Stopping
    <3>3. /\ Active(flag[u], madeFor[u]) /\ table[flag[u]][madeFor[u]] = None
          /\ flag[u] = "EfCore" => phase[madeFor[u]] = "ef"
          /\ flag[u] = "SqlClient" => table["EfCore"][madeFor[u]] = None
          /\ \A g \in Flows : call[g].at = "span" /\ call[g].of = u => on[madeFor[u]] \in {g, None}
          /\ \A v \in Spans : v # u /\ span[v].kind = "constructing" => madeFor[v] # madeFor[u]
      BY <3>1 DEF MadeForInv
    <3>4. \A k \in Listeners : table'[k][madeFor[u]] = table[k][madeFor[u]]
      BY <1>2, <3>2
    <3>5. phase'[madeFor[u]] = phase[madeFor[u]] /\ on'[madeFor[u]] = on[madeFor[u]]
      BY <3>2 DEF Stopping
    <3>6. Active(flag[u], madeFor[u])'
      BY <1>1, <3>2, <3>3, <3>5 DEF Active
    <3> QED
      BY <1>1, <1>2, <3>2, <3>3, <3>4, <3>5, <3>6 DEF Listeners
  <2> QED
    BY <2>1, <2>2, <2>3 DEF MadeForInv
<1>10. WaitInv'
  <2>0. "EfCore" \in Listeners /\ "SqlClient" \in Listeners
    BY DEF Listeners
  <2>1. ASSUME NEW q \in Operations \ {o}, on[q] # None
        PROVE  on'[q] = on[q] /\ on[q] \in Flows /\ currentSpan'[on[q]] = currentSpan[on[q]]
    <3>1. on'[q] = on[q] /\ on[q] \in Flows
      BY <2>1 DEF Stopping, ListenerTypeOK
    <3>2. on[q] # f
      BY <2>1 DEF Stopping, PhaseInv
    <3> QED
      BY <1>2, <3>1, <3>2
  <2>2. ASSUME NEW q \in Operations, table'["SqlClient"][q] # None
        PROVE  /\ context'[q].span = table'["SqlClient"][q]
               /\ on'[q] # None => currentSpan'[on'[q]] = table'["SqlClient"][q]
    <3>1. q # o /\ table'["SqlClient"][q] = table["SqlClient"][q]
      BY <1>2, <2>0, <2>2 DEF Stopping
    <3>2. on'[q] = on[q]
      BY <3>1 DEF Stopping
    <3> QED
      BY <1>3, <2>1, <2>2, <3>1, <3>2 DEF WaitInv
  <2>3. ASSUME NEW c \in EfCommands, table'["EfCore"][c] # None
        PROVE  /\ Calm(currentSpan[on[c]])'
               /\ phase'[c] = "ef" => currentSpan'[on'[c]] = table'["EfCore"][c]
               /\ table'["SqlClient"][c] # None => span'[table'["SqlClient"][c]].kind = "noop"
    <3>0. c \in Operations
      BY DEF Operations
    <3>1. /\ table'["EfCore"][c] = table["EfCore"][c] /\ (c = o => l = "SqlClient")
      <4>1. CASE c = o
        BY <1>2, <2>0, <2>3, <3>0, <4>1 DEF Stopping
      <4>2. CASE c # o
        BY <1>2, <2>0, <3>0, <4>2
      <4> QED
        BY <4>1, <4>2
    <3>2. /\ Calm(currentSpan[on[c]])
          /\ phase[c] = "ef" => currentSpan[on[c]] = table["EfCore"][c]
          /\ table["SqlClient"][c] # None => span[table["SqlClient"][c]].kind = "noop"
      BY <2>3, <3>1 DEF WaitInv
    <3>3. on[c] \in Flows /\ on'[c] = on[c] /\ currentSpan[on[c]] \in Spans \cup {None}
      <4>1. phase[c] \notin {"new", "done"}
        BY <2>0, <2>3, <3>0, <3>1 DEF TableInv, Active
      <4>2. on[c] \in Flows
        BY <3>0, <4>1 DEF PhaseInv, ListenerTypeOK
      <4>3. on'[c] = on[c]
        BY <2>0, <2>3, <3>0, <3>1 DEF Stopping
      <4> QED
        BY <4>2, <4>3 DEF SegmentInv, SegmentsTypeOK
    <3>4. table'["SqlClient"][c] = None \/ table'["SqlClient"][c] = table["SqlClient"][c]
      BY <1>2, <2>0, <3>0
    <3>5. table["SqlClient"][c] # None => span'[table["SqlClient"][c]].kind = "noop"
      BY <1>2, <2>0, <3>0, <3>2 DEF ListenerTypeOK
    <3>6. Calm(currentSpan[on[c]])'
      <4>1. CASE currentSpan'[on[c]] = currentSpan[on[c]]
        BY <1>1, <1>2, <3>2, <3>3, <4>1 DEF Calm
      <4>2. CASE on[c] = f /\ table[l][o] # None /\ currentSpan'[on[c]] = span[table[l][o]].parentSpan
        <5>1. c = o /\ l = "SqlClient"
          BY <3>0, <3>1, <3>3, <4>2 DEF Stopping, PhaseInv
        <5>2. table[l][o] \in Spans /\ span[table[l][o]].kind = "noop"
          BY <3>2, <4>2, <5>1 DEF ListenerTypeOK
        <5>3. PICK u \in Spans \cup {None} : u = span[table[l][o]].parentSpan
          BY <5>2 DEF SegmentInv, SegmentsTypeOK, SpanObjects
        <5>4. u # None => span[u].kind = "noop"
          BY <5>2, <5>3 DEF MadeInv
        <5> QED
          BY <1>2, <3>3, <4>2, <5>3, <5>4 DEF Calm
      <4> QED
        BY <1>2, <3>3, <4>1, <4>2
    <3>7. phase'[c] = "ef" => currentSpan'[on[c]] = table["EfCore"][c]
      <4>1. CASE c = o
        BY <4>1 DEF Stopping
      <4>2. CASE c # o
        BY <2>1, <3>0, <3>2, <3>3, <4>2 DEF Stopping
      <4> QED
        BY <4>1, <4>2
    <3> QED
      BY <3>1, <3>3, <3>4, <3>5, <3>6, <3>7
  <2> QED
    BY <2>2, <2>3 DEF WaitInv
<1>11. BlameInv'
  <2>1. \A r \in Requests : table'["HttpClient"][r] # None => table["HttpClient"][r] # None
    BY <1>2 DEF Operations, Listeners
  <2>2. \A r \in Requests : context'[r].transaction = context[r].transaction
    BY <1>3 DEF Operations
  <2> QED
    BY <1>1, <2>1, <2>2 DEF BlameInv
<1>12. HeaderInv'
  BY <1>1, <1>2 DEF HeaderInv, StaysReal
<1>13. \A u \in Spans : Rival(u)' = Rival(u)
  BY <1>1, <1>2 DEF Rival
<1>14. RivalInv'
  <2>0. "EfCore" \in Listeners /\ EfCommands \subseteq Operations
    BY DEF Operations, Listeners
  <2>1. \A u \in Spans : span[u].parentSpan \in Spans \cup {None} /\ ~Rival(span[u].parentSpan)
    BY DEF SegmentInv, SegmentsTypeOK, SpanObjects, RivalInv
  <2>2. ASSUME NEW g \in Flows, Rival(currentSpan[g])'
        PROVE  \E c \in EfCommands : on'[c] = g /\ table'["EfCore"][c] = currentSpan'[g]
    <3>1. currentSpan'[g] \in Spans
      BY <1>2, <2>2 DEF Rival, SegmentInv, SegmentsTypeOK
    <3>2. Rival(currentSpan'[g])
      BY <1>13, <2>2, <3>1
    <3>3. currentSpan'[g] = currentSpan[g] /\ (g # f \/ table[l][o] = None)
      <4>1. ASSUME g = f, table[l][o] # None, currentSpan'[g] = span[table[l][o]].parentSpan PROVE FALSE
        BY <2>1, <3>2, <4>1 DEF ListenerTypeOK
      <4> QED
        BY <1>2, <4>1
    <3>4. PICK c \in EfCommands : on[c] = g /\ table["EfCore"][c] = currentSpan[g]
      BY <3>2, <3>3 DEF RivalInv
    <3>5. table["EfCore"][c] # None
      BY <3>2, <3>3, <3>4 DEF Rival
    <3>6. CASE c # o
      <4>1. on'[c] = on[c]
        BY <2>0, <3>6 DEF Stopping
      <4>2. table'["EfCore"][c] = table["EfCore"][c]
        BY <1>2, <2>0, <3>6
      <4> QED
        BY <3>3, <3>4, <4>1, <4>2
    <3>7. CASE c = o
      <4>1. l # "EfCore"
        BY <3>3, <3>4, <3>5, <3>7 DEF Stopping
      <4>2. UNCHANGED on
        BY <2>0, <3>5, <3>7, <4>1 DEF Stopping
      <4>3. table'["EfCore"][c] = table["EfCore"][c]
        BY <1>2, <2>0, <4>1
      <4> QED
        BY <3>3, <3>4, <4>2, <4>3
    <3> QED
      BY <3>6, <3>7
  <2>3. ASSUME NEW u \in Spans PROVE ~Rival(span[u].parentSpan)'
    <3>1. CASE span[u].parentSpan = None
      BY <1>2, <3>1 DEF Rival
    <3>2. CASE span[u].parentSpan # None
      BY <1>2, <1>13, <2>1, <3>2
    <3> QED
      BY <3>1, <3>2
  <2> QED
    BY <2>2, <2>3 DEF RivalInv
<1>15. CaptureInv'
  <2>0. /\ \A c \in EfCommands \cup SqlCommands : c \in Operations
        /\ "EfCore" \in Listeners
    BY DEF Operations, Listeners
  <2>1. \A q \in Operations : SpansOf(q)' = SpansOf(q)
    BY <1>1 DEF SpansOf
  <2>2. \A q \in Operations : OneSpan(q)' = OneSpan(q) /\ NoopSpans(q)' = NoopSpans(q)
    BY <1>2, <2>1 DEF OneSpan, NoopSpans, SpansOf
  <2>3. \A q \in Operations : context'[q].transaction = context[q].transaction
    BY <1>3
  <2>4. \A q \in Operations : /\ phase'[q] = "new" => phase[q] = "new"
                              /\ phase'[q] \notin {"new", "ef"} => phase[q] \notin {"new", "ef"}
                              /\ phase'[q] = "ef" => q # o /\ phase[q] = "ef"
    BY DEF Stopping
  <2>5. \A c \in EfCommands \cup SqlCommands :
          /\ phase'[c] = "new" => SpansOf(c)' = {}
          /\ context'[c].transaction = None => SpansOf(c)' = {}
          /\ phase'[c] \notin {"new", "ef"} /\ context'[c].transaction # None => OneSpan(c)' \/ NoopSpans(c)'
    BY <2>0, <2>1, <2>2, <2>3, <2>4 DEF CaptureInv
  <2>6. ASSUME NEW c \in EfCommands, phase'[c] = "ef"
        PROVE  /\ context'[c].transaction = currentTransaction'[on'[c]]
               /\ SpansOf(c)' # {} => OneSpan(c)'
               /\ \A u \in SpansOf(c)' : flag'[u] = "EfCore" /\ (Made(u)' => table'["EfCore"][c] = u)
    <3>1. c # o /\ phase[c] = "ef"
      BY <2>0, <2>4, <2>6
    <3>2. on'[c] = on[c] /\ table'["EfCore"][c] = table["EfCore"][c]
      BY <1>2, <2>0, <3>1 DEF Stopping
    <3>3. \A u \in SpansOf(c) : u \in Spans
      BY DEF SpansOf
    <3> QED
      BY <1>1, <1>5, <2>0, <2>1, <2>2, <2>3, <3>1, <3>2, <3>3 DEF CaptureInv
  <2> QED
    BY <2>5, <2>6 DEF CaptureInv
<1> QED
  BY <1>2, <1>4, <1>6, <1>7, <1>8, <1>9, <1>10, <1>11, <1>12, <1>14, <1>15

-----------------------------------------------------------------------------
LEMMA StartKeeps ==
    ASSUME InstrumentationInv, NEW f \in Flows, NEW l \in Listeners, NEW o \in Operations,
           NEW from, NEW to, Start(f, l, o, from, to), Starting(f, l, o)
    PROVE  InstrumentationInv'
<1>1. context' = [context EXCEPT ![o] = Copy(f)] /\ UNCHANGED stack
  BY DEF Start
<1>2. CASE IgnoreStart(f, l)
  BY <1>1, <1>2, IgnoredStartKeeps
<1>3. ASSUME NEW s \in Spans, MakeSpan(f, l, o, s) PROVE InstrumentationInv'
  BY <1>1, <1>3, MadeStartKeeps
<1> QED
  BY <1>2, <1>3 DEF Start, StartEvent

LEMMA StartStepKeeps ==
    ASSUME InstrumentationInv, NEW f \in Flows,
           \/ \E r \in Requests : SendRequest(f, r)
           \/ \E c \in SqlCommands : ExecuteSql(f, c)
           \/ \E c \in EfCommands : ExecuteEf(f, c)
    PROVE  InstrumentationInv'
<1> USE DEF Operations, Listeners
<1>1. ASSUME NEW r \in Requests, SendRequest(f, r) PROVE InstrumentationInv'
  <2>1. Begins(f, "HttpClient", r)
    BY <1>1 DEF SendRequest, Start, Begins
  <2>2. Start(f, "HttpClient", r, {"new", "done"}, "sent")
    BY <1>1 DEF SendRequest
  <2> QED
    BY <2>1, <2>2, BeginsIsStarting, StartKeeps
<1>2. ASSUME NEW c \in SqlCommands, ExecuteSql(f, c) PROVE InstrumentationInv'
  <2>1. Begins(f, "SqlClient", c)
    BY <1>2 DEF ExecuteSql, Start, Begins
  <2>2. Start(f, "SqlClient", c, {"new"}, "sql")
    BY <1>2 DEF ExecuteSql
  <2> QED
    BY <2>1, <2>2, BeginsIsStarting, StartKeeps
<1>3. ASSUME NEW c \in EfCommands, ExecuteEf(f, c) PROVE InstrumentationInv'
  <2>1. Begins(f, "EfCore", c)
    BY <1>3 DEF ExecuteEf, Start, Begins
  <2>2. Start(f, "EfCore", c, {"new"}, "ef")
    BY <1>3 DEF ExecuteEf
  <2> QED
    BY <2>1, <2>2, BeginsIsStarting, StartKeeps
<1> QED
  BY <1>1, <1>2, <1>3

LEMMA EfExecutesSqlKeeps ==
    ASSUME InstrumentationInv, NEW c \in EfCommands, EfExecutesSql(c)
    PROVE  InstrumentationInv'
<1>1. c \in Operations /\ "SqlClient" \in Listeners
  BY DEF Operations, Listeners
<1>2. PICK f \in Flows : f = on[c]
  BY <1>1 DEF EfExecutesSql, InstrumentationInv, ListenerInv, ListenerTypeOK
<1>3. PassesOn(f, "SqlClient", c) /\ Start(f, "SqlClient", c, {"ef"}, "sql")
  BY <1>2 DEF EfExecutesSql, Start, PassesOn
<1> QED
  BY <1>1, <1>3, PassesOnIsStarting, StartKeeps

LEMMA StopStepKeeps ==
    ASSUME InstrumentationInv, NEW failed \in BOOLEAN,
           \/ \E r \in Requests : RequestDone(r, failed)
           \/ \E c \in SqlCommands : SqlDone(c, failed)
           \/ \E c \in EfCommands : EfDone(c, failed) \/ \E f \in Flows \cup {None} : EfSqlDone(c, f, failed)
    PROVE  InstrumentationInv'
<1>1. ASSUME NEW f \in Flows \cup {None}, NEW l \in Listeners, NEW o \in Operations, NEW from, NEW to,
             Stop(f, l, o, from, to, failed), Stopping(f, l, o)
      PROVE  InstrumentationInv'
  BY <1>1, StopKeeps DEF Stop
<1>2. \A o \in Operations : on[o] \in Flows \cup {None}
  BY DEF InstrumentationInv, ListenerInv, ListenerTypeOK
<1>3. Requests \subseteq Operations /\ SqlCommands \subseteq Operations /\ EfCommands \subseteq Operations
      /\ "HttpClient" \in Listeners /\ "SqlClient" \in Listeners /\ "EfCore" \in Listeners
  BY DEF Operations, Listeners
<1>4. ASSUME NEW r \in Requests, RequestDone(r, failed) PROVE InstrumentationInv'
  <2>1. Stop(on[r], "HttpClient", r, "sent", "done", failed)
    BY <1>4 DEF RequestDone
  <2> QED
    BY <1>1, <1>2, <1>3, <1>4, <2>1, RequestIsStopping
<1>5. ASSUME NEW c \in SqlCommands, SqlDone(c, failed) PROVE InstrumentationInv'
  <2>1. Stop(on[c], "SqlClient", c, "sql", "done", failed)
    BY <1>5 DEF SqlDone
  <2> QED
    BY <1>1, <1>2, <1>3, <1>5, <2>1, SqlIsStopping
<1>6. ASSUME NEW c \in EfCommands, NEW f \in Flows \cup {None}, EfSqlDone(c, f, failed)
      PROVE  InstrumentationInv'
  <2>1. Stop(f, "SqlClient", c, "sql", "answered", failed)
    BY <1>6 DEF EfSqlDone
  <2> QED
    BY <1>1, <1>3, <1>6, <2>1, EfSqlIsStopping
<1>7. ASSUME NEW c \in EfCommands, EfDone(c, failed) PROVE InstrumentationInv'
  <2>1. Stop(on[c], "EfCore", c, "answered", "done", failed)
    BY <1>7 DEF EfDone
  <2> QED
    BY <1>1, <1>2, <1>3, <1>7, <2>1, EfIsStopping
<1> QED
  BY <1>4, <1>5, <1>6, <1>7

LEMMA InstrumentationInitial == InstrumentationInit => InstrumentationInv
<1> SUFFICES ASSUME InstrumentationInit PROVE InstrumentationInv
  OBVIOUS
<1> USE SegmentConstants, OperationConstants DEF InstrumentationInit
<1>1. SegmentInv
  BY SegmentsInitial
<1>2. ListenerTypeOK
  BY DEF ListenerTypeOK, Contexts, Phases, Segments
<1>3. MadeInv
  BY DEF MadeInv, Init, NoSpan
<1>4. PhaseInv /\ TableInv
  BY DEF PhaseInv, Phased, TableInv, Operations
<1>5. MadeForInv /\ WaitInv
  BY DEF MadeForInv, WaitInv, Operations, Listeners
<1>6. BlameInv /\ HeaderInv
  BY DEF BlameInv, HeaderInv, Init, Idle, Operations, Listeners
<1>7. RivalInv
  BY DEF RivalInv, Rival, Init, NoSpan
<1>8. CaptureInv
  <2>1. \A o \in Operations : SpansOf(o) = {}
    BY DEF SpansOf
  <2> QED
    BY <2>1 DEF CaptureInv, Operations
<1> QED
  BY <1>1, <1>2, <1>3, <1>4, <1>5, <1>6, <1>7, <1>8 DEF InstrumentationInv, ListenerInv

LEMMA InstrumentationStep ==
    InstrumentationInv /\ [InstrumentationNext]_<<vars, listenerVars>> => InstrumentationInv'
<1> SUFFICES ASSUME InstrumentationInv, [InstrumentationNext]_<<vars, listenerVars>>
             PROVE  InstrumentationInv'
  OBVIOUS
<1>1. ASSUME NEW f \in Flows,
             \/ SpanConstructed(f) \/ TransactionConstructed(f)
             \/ \E t \in Transactions : BeginTransaction(f, t)
             \/ \E s \in Spans : OpenSpan(f, s)
             \/ CloseSpan(f) \/ CloseTransaction(f)
             \/ \E g \in Flows : ForkFlow(f, g)
             \/ \E r \in Requests : SendRequest(f, r)
             \/ \E c \in SqlCommands : ExecuteSql(f, c)
             \/ \E c \in EfCommands : ExecuteEf(f, c)
      PROVE  InstrumentationInv'
  BY <1>1, SpanConstructedKeeps, TransactionStepKeeps, OpenSpanKeeps, CloseSpanKeeps, ForkFlowKeeps,
     StartStepKeeps
<1>2. ASSUME NEW failed \in BOOLEAN,
             \/ \E r \in Requests : RequestDone(r, failed)
             \/ \E c \in SqlCommands : SqlDone(c, failed)
             \/ \E c \in EfCommands :
                   EfDone(c, failed) \/ \E f \in Flows \cup {None} : EfSqlDone(c, f, failed)
      PROVE  InstrumentationInv'
  BY <1>2, StopStepKeeps
<1>3. CASE UNCHANGED <<vars, listenerVars>>
  <2>1. SegmentInv' /\ UNCHANGED <<tx, span, currentSpan, currentTransaction, call>>
    BY <1>3, OtherStepKeeps DEF InstrumentationInv, vars
  <2>2. StaysReal
    BY <2>1 DEF StaysReal, ShouldBeSentToApmServer
  <2>3. Quiet
    BY <2>1, <2>2 DEF Quiet, Kept, InstrumentationInv, ListenerInv, MadeInv, Made
  <2> QED
    BY <1>3, <2>1, <2>3, QuietKeeps DEF InstrumentationInv, ListenerInv, ListenerTypeOK, listenerVars
<1> QED
  BY <1>1, <1>2, <1>3, EfExecutesSqlKeeps DEF InstrumentationNext

LEMMA InstrumentationInvariant == InstrumentationSpec => []InstrumentationInv
BY InstrumentationInitial, InstrumentationStep, PTL DEF InstrumentationSpec

(* A stop event, on the flow or in a callback, finds the span of its start *)
(* event, so that no operation leaves a span open or a table entry behind. *)
THEOREM OperationsLeaveNothingOpen == InstrumentationSpec => []NothingLeftOpen
<1>1. InstrumentationInv => NothingLeftOpen
  <2> SUFFICES ASSUME InstrumentationInv, NEW o \in Operations, phase[o] \in {"new", "done"}
               PROVE  /\ \A s \in SpansOf(o) : span[s].ended
                      /\ \A l \in Listeners : table[l][o] = None
    BY DEF NothingLeftOpen
  <2> USE SegmentConstants, OperationConstants DEF InstrumentationInv, ListenerInv
  <2>1. \A l \in Listeners : ~Active(l, o)
    BY DEF Active
  <2>2. \A l \in Listeners : table[l][o] = None
    BY <2>1 DEF TableInv
  <2>3. ASSUME NEW s \in Spans, madeFor[s] = o PROVE span[s].ended
    <3>1. o # None /\ flag[s] \in Listeners /\ s # None
      BY <2>3 DEF MadeForInv, ListenerTypeOK, Operations, Segments
    <3>2. span[s].kind # "none" /\ span[s].kind # "constructing"
      BY <2>1, <2>3, <3>1 DEF MadeInv, MadeForInv, Listeners
    <3>3. Made(s)
      BY <3>2 DEF SegmentInv, SegmentsTypeOK, SpanObjects, Kinds, Made
    <3> QED
      BY <2>2, <2>3, <3>1, <3>3 DEF MadeForInv
  <2> QED
    BY <2>2, <2>3 DEF SpansOf
<1> QED
  BY <1>1, InstrumentationInvariant, PTL

(* A command that passes through EF Core and SqlClient is captured, and by *)
(* one of them only, whichever span was the current one when it started.   *)
THEOREM CommandsAreCapturedOnce == InstrumentationSpec => []CommandCapturedOnce
<1>1. InstrumentationInv => CommandCapturedOnce
  <2> SUFFICES ASSUME InstrumentationInv, NEW c \in EfCommands \cup SqlCommands,
                      phase[c] = "done", context[c].transaction # None
               PROVE  \/ Cardinality(SpansOf(c)) = 1
                      \/ SpansOf(c) # {} /\ RealSpansOf(c) = {}
    BY DEF CommandCapturedOnce
  <2>1. OneSpan(c) \/ NoopSpans(c)
    BY DEF InstrumentationInv, ListenerInv, CaptureInv
  <2>2. CASE OneSpan(c)
    BY <2>2, FS_Singleton DEF OneSpan
  <2>3. CASE NoopSpans(c)
    BY <2>3 DEF NoopSpans, RealSpansOf
  <2> QED
    BY <2>1, <2>2, <2>3
<1> QED
  BY <1>1, InstrumentationInvariant, PTL

(* The listeners end spans in another place than their constructors, on    *)
(* the flow or in a callback; a segment is still sent once, after it       *)
(* ended, and errors still name segments that are sent.                    *)
THEOREM ListenersKeepSegments == InstrumentationSpec => [](QueuedOnce /\ ReferencedIsSent)
<1>1. InstrumentationInv => QueuedOnce /\ ReferencedIsSent
  BY DEF InstrumentationInv, SegmentInv, QueuedOnce, TransactionInv, QueueInv, SegmentsTypeOK,
         Kind, Ended, Segments, ReferencedIsSent, ReferenceInv
<1> QED
  BY <1>1, InstrumentationInvariant, PTL

-----------------------------------------------------------------------------
(* The spans that the application has opened: each is what its successor   *)
(* started from, or an ancestor of that, and ending a span that a listener *)
(* has made goes back to what covered them before.  It rests on the order  *)
(* in which a flow opens and closes spans and waits for operations, so it  *)
(* is an invariant of its own, beside InstrumentationInv.                  *)
Covers(u, f, n) ==
    /\ \A i \in 1 .. n : stack[f][i] \in Chain(u)
    /\ n > 0 => u = stack[f][n] \/ (u \in Spans /\ flag[u] # "None")

(* A flow is in the constructor of a span that the application opens. *)
InConstructor(f) == call[f].at = "span" /\ flag[call[f].of] = "None"

NestedInv(f) ==
    \A i \in 1 .. Len(stack[f]) :
       /\ flag[stack[f][i]] = "None" /\ ~span[stack[f][i]].ended
       /\ Made(stack[f][i]) \/ (i = Len(stack[f]) /\ InConstructor(f) /\ call[f].of = stack[f][i])
       /\ Covers(span[stack[f][i]].parentSpan, f, i - 1)

CurrentInv(f) ==
    /\ ~InConstructor(f) => Covers(currentSpan[f], f, Len(stack[f]))
    /\ call[f].at = "span" => span[call[f].of].parentSpan = currentSpan[f]
    /\ InConstructor(f) => Len(stack[f]) > 0 /\ stack[f][Len(stack[f])] = call[f].of

(* Where the flow will be when the operation it waits for is over. *)
ReturnInv(f) ==
    \A l \in Listeners, o \in Operations : on[o] = f /\ table[l][o] # None =>
       Covers(span[table[l][o]].parentSpan, f, Len(stack[f]))

DistinctInv ==
    \A f, g \in Flows : \A i \in 1 .. Len(stack[f]), j \in 1 .. Len(stack[g]) :
       stack[f][i] = stack[g][j] => f = g /\ i = j

(* The configuration stays, so a span never starts from a real segment     *)
(* without a parent, and the sender is there when it ends.                 *)
RecordingInv ==
    /\ ~senderDisposed
    /\ \A t \in Transactions :
          /\ tx[t].kind = "constructing" => config.recording
          /\ tx[t].kind = "real" => tx[t].config.recording

FlowInv(f) == NestedInv(f) /\ CurrentInv(f) /\ ReturnInv(f)

StackInv == DistinctInv /\ RecordingInv /\ \A f \in Flows : FlowInv(f)

-----------------------------------------------------------------------------
(* The chain of a span, in the state after a step. *)
LEMMA ChainItself == \A s \in Spans : s \in Chain(s)'
BY SegmentConstants DEF Chain, Segments

LEMMA ChainOfChild ==
    ASSUME NEW s \in Spans, NEW x, x \in Chain(span[s].parentSpan)'
    PROVE  x \in Chain(s)'
<1> SUFFICES ASSUME NEW S \in SUBSET Spans, s \in S \cup {None}, LeadsUp(S)' PROVE x \in S
  BY DEF Chain
<1>1. s \in S
  BY SegmentConstants DEF Segments
<1>2. span'[s].parentSpan \in S \cup {None}
  BY <1>1 DEF LeadsUp
<1> QED
  BY <1>2 DEF Chain

(* What a step leaves of a span that there is already. *)
Gentle ==
    \A y \in Spans : span[y].kind # "none" =>
       /\ span'[y].parentSpan = span[y].parentSpan /\ flag'[y] = flag[y]
       /\ Made(y) => Made(y)'

LEMMA ChainGrows ==
    ASSUME MadeInv, Gentle, NEW u, NEW x \in Chain(u)
    PROVE  x \in Chain(u)'
<1> SUFFICES ASSUME NEW S \in SUBSET Spans, u \in S \cup {None}, LeadsUp(S)' PROVE x \in S
  BY DEF Chain
<1>1. \A y \in Spans : span[y].parentSpan \in {None, span'[y].parentSpan}
  BY DEF MadeInv, Gentle
<1>2. LeadsUp(S)
  BY <1>1 DEF LeadsUp
<1> QED
  BY <1>2 DEF Chain

LEMMA CoversStays ==
    ASSUME MadeInv, Gentle, NEW f \in Flows, NEW u, NEW n \in Nat, Covers(u, f, n),
           \A i \in 1 .. n : stack'[f][i] = stack[f][i]
    PROVE  Covers(u, f, n)'
<1>1. \A i \in 1 .. n : stack'[f][i] \in Chain(u)'
  BY ChainGrows DEF Covers
<1>2. u \in Spans /\ flag[u] # "None" => flag'[u] # "None"
  BY DEF MadeInv, Gentle
<1>3. n > 0 => u = stack'[f][n] \/ (u \in Spans /\ flag'[u] # "None")
  BY <1>2 DEF Covers
<1> QED
  BY <1>1, <1>3 DEF Covers

(* A span made from the current one covers what that did. *)
LEMMA CoversChild ==
    ASSUME NEW f \in Flows, NEW s \in Spans, NEW n \in Nat, Covers(span[s].parentSpan, f, n)',
           flag'[s] # "None"
    PROVE  Covers(s, f, n)'
BY ChainOfChild DEF Covers

LEMMA CoversTop ==
    ASSUME NEW f \in Flows, NEW s \in Spans, NEW n \in Nat, n > 0,
           Covers(span[s].parentSpan, f, n - 1)', stack'[f][n] = s
    PROVE  Covers(s, f, n)'
<1>1. \A i \in 1 .. n : i \in 1 .. n - 1 \/ i = n
  OBVIOUS
<1> QED
  BY <1>1, ChainOfChild, ChainItself DEF Covers

-----------------------------------------------------------------------------
LEMMA NestedStays ==
    ASSUME InstrumentationInv, Gentle, NEW f \in Flows, NestedInv(f), stack'[f] = stack[f],
           \A i \in 1 .. Len(stack[f]) : ~span'[stack[f][i]].ended,
           \/ call'[f] = call[f]
           \/ \A i \in 1 .. Len(stack[f]) : Made(stack[f][i]) \/ Made(stack[f][i])'
    PROVE  NestedInv(f)'
<1> USE DEF InstrumentationInv, ListenerInv
<1> SUFFICES ASSUME NEW i \in 1 .. Len(stack[f]), NEW s, s = stack[f][i]
             PROVE  /\ flag'[s] = "None" /\ ~span'[s].ended
                    /\ \/ Made(s)'
                       \/ i = Len(stack[f]) /\ InConstructor(f)' /\ call'[f].of = s
                    /\ Covers(span[s].parentSpan, f, i - 1)'
  BY DEF NestedInv
<1>1. s \in Spans /\ Len(stack[f]) \in Nat
  BY DEF ListenerTypeOK
<1>2. /\ flag[s] = "None" /\ Covers(span[s].parentSpan, f, i - 1)
      /\ Made(s) \/ (i = Len(stack[f]) /\ InConstructor(f) /\ call[f].of = s)
  BY DEF NestedInv
<1>3. span[s].kind # "none"
  BY <1>2 DEF Made, InConstructor, SegmentInv, CallInv
<1>4. span'[s].parentSpan = span[s].parentSpan /\ flag'[s] = flag[s] /\ (Made(s) => Made(s)')
  BY <1>1, <1>3 DEF Gentle
<1>5. Made(s)' \/ (i = Len(stack[f]) /\ InConstructor(f)' /\ call'[f].of = s)
  BY <1>2, <1>4 DEF InConstructor
<1>6. PICK u : u = span[s].parentSpan
  OBVIOUS
<1>7. Covers(u, f, i - 1)'
  BY <1>1, <1>2, <1>6, CoversStays
<1> QED
  BY <1>2, <1>4, <1>5, <1>6, <1>7

LEMMA ReturnStays ==
    ASSUME InstrumentationInv, Gentle, NEW f \in Flows, ReturnInv(f), stack'[f] = stack[f],
           \A l \in Listeners, o \in Operations : on'[o] = f /\ table'[l][o] # None =>
              \/ on[o] = f /\ table'[l][o] = table[l][o]
              \/ /\ span'[table'[l][o]].parentSpan = currentSpan[f]
                 /\ Covers(currentSpan[f], f, Len(stack[f]))
    PROVE  ReturnInv(f)'
<1> USE DEF InstrumentationInv, ListenerInv
<1> SUFFICES ASSUME NEW l \in Listeners, NEW o \in Operations, on'[o] = f, NEW s, s = table'[l][o], s # None
             PROVE  Covers(span[s].parentSpan, f, Len(stack[f]))'
  BY DEF ReturnInv
<1>1. Len(stack[f]) \in Nat
  BY DEF ListenerTypeOK
<1>2. \/ on[o] = f /\ s = table[l][o]
      \/ span'[s].parentSpan = currentSpan[f] /\ Covers(currentSpan[f], f, Len(stack[f]))
  OBVIOUS
<1>3. CASE on[o] = f /\ s = table[l][o]
  <2>1. s \in Spans /\ Made(s)
    BY <1>3 DEF TableInv, ListenerTypeOK
  <2>2. PICK u : u = span[s].parentSpan
    OBVIOUS
  <2>3. span'[s].parentSpan = u
    BY <2>1, <2>2 DEF Gentle, Made
  <2>4. Covers(u, f, Len(stack[f]))
    BY <1>3, <2>2 DEF ReturnInv
  <2>5. PICK n \in Nat : n = Len(stack[f])
    BY <1>1
  <2>6. Covers(u, f, n)'
    BY <2>4, <2>5, CoversStays
  <2> QED
    BY <2>3, <2>5, <2>6
<1>4. CASE span'[s].parentSpan = currentSpan[f] /\ Covers(currentSpan[f], f, Len(stack[f]))
  <2>0. PICK n \in Nat : n = Len(stack[f])
    BY <1>1
  <2>1. PICK u : u = currentSpan[f]
    OBVIOUS
  <2>2. Covers(u, f, n)'
    BY <1>4, <2>0, <2>1, CoversStays
  <2> QED
    BY <1>4, <2>0, <2>1, <2>2
<1> QED
  BY <1>2, <1>3, <1>4

LEMMA CurrentStays ==
    ASSUME InstrumentationInv, Gentle, NEW f \in Flows, CurrentInv(f), stack'[f] = stack[f],
           currentSpan'[f] = currentSpan[f],
           call'[f] = call[f] \/ (call[f].at # "span" /\ call'[f].at # "span")
    PROVE  CurrentInv(f)'
<1> USE DEF InstrumentationInv, ListenerInv
<1>1. call[f].at = "span" => call[f].of \in Spans /\ span[call[f].of].kind # "none"
  BY DEF SegmentInv, CallInv
<1>2. call[f].at = "span" =>
         flag'[call[f].of] = flag[call[f].of] /\ span'[call[f].of].parentSpan = span[call[f].of].parentSpan
  BY <1>1 DEF Gentle
<1>3. InConstructor(f)' <=> InConstructor(f)
  BY <1>2 DEF InConstructor
<1>4. ASSUME ~InConstructor(f) PROVE Covers(currentSpan[f], f, Len(stack[f]))'
  <2>1. PICK n \in Nat : n = Len(stack[f])
    BY DEF ListenerTypeOK
  <2>2. PICK u : u = currentSpan[f]
    OBVIOUS
  <2>3. Covers(u, f, n)'
    BY <1>4, <2>1, <2>2, CoversStays DEF CurrentInv
  <2> QED
    BY <2>1, <2>2, <2>3
<1>5. call'[f].at = "span" => span'[call'[f].of].parentSpan = currentSpan'[f]
  BY <1>2 DEF CurrentInv
<1>6. InConstructor(f)' => Len(stack'[f]) > 0 /\ stack'[f][Len(stack'[f])] = call'[f].of
  BY <1>3 DEF CurrentInv, InConstructor
<1> QED
  BY <1>3, <1>4, <1>5, <1>6 DEF CurrentInv

(* A flow that does nothing while another one does. *)
LEMMA FlowStays ==
    ASSUME InstrumentationInv, Gentle, NEW f \in Flows, FlowInv(f), stack'[f] = stack[f],
           currentSpan'[f] = currentSpan[f],
           call'[f] = call[f] \/ (call[f].at # "span" /\ call'[f].at # "span"),
           \A i \in 1 .. Len(stack[f]) : ~span'[stack[f][i]].ended,
           \A l \in Listeners, o \in Operations : on'[o] = f /\ table'[l][o] # None =>
              on[o] = f /\ table'[l][o] = table[l][o]
    PROVE  FlowInv(f)'
<1>1. \/ call'[f] = call[f]
      \/ \A i \in 1 .. Len(stack[f]) : Made(stack[f][i]) \/ Made(stack[f][i])'
  BY DEF FlowInv, NestedInv, InConstructor
<1>2. NestedInv(f)'
  BY <1>1, NestedStays DEF FlowInv
<1>3. CurrentInv(f)'
  BY CurrentStays DEF FlowInv
<1>4. ReturnInv(f)'
  BY ReturnStays DEF FlowInv
<1> QED
  BY <1>2, <1>3, <1>4 DEF FlowInv

-----------------------------------------------------------------------------
(* The steps of one flow.  A span starts from the current one. *)
LEMMA StartsFromCurrent ==
    ASSUME InstrumentationInv, RecordingInv, NEW f \in Flows, NEW s \in Spans, NEW p \in Segments,
           p = Current(f), NEW internal \in BOOLEAN, StartSpan(f, s, p, internal)
    PROVE  span'[s].parentSpan = currentSpan[f]
<1> USE SegmentConstants DEF InstrumentationInv, SegmentInv, SegmentsTypeOK
<1>1. IF p \in Spans THEN p = currentSpan[f] ELSE currentSpan[f] = None
  BY DEF Current, Segments
<1>2. CASE Kind(p) = "noop"
  <2>1. PICK q \in Spans \cup {None} : q = IF p \in Spans THEN p ELSE None
    OBVIOUS
  <2>2. NewNoopSpan(f, s, q)
    BY <1>2, <2>1 DEF StartSpan
  <2> QED
    BY <1>1, <2>1, <2>2 DEF NewNoopSpan, NoSpan
<1>3. CASE Kind(p) = "real"
  <2>1. EnclosingTransaction(p) \in Transactions /\ tx[EnclosingTransaction(p)].kind = "real"
    BY <1>3 DEF Kind, EnclosingTransaction, FamilyInv, Born, Segments
  <2>2. ConstructSpan(f, s, p)
    BY <1>3, <2>1 DEF StartSpan, RecordingInv
  <2>3. span'[s].parentSpan = IF p \in Spans THEN p ELSE None
    BY <2>2 DEF ConstructSpan, IncrementTotal, NewSpan
  <2> QED
    BY <1>1, <2>3
<1> QED
  BY <1>2, <1>3 DEF StartSpan

LEMMA StartedIsGentle ==
    ASSUME InstrumentationInv, RecordingInv, NEW f \in Flows, NEW s \in Spans, NEW p \in Segments,
           p = Current(f), NEW internal \in BOOLEAN, StartSpan(f, s, p, internal),
           \A u \in Spans \ {s} : flag'[u] = flag[u]
    PROVE  Gentle /\ RecordingInv'
<1>1. span[s].kind = "none" /\ \A u \in Spans \ {s} : span'[u] = span[u]
  BY SpanIsStarted DEF InstrumentationInv
<1>2. Gentle
  BY <1>1 DEF Gentle, Made
<1>3. tx' = tx \/ \E t \in Transactions : tx' = [tx EXCEPT ![t].total = @ + 1]
  <2> USE SegmentConstants DEF InstrumentationInv, SegmentInv, SegmentsTypeOK
  <2>1. CASE Kind(p) = "real" /\ ConstructSpan(f, s, p)
    <3>1. EnclosingTransaction(p) \in Transactions
      BY <2>1 DEF FamilyInv, Born, Kind, EnclosingTransaction, Segments
    <3> QED
      BY <2>1, <3>1 DEF ConstructSpan, IncrementTotal
  <2> QED
    BY <2>1 DEF StartSpan, NewNoopSpan
<1>4. \A t \in Transactions : tx'[t].kind = tx[t].kind /\ tx'[t].config = tx[t].config
  BY <1>3 DEF InstrumentationInv, SegmentInv, SegmentsTypeOK, TransactionObjects
<1>5. UNCHANGED <<config, senderDisposed>>
  BY DEF StartSpan
<1> QED
  BY <1>2, <1>4, <1>5 DEF RecordingInv

(* A step that opens and closes nothing and leaves the current spans.  The *)
(* listeners' tables lose at most entries.                                 *)
LEMMA CalmStep ==
    ASSUME InstrumentationInv, StackInv, Gentle, RecordingInv', UNCHANGED <<currentSpan, stack>>,
           \A f \in Flows : call'[f] = call[f] \/ (call[f].at # "span" /\ call'[f].at # "span"),
           \A s \in Spans : flag[s] = "None" => span'[s].ended = span[s].ended,
           \A l \in Listeners, o \in Operations : on'[o] # None /\ table'[l][o] # None =>
              on[o] = on'[o] /\ table'[l][o] = table[l][o]
    PROVE  StackInv'
<1> USE SegmentConstants, OperationConstants
<1>1. ASSUME NEW f \in Flows PROVE FlowInv(f)'
  <2>1. \A i \in 1 .. Len(stack[f]) : ~span'[stack[f][i]].ended
    <3>1. \A i \in 1 .. Len(stack[f]) : stack[f][i] \in Spans
      BY DEF InstrumentationInv, ListenerInv, ListenerTypeOK
    <3> QED
      BY <3>1 DEF StackInv, FlowInv, NestedInv
  <2> QED
    BY <1>1, <2>1, FlowStays DEF StackInv
<1>2. DistinctInv'
  BY DEF StackInv, DistinctInv
<1> QED
  BY <1>1, <1>2 DEF StackInv

LEMMA TransactionStepKeepsStack ==
    ASSUME InstrumentationInv, StackInv, NEW f \in Flows,
           \/ TransactionConstructed(f) \/ CloseTransaction(f)
           \/ \E t \in Transactions : BeginTransaction(f, t)
    PROVE  StackInv'
<1> USE SegmentConstants DEF InstrumentationInv, SegmentInv, SegmentsTypeOK
<1>1. UNCHANGED <<config, span, currentSpan, senderDisposed, on, flag, table, stack>>
  BY DEF TransactionConstructed, StartTransactionInternal, CloseTransaction, EndTransaction,
         BeginTransaction, StartTransaction, listenerVars
<1>2. Gentle
  BY <1>1 DEF Gentle, Made
<1>3. RecordingInv'
  <2>1. CASE TransactionConstructed(f)
    <3>1. PICK t \in Transactions : t = call[f].of /\ tx[t].kind = "constructing"
      BY <2>1 DEF TransactionConstructed, StartTransactionInternal, CallInv
    <3>2. \A u \in Transactions : u # t => tx'[u] = tx[u]
      BY <2>1, <3>1 DEF TransactionConstructed, StartTransactionInternal
    <3>3. tx'[t].kind = "real" /\ tx'[t].config = config
      BY <2>1, <3>1 DEF TransactionConstructed, StartTransactionInternal, TransactionObjects
    <3> QED
      BY <1>1, <3>1, <3>2, <3>3 DEF StackInv, RecordingInv
  <2>2. ASSUME NEW t \in Transactions, BeginTransaction(f, t) PROVE RecordingInv'
    <3>1. \A u \in Transactions : u # t => tx'[u] = tx[u]
      BY <2>2 DEF BeginTransaction, StartTransaction
    <3>2. tx'[t].kind = "noop" \/ (tx'[t].kind = "constructing" /\ config.recording)
      BY <2>2 DEF BeginTransaction, StartTransaction, TransactionObjects
    <3> QED
      BY <1>1, <3>1, <3>2 DEF StackInv, RecordingInv
  <2>3. CASE CloseTransaction(f)
    <3>1. \A u \in Transactions : tx'[u].kind = tx[u].kind /\ tx'[u].config = tx[u].config
      BY <2>3 DEF CloseTransaction, EndTransaction, TransactionObjects
    <3> QED
      BY <1>1, <3>1 DEF StackInv, RecordingInv
  <2> QED
    BY <2>1, <2>2, <2>3
<1>4. \A g \in Flows : call'[g] = call[g] \/ (call[g].at # "span" /\ call'[g].at # "span")
  BY DEF TransactionConstructed, StartTransactionInternal, CloseTransaction, EndTransaction,
         BeginTransaction, StartTransaction, Idle
<1> HIDE DEF InstrumentationInv
<1> QED
  BY <1>1, <1>2, <1>3, <1>4, CalmStep

LEMMA ForkFlowKeepsStack ==
    ASSUME InstrumentationInv, StackInv, NEW f \in Flows, NEW g \in Flows, ForkFlow(f, g)
    PROVE  StackInv'
<1> USE SegmentConstants, OperationConstants
<1>1. /\ UNCHANGED <<config, tx, span, call, senderDisposed, on, flag, table, stack>>
      /\ stack[g] = <<>> /\ call[g] = Idle /\ \A o \in Operations : on[o] # g
  BY DEF ForkFlow, Fork, Free, Waits, listenerVars
<1>2. \A h \in Flows \ {g} : currentSpan'[h] = currentSpan[h]
  BY DEF ForkFlow, Fork, InstrumentationInv, SegmentInv, SegmentsTypeOK
<1>3. Gentle
  BY <1>1 DEF Gentle, Made
<1>4. ASSUME NEW h \in Flows \ {g} PROVE FlowInv(h)'
  <2>1. \A i \in 1 .. Len(stack[h]) : ~span'[stack[h][i]].ended
    BY <1>1 DEF StackInv, FlowInv, NestedInv
  <2>2. FlowInv(h) /\ call'[h] = call[h] /\ stack'[h] = stack[h] /\ currentSpan'[h] = currentSpan[h]
    BY <1>1, <1>2, <1>4 DEF StackInv
  <2>3. \A l \in Listeners, o \in Operations : on'[o] = h /\ table'[l][o] # None =>
           on[o] = h /\ table'[l][o] = table[l][o]
    BY <1>1
  <2> QED
    BY <1>3, <2>1, <2>2, <2>3, FlowStays
<1>5. FlowInv(g)'
  <2>1. Len(stack'[g]) = 0 /\ call'[g].at # "span"
    BY <1>1 DEF Idle
  <2>2. NestedInv(g)'
    BY <2>1 DEF NestedInv
  <2>3. CurrentInv(g)'
    BY <2>1 DEF CurrentInv, InConstructor, Covers
  <2>4. ReturnInv(g)'
    BY <1>1 DEF ReturnInv
  <2> QED
    BY <2>2, <2>3, <2>4 DEF FlowInv
<1>6. DistinctInv' /\ RecordingInv'
  BY <1>1 DEF StackInv, DistinctInv, RecordingInv
<1> QED
  BY <1>4, <1>5, <1>6 DEF StackInv

LEMMA StackIsPushed ==
    ASSUME stack \in [Flows -> Seq(Spans)], NEW f \in Flows, NEW s \in Spans,
           stack' = [stack EXCEPT ![f] = Append(@, s)]
    PROVE  /\ Len(stack'[f]) = Len(stack[f]) + 1 /\ Len(stack[f]) \in Nat
           /\ stack'[f][Len(stack[f]) + 1] = s
           /\ \A i \in 1 .. Len(stack[f]) : stack'[f][i] = stack[f][i] /\ stack[f][i] \in Spans
           /\ \A g \in Flows \ {f} : stack'[g] = stack[g]
OBVIOUS

LEMMA StackIsPopped ==
    ASSUME stack \in [Flows -> Seq(Spans)], NEW f \in Flows, stack[f] # <<>>,
           stack' = [stack EXCEPT ![f] = SubSeq(@, 1, Len(@) - 1)]
    PROVE  /\ Len(stack'[f]) = Len(stack[f]) - 1 /\ Len(stack'[f]) \in Nat
           /\ Len(stack[f]) \in Nat \ {0} /\ stack[f][Len(stack[f])] \in Spans
           /\ \A i \in 1 .. Len(stack[f]) - 1 : stack'[f][i] = stack[f][i]
           /\ \A g \in Flows \ {f} : stack'[g] = stack[g]
<1>1. PICK q \in Seq(Spans) : q = stack[f]
  OBVIOUS
<1>2. stack'[f] = SubSeq(q, 1, Len(q) - 1) /\ \A g \in Flows \ {f} : stack'[g] = stack[g]
  BY <1>1
<1>3. Len(q) \in Nat \ {0} /\ q[Len(q)] \in Spans
  BY <1>1
<1>4. PICK n \in Nat : n = Len(q) - 1
  <2>1. Len(q) - 1 \in Nat
    BY <1>3
  <2> QED
    BY <2>1
<1>5. Len(SubSeq(q, 1, n)) = n /\ \A i \in 1 .. n : SubSeq(q, 1, n)[i] = q[1 + i - 1]
  BY <1>3, <1>4
<1>6. \A i \in 1 .. n : SubSeq(q, 1, n)[i] = q[i]
  BY <1>5
<1> QED
  BY <1>1, <1>2, <1>3, <1>4, <1>5, <1>6

LEMMA OpenSpanKeepsStack ==
    ASSUME InstrumentationInv, StackInv, NEW f \in Flows, NEW s \in Spans, OpenSpan(f, s)
    PROVE  StackInv'
<1> USE SegmentConstants, OperationConstants
<1>0. PICK n \in Nat : n = Len(stack[f])
  BY DEF InstrumentationInv, ListenerInv, ListenerTypeOK
<1>1. PICK p \in Segments, internal \in BOOLEAN : p = Current(f) /\ StartSpan(f, s, p, internal)
  BY DEF OpenSpan, Current, InstrumentationInv, SegmentInv, SegmentsTypeOK, Segments
<1>2. /\ UNCHANGED <<on, flag, table>> /\ call[f] = Idle
      /\ \A o \in Operations : on[o] # f
  BY DEF OpenSpan, Free, Waits
<1>3. /\ span[s].kind = "none" /\ ~span'[s].ended
      /\ \A u \in Spans \ {s} : span'[u] = span[u]
      /\ span'[s].parentSpan = currentSpan[f]
      /\ \/ /\ currentSpan' = currentSpan /\ call' = [call EXCEPT ![f] = [at |-> "span", of |-> s]]
         \/ Made(s)' /\ currentSpan' = [currentSpan EXCEPT ![f] = s] /\ call' = call
  BY <1>1, SpanIsStarted, StartsFromCurrent DEF StackInv, InstrumentationInv, Made
<1>4. Gentle /\ RecordingInv'
  BY <1>1, <1>2, StartedIsGentle DEF StackInv
<1>5. /\ Len(stack'[f]) = n + 1 /\ stack'[f][n + 1] = s
      /\ \A i \in 1 .. n : stack'[f][i] = stack[f][i] /\ stack[f][i] \in Spans
      /\ \A g \in Flows \ {f} : stack'[g] = stack[g]
  BY <1>0, StackIsPushed DEF OpenSpan, InstrumentationInv, ListenerInv, ListenerTypeOK
<1>6. \A g \in Flows : \A i \in 1 .. Len(stack[g]) :
         stack[g][i] \in Spans /\ stack[g][i] # s /\ ~span[stack[g][i]].ended
  <2>1. \A g \in Flows : \A i \in 1 .. Len(stack[g]) : stack[g][i] \in Spans
    BY DEF InstrumentationInv, ListenerInv, ListenerTypeOK
  <2>2. \A g \in Flows : call[g].at = "span" => span[call[g].of].kind = "constructing"
    BY DEF InstrumentationInv, SegmentInv, CallInv
  <2>3. ASSUME NEW g \in Flows, NEW i \in 1 .. Len(stack[g])
        PROVE  span[stack[g][i]].kind # "none" /\ ~span[stack[g][i]].ended
    BY <2>2 DEF StackInv, FlowInv, NestedInv, Made, InConstructor
  <2> QED
    BY <1>3, <2>1, <2>3
<1>7. flag[s] = "None"
  BY <1>3 DEF InstrumentationInv, ListenerInv, MadeInv
<1>8. ASSUME NEW g \in Flows \ {f} PROVE FlowInv(g)'
  <2>1. \A i \in 1 .. Len(stack[g]) : ~span'[stack[g][i]].ended
    BY <1>3, <1>6
  <2>2. FlowInv(g) /\ call'[g] = call[g] /\ stack'[g] = stack[g] /\ currentSpan'[g] = currentSpan[g]
    BY <1>3, <1>5, <1>8 DEF StackInv, InstrumentationInv, SegmentInv, SegmentsTypeOK
  <2>3. \A l \in Listeners, o \in Operations : on'[o] = g /\ table'[l][o] # None =>
           on[o] = g /\ table'[l][o] = table[l][o]
    BY <1>2
  <2> QED
    BY <1>4, <2>1, <2>2, <2>3, FlowStays
<1>9. PICK u : u = currentSpan[f]
  OBVIOUS
<1>10. Covers(u, f, n) /\ Covers(u, f, n)'
  <2>1. Covers(u, f, n)
    BY <1>0, <1>2, <1>9 DEF StackInv, FlowInv, CurrentInv, InConstructor, Idle
  <2> QED
    BY <1>4, <1>5, <2>1, CoversStays DEF InstrumentationInv, ListenerInv
<1>11. \/ /\ currentSpan'[f] = u /\ call'[f] = [at |-> "span", of |-> s]
       \/ Made(s)' /\ currentSpan'[f] = s /\ call'[f] = Idle
  BY <1>2, <1>3, <1>9 DEF InstrumentationInv, SegmentInv, SegmentsTypeOK
<1>12. NestedInv(f)'
  <2> SUFFICES ASSUME NEW i \in 1 .. n + 1, NEW x, x = stack'[f][i]
               PROVE  /\ flag'[x] = "None" /\ ~span'[x].ended
                      /\ Made(x)' \/ (i = n + 1 /\ InConstructor(f)' /\ call'[f].of = x)
                      /\ Covers(span[x].parentSpan, f, i - 1)'
    BY <1>5 DEF NestedInv
  <2>1. CASE i = n + 1
    <3>1. x = s /\ i - 1 = n
      BY <1>5, <2>1
    <3>2. Covers(span[s].parentSpan, f, n)'
      BY <1>3, <1>9, <1>10
    <3>3. flag'[s] = "None" /\ ~span'[s].ended
      BY <1>2, <1>3, <1>7
    <3>4. Made(s)' \/ (InConstructor(f)' /\ call'[f].of = s)
      BY <1>11, <3>3 DEF InConstructor
    <3> QED
      BY <2>1, <3>1, <3>2, <3>3, <3>4
  <2>2. CASE i \in 1 .. n
    <3>1. x = stack[f][i] /\ x \in Spans \ {s} /\ i \in 1 .. Len(stack[f])
      BY <1>0, <1>5, <1>6, <2>2
    <3>a. /\ flag[x] = "None" /\ ~span[x].ended
          /\ Made(x) /\ Covers(span[x].parentSpan, f, i - 1)
      BY <1>2, <3>1 DEF StackInv, FlowInv, NestedInv, InConstructor, Idle
    <3>2. PICK v : v = span[x].parentSpan
      OBVIOUS
    <3>3. Covers(v, f, i - 1)'
      <4>1. i - 1 \in Nat /\ \A j \in 1 .. i - 1 : stack'[f][j] = stack[f][j]
        BY <1>5, <2>2
      <4> QED
        BY <1>4, <3>a, <3>2, <4>1, CoversStays DEF InstrumentationInv, ListenerInv
    <3> QED
      BY <1>2, <1>3, <3>1, <3>a, <3>2, <3>3 DEF Made
  <2> QED
    BY <1>5, <2>1, <2>2
<1>13. CurrentInv(f)'
  <2>1. CASE currentSpan'[f] = u /\ call'[f] = [at |-> "span", of |-> s]
    BY <1>2, <1>3, <1>5, <1>7, <1>9, <2>1 DEF CurrentInv, InConstructor
  <2>2. CASE Made(s)' /\ currentSpan'[f] = s /\ call'[f] = Idle
    <3>1. PICK m \in Nat : m = n + 1 /\ m > 0 /\ m - 1 = n
      OBVIOUS
    <3>2. Covers(span[s].parentSpan, f, m - 1)'
      BY <1>3, <1>9, <1>10, <3>1
    <3>3. stack'[f][m] = s /\ m = Len(stack'[f])
      BY <1>5, <3>1
    <3>4. Covers(s, f, m)'
      BY <3>1, <3>2, <3>3, CoversTop
    <3>5. Covers(currentSpan[f], f, Len(stack[f]))'
      BY <2>2, <3>3, <3>4
    <3>6. call'[f].at # "span"
      BY <2>2 DEF Idle
    <3> QED
      BY <3>5, <3>6 DEF CurrentInv, InConstructor
  <2> QED
    BY <1>11, <2>1, <2>2
<1>14. FlowInv(f)'
  BY <1>2, <1>12, <1>13 DEF FlowInv, ReturnInv
<1>15. DistinctInv'
  <2>1. \A g \in Flows : \A i \in 1 .. Len(stack'[g]) :
           \/ g = f /\ i = n + 1 /\ stack'[g][i] = s
           \/ i \in 1 .. Len(stack[g]) /\ stack'[g][i] = stack[g][i] /\ stack[g][i] # s
    BY <1>0, <1>5, <1>6
  <2> SUFFICES ASSUME NEW g \in Flows, NEW h \in Flows, NEW i \in 1 .. Len(stack'[g]),
                      NEW j \in 1 .. Len(stack'[h]), stack'[g][i] = stack'[h][j]
               PROVE  g = h /\ i = j
    BY DEF DistinctInv
  <2>2. CASE g = f /\ i = n + 1
    BY <1>5, <2>1, <2>2
  <2>3. CASE h = f /\ j = n + 1
    BY <1>5, <2>1, <2>3
  <2>4. CASE stack[g][i] = stack[h][j] /\ i \in 1 .. Len(stack[g]) /\ j \in 1 .. Len(stack[h])
    BY <2>4 DEF StackInv, DistinctInv
  <2> QED
    BY <2>1, <2>2, <2>3, <2>4
<1> QED
  BY <1>4, <1>8, <1>14, <1>15 DEF StackInv

LEMMA CloseSpanKeepsStack ==
    ASSUME InstrumentationInv, StackInv, NEW f \in Flows, CloseSpan(f)
    PROVE  StackInv'
<1> USE SegmentConstants, OperationConstants
<1>1. /\ Len(stack'[f]) = Len(stack[f]) - 1 /\ Len(stack'[f]) \in Nat
      /\ Len(stack[f]) \in Nat \ {0} /\ stack[f][Len(stack[f])] \in Spans
      /\ \A i \in 1 .. Len(stack[f]) - 1 : stack'[f][i] = stack[f][i]
      /\ \A g \in Flows \ {f} : stack'[g] = stack[g]
  BY StackIsPopped DEF CloseSpan, InstrumentationInv, ListenerInv, ListenerTypeOK
<1>2. PICK n \in Nat : n = Len(stack'[f]) /\ Len(stack[f]) = n + 1
  BY <1>1
<1>3. PICK s \in Spans : s = stack[f][n + 1]
  BY <1>1, <1>2
<1>4. EndSpan(f, s) \/ EndNoopSpan(f, s)
  BY <1>2, <1>3 DEF CloseSpan
<1>5. ~span[s].ended /\ Covers(span[s].parentSpan, f, n)
  BY <1>2, <1>3 DEF StackInv, FlowInv, NestedInv
<1>6. /\ UNCHANGED <<config, tx, call, senderDisposed, on, flag, table>>
      /\ \A u \in Spans \ {s} : span'[u] = span[u]
      /\ span'[s].kind = span[s].kind /\ span'[s].parentSpan = span[s].parentSpan
      /\ call[f] = Idle /\ \A o \in Operations : on[o] # f
  BY <1>4 DEF EndSpan, EndNoopSpan, CloseSpan, Free, Waits, InstrumentationInv, SegmentInv,
              SegmentsTypeOK, SpanObjects
<1>7. /\ currentSpan'[f] = span[s].parentSpan
      /\ \A g \in Flows \ {f} : currentSpan'[g] = currentSpan[g]
  <2>1. RestoreParent(f, s)
    BY <1>4, <1>5 DEF EndSpan, EndNoopSpan, Ended, Segments, StackInv, RecordingInv
  <2> QED
    BY <2>1 DEF RestoreParent, InstrumentationInv, SegmentInv, SegmentsTypeOK
<1>8. Gentle
  BY <1>6 DEF Gentle, Made
<1>9. \A g \in Flows : \A i \in 1 .. Len(stack'[g]) :
         /\ i \in 1 .. Len(stack[g]) /\ stack'[g][i] = stack[g][i]
         /\ stack[g][i] \in Spans \ {s}
  <2>1. ASSUME NEW g \in Flows, NEW i \in 1 .. Len(stack'[g])
        PROVE  i \in 1 .. Len(stack[g]) /\ stack'[g][i] = stack[g][i] /\ (g # f \/ i # n + 1)
    BY <1>1, <1>2
  <2>2. \A g \in Flows : \A i \in 1 .. Len(stack[g]) : stack[g][i] \in Spans
    BY DEF InstrumentationInv, ListenerInv, ListenerTypeOK
  <2>3. n + 1 \in 1 .. Len(stack[f])
    BY <1>2
  <2> QED
    BY <1>3, <2>1, <2>2, <2>3 DEF StackInv, DistinctInv
<1>10. \A g \in Flows : \A i \in 1 .. Len(stack'[g]) : ~span'[stack'[g][i]].ended
  <2>1. \A g \in Flows : \A i \in 1 .. Len(stack[g]) : ~span[stack[g][i]].ended
    BY DEF StackInv, FlowInv, NestedInv
  <2> QED
    BY <1>6, <1>9, <2>1
<1>11. ASSUME NEW g \in Flows \ {f} PROVE FlowInv(g)'
  <2>1. \A i \in 1 .. Len(stack[g]) : ~span'[stack[g][i]].ended
    BY <1>1, <1>10
  <2>2. FlowInv(g) /\ call'[g] = call[g] /\ stack'[g] = stack[g] /\ currentSpan'[g] = currentSpan[g]
    BY <1>1, <1>6, <1>7, <1>11 DEF StackInv
  <2>3. \A l \in Listeners, o \in Operations : on'[o] = g /\ table'[l][o] # None =>
           on[o] = g /\ table'[l][o] = table[l][o]
    BY <1>6
  <2> QED
    BY <1>8, <2>1, <2>2, <2>3, FlowStays
<1>12. NestedInv(f)'
  <2> SUFFICES ASSUME NEW i \in 1 .. n, NEW x, x = stack'[f][i]
               PROVE  /\ flag'[x] = "None" /\ ~span'[x].ended /\ Made(x)'
                      /\ Covers(span[x].parentSpan, f, i - 1)'
    BY <1>2 DEF NestedInv
  <2>1. x = stack[f][i] /\ x \in Spans \ {s} /\ i \in 1 .. Len(stack[f]) /\ ~span'[x].ended
    BY <1>2, <1>9, <1>10
  <2>2. flag[x] = "None" /\ Made(x) /\ Covers(span[x].parentSpan, f, i - 1)
    BY <1>6, <2>1 DEF StackInv, FlowInv, NestedInv, InConstructor, Idle
  <2>3. PICK v : v = span[x].parentSpan
    OBVIOUS
  <2>4. Covers(v, f, i - 1)'
    <3>1. i - 1 \in Nat /\ \A j \in 1 .. i - 1 : stack'[f][j] = stack[f][j]
      BY <1>1, <1>2
    <3> QED
      BY <1>8, <2>2, <2>3, <3>1, CoversStays DEF InstrumentationInv, ListenerInv
  <2> QED
    BY <1>6, <2>1, <2>2, <2>3, <2>4 DEF Made
<1>13. CurrentInv(f)'
  <2>1. PICK v : v = span[s].parentSpan
    OBVIOUS
  <2>2. Covers(v, f, n)'
    BY <1>1, <1>2, <1>5, <1>8, <2>1, CoversStays DEF InstrumentationInv, ListenerInv
  <2>3. Covers(currentSpan[f], f, Len(stack[f]))'
    BY <1>2, <1>7, <2>1, <2>2
  <2>4. call'[f].at # "span"
    BY <1>6 DEF Idle
  <2> QED
    BY <2>3, <2>4 DEF CurrentInv, InConstructor
<1>14. FlowInv(f)'
  BY <1>6, <1>12, <1>13 DEF FlowInv, ReturnInv
<1>15. DistinctInv'
  BY <1>9 DEF StackInv, DistinctInv
<1>16. RecordingInv'
  BY <1>6 DEF StackInv, RecordingInv
<1> QED
  BY <1>11, <1>14, <1>15, <1>16 DEF StackInv

LEMMA SpanConstructedKeepsStack ==
    ASSUME InstrumentationInv, StackInv, NEW f \in Flows, SpanConstructed(f)
    PROVE  StackInv'
<1> USE SegmentConstants, OperationConstants
<1>1. PICK s : s = call[f].of
  OBVIOUS
<1>2. /\ s \in Spans /\ span[s].kind = "constructing" /\ call[f].at = "span"
      /\ \A u \in Spans \ {s} : span'[u] = span[u]
      /\ span'[s].kind = "real" /\ span'[s].ended = span[s].ended
      /\ span'[s].parentSpan = span[s].parentSpan
      /\ currentSpan' = [currentSpan EXCEPT ![f] = s]
      /\ call' = [call EXCEPT ![f] = Idle]
      /\ UNCHANGED <<on, flag, madeFor, stack>>
  BY <1>1, SpanIsCounted DEF InstrumentationInv, SpanConstructed
<1>3. /\ currentSpan'[f] = s /\ call'[f] = Idle
      /\ \A g \in Flows \ {f} : currentSpan'[g] = currentSpan[g] /\ call'[g] = call[g]
  BY <1>2 DEF InstrumentationInv, SegmentInv, SegmentsTypeOK
<1>4. Gentle
  BY <1>2 DEF Gentle, Made
<1>5. RecordingInv'
  <2>1. PICK t \in Transactions : Count(s, t)
    BY <1>1, <1>2 DEF SpanConstructed, CountSpan, InstrumentationInv, SegmentInv, FamilyInv, Born
  <2>2. tx' = [tx EXCEPT ![t].dropped = @ + 1] \/ tx' = [tx EXCEPT ![t].started = @ + 1]
    BY <2>1 DEF Count
  <2>3. \A u \in Transactions : tx'[u].kind = tx[u].kind /\ tx'[u].config = tx[u].config
    BY <2>2 DEF InstrumentationInv, SegmentInv, SegmentsTypeOK, TransactionObjects
  <2>4. UNCHANGED <<config, senderDisposed>>
    BY DEF SpanConstructed, CountSpan
  <2> QED
    BY <2>3, <2>4 DEF StackInv, RecordingInv
<1>6. \A g \in Flows : \A i \in 1 .. Len(stack[g]) : ~span'[stack[g][i]].ended /\ stack[g][i] \in Spans
  <2>1. \A g \in Flows : \A i \in 1 .. Len(stack[g]) : stack[g][i] \in Spans
    BY DEF InstrumentationInv, ListenerInv, ListenerTypeOK
  <2>2. \A g \in Flows : \A i \in 1 .. Len(stack[g]) : ~span[stack[g][i]].ended
    BY DEF StackInv, FlowInv, NestedInv
  <2> QED
    BY <1>2, <2>1, <2>2
<1>7. \A l \in Listeners, o \in Operations : table'[l][o] = table[l][o] \/
         (table'[l][o] = s /\ o = madeFor[s] /\ on[o] \in {f, None} /\ flag[s] # "None")
  <2>1. CASE flag[s] = "None"
    BY <1>1, <2>1 DEF SpanConstructed
  <2>2. CASE flag[s] # "None"
    <3>1. PICK m \in Listeners, q \in Operations : m = flag[s] /\ q = madeFor[s]
      BY <1>2, <2>2 DEF InstrumentationInv, ListenerInv, ListenerTypeOK, MadeForInv
    <3>2. Track(m, q, s)
      BY <1>1, <2>2, <3>1 DEF SpanConstructed
    <3>3. on[q] \in {f, None}
      BY <1>1, <1>2, <3>1 DEF InstrumentationInv, ListenerInv, MadeForInv
    <3>4. CASE table' = [table EXCEPT ![m][q] = s]
      <4>1. table \in Tables
        BY DEF InstrumentationInv, ListenerInv, ListenerTypeOK, Tables
      <4>2. /\ table' \in Tables /\ table'[m][q] = s
            /\ \A k \in Listeners, p \in Operations : k # m \/ p # q => table'[k][p] = table[k][p]
        <5>1. s \in Spans \cup {None}
          BY <1>2
        <5> QED
          BY <3>4, <4>1, <5>1, SMT DEF Tables
      <4> QED
        BY <2>2, <3>1, <3>3, <4>2
    <3> QED
      BY <3>2, <3>4 DEF Track
  <2> QED
    BY <2>1, <2>2
<1>8. ASSUME NEW g \in Flows \ {f} PROVE FlowInv(g)'
  <2>1. \A l \in Listeners, o \in Operations : on'[o] = g /\ table'[l][o] # None =>
           on[o] = g /\ table'[l][o] = table[l][o]
    BY <1>2, <1>7, <1>8
  <2>2. FlowInv(g) /\ call'[g] = call[g] /\ stack'[g] = stack[g] /\ currentSpan'[g] = currentSpan[g]
    BY <1>2, <1>3, <1>8 DEF StackInv
  <2> QED
    BY <1>4, <1>6, <2>1, <2>2, FlowStays
<1>9. FlowInv(f)
  BY DEF StackInv
<1>10. NestedInv(f)'
  <2>1. \A i \in 1 .. Len(stack[f]) : Made(stack[f][i]) \/ Made(stack[f][i])'
    <3>1. \A i \in 1 .. Len(stack[f]) : Made(stack[f][i]) \/ stack[f][i] = s
      BY <1>1, <1>9 DEF FlowInv, NestedInv
    <3> QED
      BY <1>2, <3>1 DEF Made
  <2> QED
    BY <1>2, <1>4, <1>6, <1>9, <2>1, NestedStays DEF FlowInv
<1>11. PICK n \in Nat : n = Len(stack[f]) /\ n = Len(stack'[f])
  BY <1>2 DEF InstrumentationInv, ListenerInv, ListenerTypeOK
<1>12. PICK u : u = span[s].parentSpan /\ u = currentSpan[f]
  BY <1>1, <1>2, <1>9 DEF FlowInv, CurrentInv
<1>13. ReturnInv(f)'
  <2>1. flag[s] # "None" => Covers(u, f, n)
    BY <1>1, <1>9, <1>11, <1>12 DEF FlowInv, CurrentInv, InConstructor
  <2> QED
    BY <1>2, <1>4, <1>7, <1>9, <1>11, <1>12, <2>1, ReturnStays DEF FlowInv
<1>14. Covers(s, f, n)'
  <2>1. CASE flag[s] # "None"
    <3>1. Covers(u, f, n)
      BY <1>1, <1>9, <1>11, <1>12, <2>1 DEF FlowInv, CurrentInv, InConstructor
    <3>2. Covers(u, f, n)'
      BY <1>2, <1>4, <3>1, CoversStays DEF InstrumentationInv, ListenerInv
    <3>3. Covers(span[s].parentSpan, f, n)' /\ flag'[s] # "None"
      BY <1>2, <1>12, <2>1, <3>2
    <3> QED
      BY <1>2, <3>3, CoversChild
  <2>2. CASE flag[s] = "None"
    <3>1. n > 0 /\ stack[f][n] = s
      BY <1>1, <1>2, <1>9, <1>11, <2>2 DEF FlowInv, CurrentInv, InConstructor
    <3>2. Covers(u, f, n - 1) /\ n - 1 \in Nat
      <4>1. n \in 1 .. Len(stack[f]) /\ n - 1 \in Nat
        BY <1>11, <3>1
      <4> QED
        BY <1>9, <1>12, <3>1, <4>1 DEF FlowInv, NestedInv
    <3>3. Covers(u, f, n - 1)'
      BY <1>2, <1>4, <3>2, CoversStays DEF InstrumentationInv, ListenerInv
    <3>4. Covers(span[s].parentSpan, f, n - 1)' /\ stack'[f][n] = s
      BY <1>2, <1>12, <3>1, <3>3
    <3> QED
      BY <1>2, <3>1, <3>4, CoversTop
  <2> QED
    BY <2>1, <2>2
<1>15. CurrentInv(f)'
  <2>1. Covers(currentSpan[f], f, Len(stack[f]))'
    BY <1>3, <1>11, <1>14
  <2>2. call'[f].at # "span"
    BY <1>3 DEF Idle
  <2> QED
    BY <2>1, <2>2 DEF CurrentInv, InConstructor
<1>16. DistinctInv'
  BY <1>2 DEF StackInv, DistinctInv
<1> QED
  BY <1>5, <1>8, <1>10, <1>13, <1>15, <1>16 DEF StackInv, FlowInv

(* A start event: the table has no other entry of an operation that the    *)
(* flow begins to wait for.                                                *)
LEMMA WaitedForAlready ==
    ASSUME InstrumentationInv, NEW f \in Flows, NEW l \in Listeners, NEW o \in Operations,
           Starting(f, l, o), NEW k \in Listeners, NEW q \in Operations,
           on'[q] # None, table[k][q] # None
    PROVE  on[q] = on'[q]
<1> USE SegmentConstants, OperationConstants DEF InstrumentationInv, ListenerInv
<1>1. CASE q # o
  BY <1>1 DEF Starting
<1>2. CASE q = o
  <2>1. k = "EfCore" /\ Active(k, o)
    BY <1>2 DEF Starting, TableInv
  <2>2. on[o] # None
    BY <2>1 DEF Active, PhaseInv
  <2> QED
    BY <1>2, <2>2 DEF Starting
<1> QED
  BY <1>1, <1>2

LEMMA IgnoredStartKeepsStack ==
    ASSUME InstrumentationInv, StackInv, NEW f \in Flows, NEW l \in Listeners, NEW o \in Operations,
           Starting(f, l, o), IgnoreStart(f, l), UNCHANGED stack
    PROVE  StackInv'
<1> USE SegmentConstants, OperationConstants
<1>1. UNCHANGED <<config, tx, span, currentSpan, call, senderDisposed, flag, table>>
  BY DEF IgnoreStart, vars
<1>2. Gentle /\ RecordingInv'
  BY <1>1 DEF Gentle, Made, StackInv, RecordingInv
<1>3. \A k \in Listeners, q \in Operations : on'[q] # None /\ table'[k][q] # None =>
         on[q] = on'[q] /\ table'[k][q] = table[k][q]
  BY <1>1, WaitedForAlready
<1> QED
  BY <1>1, <1>2, <1>3, CalmStep

LEMMA MadeStartKeepsStack ==
    ASSUME InstrumentationInv, StackInv, NEW f \in Flows, NEW l \in Listeners, NEW o \in Operations,
           NEW s \in Spans, Starting(f, l, o), MakeSpan(f, l, o, s), UNCHANGED stack
    PROVE  StackInv'
<1> USE SegmentConstants, OperationConstants
<1>1. PICK p \in Segments, internal \in BOOLEAN : p = Current(f) /\ StartSpan(f, s, p, internal)
  BY DEF MakeSpan, Current, InstrumentationInv, SegmentInv, SegmentsTypeOK, Segments
<1>2. flag' = [flag EXCEPT ![s] = l] /\ call[f] = Idle
  BY DEF MakeSpan, Starting
<1>3. /\ span[s].kind = "none" /\ \A u \in Spans \ {s} : span'[u] = span[u]
      /\ span'[s].parentSpan = currentSpan[f]
      /\ \/ /\ span'[s].kind = "constructing" /\ currentSpan' = currentSpan
            /\ call' = [call EXCEPT ![f] = [at |-> "span", of |-> s]]
         \/ /\ span'[s].kind # "constructing" /\ currentSpan' = [currentSpan EXCEPT ![f] = s]
            /\ call' = call
  BY <1>1, SpanIsStarted, StartsFromCurrent DEF StackInv, InstrumentationInv
<1>4. flag'[s] = l /\ l # "None" /\ \A u \in Spans \ {s} : flag'[u] = flag[u]
  BY <1>2 DEF Listeners, InstrumentationInv, ListenerInv, ListenerTypeOK
<1>5. Gentle /\ RecordingInv'
  BY <1>1, <1>4, StartedIsGentle DEF StackInv
<1>6. \A g \in Flows : \A i \in 1 .. Len(stack[g]) : ~span'[stack[g][i]].ended
  <2>1. \A g \in Flows : \A i \in 1 .. Len(stack[g]) : stack[g][i] \in Spans
    BY DEF InstrumentationInv, ListenerInv, ListenerTypeOK
  <2>2. \A g \in Flows : call[g].at = "span" => span[call[g].of].kind = "constructing"
    BY DEF InstrumentationInv, SegmentInv, CallInv
  <2>3. ASSUME NEW g \in Flows, NEW i \in 1 .. Len(stack[g])
        PROVE  span[stack[g][i]].kind # "none" /\ ~span[stack[g][i]].ended
    BY <2>2 DEF StackInv, FlowInv, NestedInv, Made, InConstructor
  <2> QED
    BY <1>3, <2>1, <2>3
<1>7. \A k \in Listeners, q \in Operations : on'[q] # None /\ table'[k][q] # None =>
         \/ on[q] = on'[q] /\ table'[k][q] = table[k][q]
         \/ on'[q] = f /\ table'[k][q] = s
  <2>1. CASE table' = table
    BY <2>1, WaitedForAlready
  <2>2. CASE table' = [table EXCEPT ![l][o] = s]
    <3>1. table \in Tables /\ s \in Spans \cup {None}
      BY DEF InstrumentationInv, ListenerInv, ListenerTypeOK, Tables
    <3>2. /\ table' \in Tables /\ table'[l][o] = s
          /\ \A k \in Listeners, q \in Operations : k # l \/ q # o => table'[k][q] = table[k][q]
      BY <2>2, <3>1, SMT DEF Tables
    <3>3. on'[o] # None => on'[o] = f
      BY DEF Starting
    <3> QED
      BY <3>2, <3>3, WaitedForAlready
  <2> QED
    BY <2>1, <2>2 DEF MakeSpan, Track
<1>8. ASSUME NEW g \in Flows \ {f} PROVE FlowInv(g)'
  <2>1. FlowInv(g) /\ call'[g] = call[g] /\ stack'[g] = stack[g] /\ currentSpan'[g] = currentSpan[g]
    BY <1>3, <1>8 DEF StackInv, InstrumentationInv, SegmentInv, SegmentsTypeOK
  <2>2. \A k \in Listeners, q \in Operations : on'[q] = g /\ table'[k][q] # None =>
           on[q] = g /\ table'[k][q] = table[k][q]
    BY <1>7, <1>8
  <2> QED
    BY <1>5, <1>6, <2>1, <2>2, FlowStays
<1>9. FlowInv(f)
  BY DEF StackInv
<1>10. NestedInv(f)'
  <2>1. \A i \in 1 .. Len(stack[f]) : Made(stack[f][i])
    BY <1>2, <1>9 DEF FlowInv, NestedInv, InConstructor, Idle
  <2> QED
    BY <1>5, <1>6, <1>9, <2>1, NestedStays DEF FlowInv
<1>11. PICK n \in Nat : n = Len(stack[f]) /\ n = Len(stack'[f])
  BY DEF InstrumentationInv, ListenerInv, ListenerTypeOK
<1>12. PICK u : u = currentSpan[f]
  OBVIOUS
<1>13. Covers(u, f, n) /\ Covers(u, f, n)'
  <2>1. Covers(u, f, n)
    BY <1>2, <1>9, <1>11, <1>12 DEF FlowInv, CurrentInv, InConstructor, Idle
  <2> QED
    BY <1>5, <2>1, CoversStays DEF InstrumentationInv, ListenerInv
<1>14. ReturnInv(f)'
  <2>1. \A k \in Listeners, q \in Operations : on'[q] = f /\ table'[k][q] # None =>
           \/ on[q] = f /\ table'[k][q] = table[k][q]
           \/ /\ span'[table'[k][q]].parentSpan = currentSpan[f]
              /\ Covers(currentSpan[f], f, Len(stack[f]))
    BY <1>3, <1>7, <1>11, <1>12, <1>13
  <2> QED
    BY <1>5, <1>9, <2>1, ReturnStays DEF FlowInv
<1>15. CurrentInv(f)'
  <2>1. CASE currentSpan' = currentSpan /\ call' = [call EXCEPT ![f] = [at |-> "span", of |-> s]]
    <3>1. call'[f] = [at |-> "span", of |-> s] /\ currentSpan'[f] = u
      BY <1>12, <2>1 DEF InstrumentationInv, SegmentInv, SegmentsTypeOK
    <3>2. Covers(currentSpan[f], f, Len(stack[f]))'
      BY <1>11, <1>13, <3>1
    <3>3. ~InConstructor(f)' /\ span'[call'[f].of].parentSpan = currentSpan'[f]
      BY <1>3, <1>4, <1>12, <3>1 DEF InConstructor
    <3> QED
      BY <3>2, <3>3 DEF CurrentInv
  <2>2. CASE currentSpan' = [currentSpan EXCEPT ![f] = s] /\ call' = call
    <3>1. currentSpan'[f] = s /\ call'[f].at # "span"
      BY <1>2, <2>2 DEF Idle, InstrumentationInv, SegmentInv, SegmentsTypeOK
    <3>2. Covers(span[s].parentSpan, f, n)'
      BY <1>3, <1>12, <1>13
    <3>3. Covers(s, f, n)'
      BY <1>4, <3>2, CoversChild
    <3>4. Covers(currentSpan[f], f, Len(stack[f]))'
      BY <1>11, <3>1, <3>3
    <3> QED
      BY <3>1, <3>4 DEF CurrentInv, InConstructor
  <2> QED
    BY <1>3, <2>1, <2>2
<1>16. DistinctInv'
  BY DEF StackInv, DistinctInv
<1> QED
  BY <1>5, <1>8, <1>10, <1>14, <1>15, <1>16 DEF StackInv, FlowInv

(* A stop event: the flow, if it is on one, goes back to what covered the  *)
(* application's spans when it started.                                    *)
LEMMA StopKeepsStack ==
    ASSUME InstrumentationInv, StackInv, NEW f \in Flows \cup {None}, NEW l \in Listeners,
           NEW o \in Operations, NEW failed \in BOOLEAN, StopEvent(f, l, o, failed), Stopping(f, l, o),
           UNCHANGED stack
    PROVE  StackInv'
<1> USE SegmentConstants, OperationConstants
<1>1. UNCHANGED <<config, tx, currentTransaction, call, senderDisposed, flag, stack>> /\ SegmentsKept
  BY DEF StopEvent, SegmentsKept
<1>2. \A q \in Operations : on'[q] # None => on[q] = on'[q]
  BY DEF Stopping
<1>3. CASE UNCHANGED <<span, currentSpan, table>>
  <2>1. Gentle /\ RecordingInv'
    BY <1>1, <1>3 DEF Gentle, Made, StackInv, RecordingInv
  <2> QED
    BY <1>1, <1>2, <1>3, <2>1, CalmStep
<1>4. CASE table[l][o] # None /\ EndTracked(f, l, o, table[l][o], failed)
  <2>1. PICK s \in Spans : s = table[l][o] /\ flag[s] = l /\ Made(s)
    BY <1>4 DEF InstrumentationInv, ListenerInv, ListenerTypeOK, TableInv
  <2>2. Blamed(l, o, s) \subseteq Segments
    <3>1. l = "HttpClient" => context[o].transaction \in Transactions
      BY <1>4 DEF Stopping, InstrumentationInv, ListenerInv, BlameInv, ListenerTypeOK, Contexts
    <3> QED
      BY <3>1 DEF Blamed, Segments
  <2>3. /\ \A u \in Spans \ {s} : span'[u] = span[u]
        /\ span'[s].kind = span[s].kind /\ span'[s].parentSpan = span[s].parentSpan
        /\ IF f = None THEN UNCHANGED currentSpan
           ELSE currentSpan' = [currentSpan EXCEPT ![f] = span[s].parentSpan]
    BY <1>1, <1>4, <2>1, <2>2, EndTrackedKeeps DEF InstrumentationInv
  <2>4. Gentle /\ RecordingInv'
    BY <1>1, <2>3 DEF Gentle, Made, StackInv, RecordingInv
  <2>5. \A k \in Listeners, q \in Operations : table'[k][q] # None => table'[k][q] = table[k][q]
    <3>1. table \in Tables /\ table' = [table EXCEPT ![l][o] = None]
      BY <1>4 DEF EndTracked, InstrumentationInv, ListenerInv, ListenerTypeOK, Tables
    <3> QED
      BY <3>1, TableIsCleared
  <2>6. \A u \in Spans : flag[u] = "None" => span'[u].ended = span[u].ended
    BY <2>1, <2>3 DEF Listeners
  <2>7. CASE f = None
    BY <1>1, <1>2, <2>3, <2>4, <2>5, <2>6, <2>7, CalmStep
  <2>8. CASE f \in Flows
    <3>1. f = on[o] /\ currentSpan'[f] = span[s].parentSpan
          /\ \A g \in Flows \ {f} : currentSpan'[g] = currentSpan[g]
      BY <2>3, <2>8 DEF Stopping, InstrumentationInv, SegmentInv, SegmentsTypeOK
    <3>2. call[f] = Idle
      BY <2>8, <3>1 DEF Stopping, InstrumentationInv, ListenerInv, PhaseInv, SegmentInv, CallInv
    <3>3. \A g \in Flows : \A i \in 1 .. Len(stack[g]) : ~span'[stack[g][i]].ended
      <4>1. \A g \in Flows : \A i \in 1 .. Len(stack[g]) : stack[g][i] \in Spans
        BY DEF InstrumentationInv, ListenerInv, ListenerTypeOK
      <4>2. \A g \in Flows : \A i \in 1 .. Len(stack[g]) :
               flag[stack[g][i]] = "None" /\ ~span[stack[g][i]].ended
        BY DEF StackInv, FlowInv, NestedInv
      <4> QED
        BY <2>6, <4>1, <4>2
    <3>4. \A k \in Listeners, q \in Operations : on'[q] # None /\ table'[k][q] # None =>
             on[q] = on'[q] /\ table'[k][q] = table[k][q]
      BY <1>2, <2>5
    <3>5. ASSUME NEW g \in Flows \ {f} PROVE FlowInv(g)'
      <4>1. FlowInv(g) /\ call'[g] = call[g] /\ stack'[g] = stack[g] /\ currentSpan'[g] = currentSpan[g]
        BY <1>1, <3>1, <3>5 DEF StackInv
      <4> QED
        BY <2>4, <3>3, <3>4, <4>1, FlowStays
    <3>6. FlowInv(f)
      BY <2>8 DEF StackInv
    <3>7. NestedInv(f)'
      BY <1>1, <2>4, <2>8, <3>3, <3>6, NestedStays DEF FlowInv
    <3>8. ReturnInv(f)'
      BY <1>1, <2>4, <2>8, <3>4, <3>6, ReturnStays DEF FlowInv
    <3>9. CurrentInv(f)'
      <4>1. PICK n \in Nat : n = Len(stack[f]) /\ n = Len(stack'[f])
        BY <1>1, <2>8 DEF InstrumentationInv, ListenerInv, ListenerTypeOK
      <4>2. PICK u : u = span[s].parentSpan
        OBVIOUS
      <4>3. Covers(u, f, n)
        BY <1>4, <2>1, <3>1, <3>6, <4>1, <4>2 DEF FlowInv, ReturnInv
      <4>4. Covers(u, f, n)'
        BY <1>1, <2>4, <2>8, <4>3, CoversStays DEF InstrumentationInv, ListenerInv
      <4>5. Covers(currentSpan[f], f, Len(stack[f]))'
        BY <3>1, <4>1, <4>2, <4>4
      <4>6. call'[f].at # "span"
        BY <1>1, <3>2 DEF Idle
      <4> QED
        BY <4>5, <4>6 DEF CurrentInv, InConstructor
    <3>10. DistinctInv'
      BY <1>1 DEF StackInv, DistinctInv
    <3> QED
      BY <2>4, <3>5, <3>7, <3>8, <3>9, <3>10 DEF StackInv, FlowInv
  <2> QED
    BY <2>7, <2>8
<1> QED
  BY <1>3, <1>4 DEF StopEvent

-----------------------------------------------------------------------------
LEMMA StartKeepsStack ==
    ASSUME InstrumentationInv, StackInv, NEW f \in Flows, NEW l \in Listeners, NEW o \in Operations,
           NEW from, NEW to, Start(f, l, o, from, to), Starting(f, l, o)
    PROVE  StackInv'
<1>1. UNCHANGED stack
  BY DEF Start
<1>2. CASE IgnoreStart(f, l)
  BY <1>1, <1>2, IgnoredStartKeepsStack
<1>3. ASSUME NEW s \in Spans, MakeSpan(f, l, o, s) PROVE StackInv'
  BY <1>1, <1>3, MadeStartKeepsStack
<1> QED
  BY <1>2, <1>3 DEF Start, StartEvent

LEMMA StartStepKeepsStack ==
    ASSUME InstrumentationInv, StackInv, NEW f \in Flows,
           \/ \E r \in Requests : SendRequest(f, r)
           \/ \E c \in SqlCommands : ExecuteSql(f, c)
           \/ \E c \in EfCommands : ExecuteEf(f, c)
    PROVE  StackInv'
<1> USE DEF Operations, Listeners
<1>1. ASSUME NEW r \in Requests, SendRequest(f, r) PROVE StackInv'
  <2>1. Begins(f, "HttpClient", r)
    BY <1>1 DEF SendRequest, Start, Begins
  <2>2. Start(f, "HttpClient", r, {"new", "done"}, "sent")
    BY <1>1 DEF SendRequest
  <2> QED
    BY <2>1, <2>2, BeginsIsStarting, StartKeepsStack
<1>2. ASSUME NEW c \in SqlCommands, ExecuteSql(f, c) PROVE StackInv'
  <2>1. Begins(f, "SqlClient", c)
    BY <1>2 DEF ExecuteSql, Start, Begins
  <2>2. Start(f, "SqlClient", c, {"new"}, "sql")
    BY <1>2 DEF ExecuteSql
  <2> QED
    BY <2>1, <2>2, BeginsIsStarting, StartKeepsStack
<1>3. ASSUME NEW c \in EfCommands, ExecuteEf(f, c) PROVE StackInv'
  <2>1. Begins(f, "EfCore", c)
    BY <1>3 DEF ExecuteEf, Start, Begins
  <2>2. Start(f, "EfCore", c, {"new"}, "ef")
    BY <1>3 DEF ExecuteEf
  <2> QED
    BY <2>1, <2>2, BeginsIsStarting, StartKeepsStack
<1> QED
  BY <1>1, <1>2, <1>3

LEMMA EfExecutesSqlKeepsStack ==
    ASSUME InstrumentationInv, StackInv, NEW c \in EfCommands, EfExecutesSql(c)
    PROVE  StackInv'
<1>1. c \in Operations /\ "SqlClient" \in Listeners
  BY DEF Operations, Listeners
<1>2. PICK f \in Flows : f = on[c]
  BY <1>1 DEF EfExecutesSql, InstrumentationInv, ListenerInv, ListenerTypeOK
<1>3. PassesOn(f, "SqlClient", c) /\ Start(f, "SqlClient", c, {"ef"}, "sql")
  BY <1>2 DEF EfExecutesSql, Start, PassesOn
<1> QED
  BY <1>1, <1>3, PassesOnIsStarting, StartKeepsStack

LEMMA StopStepKeepsStack ==
    ASSUME InstrumentationInv, StackInv, NEW failed \in BOOLEAN,
           \/ \E r \in Requests : RequestDone(r, failed)
           \/ \E c \in SqlCommands : SqlDone(c, failed)
           \/ \E c \in EfCommands : EfDone(c, failed) \/ \E f \in Flows \cup {None} : EfSqlDone(c, f, failed)
    PROVE  StackInv'
<1>1. ASSUME NEW f \in Flows \cup {None}, NEW l \in Listeners, NEW o \in Operations, NEW from, NEW to,
             Stop(f, l, o, from, to, failed), Stopping(f, l, o)
      PROVE  StackInv'
  BY <1>1, StopKeepsStack DEF Stop
<1>2. \A o \in Operations : on[o] \in Flows \cup {None}
  BY DEF InstrumentationInv, ListenerInv, ListenerTypeOK
<1>3. Requests \subseteq Operations /\ SqlCommands \subseteq Operations /\ EfCommands \subseteq Operations
      /\ "HttpClient" \in Listeners /\ "SqlClient" \in Listeners /\ "EfCore" \in Listeners
  BY DEF Operations, Listeners
<1>4. ASSUME NEW r \in Requests, RequestDone(r, failed) PROVE StackInv'
  <2>1. Stop(on[r], "HttpClient", r, "sent", "done", failed)
    BY <1>4 DEF RequestDone
  <2> QED
    BY <1>1, <1>2, <1>3, <1>4, <2>1, RequestIsStopping
<1>5. ASSUME NEW c \in SqlCommands, SqlDone(c, failed) PROVE StackInv'
  <2>1. Stop(on[c], "SqlClient", c, "sql", "done", failed)
    BY <1>5 DEF SqlDone
  <2> QED
    BY <1>1, <1>2, <1>3, <1>5, <2>1, SqlIsStopping
<1>6. ASSUME NEW c \in EfCommands, NEW f \in Flows \cup {None}, EfSqlDone(c, f, failed)
      PROVE  StackInv'
  <2>1. Stop(f, "SqlClient", c, "sql", "answered", failed)
    BY <1>6 DEF EfSqlDone
  <2> QED
    BY <1>1, <1>3, <1>6, <2>1, EfSqlIsStopping
<1>7. ASSUME NEW c \in EfCommands, EfDone(c, failed) PROVE StackInv'
  <2>1. Stop(on[c], "EfCore", c, "answered", "done", failed)
    BY <1>7 DEF EfDone
  <2> QED
    BY <1>1, <1>2, <1>3, <1>7, <2>1, EfIsStopping
<1> QED
  BY <1>4, <1>5, <1>6, <1>7

LEMMA StackInitial == InstrumentationInit => StackInv
<1> SUFFICES ASSUME InstrumentationInit PROVE StackInv
  OBVIOUS
<1>1. \A f \in Flows : Len(stack[f]) = 0 /\ call[f].at # "span"
  BY DEF InstrumentationInit, Init, Idle
<1>2. \A l \in Listeners, o \in Operations : table[l][o] = None
  BY DEF InstrumentationInit
<1>3. ASSUME NEW f \in Flows PROVE FlowInv(f)
  BY <1>1, <1>2 DEF FlowInv, NestedInv, CurrentInv, ReturnInv, InConstructor, Covers
<1>4. DistinctInv
  BY <1>1 DEF DistinctInv
<1>5. RecordingInv
  BY DEF RecordingInv, InstrumentationInit, Init
<1> QED
  BY <1>3, <1>4, <1>5 DEF StackInv

LEMMA StackStep ==
    InstrumentationInv /\ StackInv /\ [InstrumentationNext]_<<vars, listenerVars>> => StackInv'
<1> SUFFICES ASSUME InstrumentationInv, StackInv, [InstrumentationNext]_<<vars, listenerVars>>
             PROVE  StackInv'
  OBVIOUS
<1>1. ASSUME NEW f \in Flows,
             \/ SpanConstructed(f) \/ TransactionConstructed(f)
             \/ \E t \in Transactions : BeginTransaction(f, t)
             \/ \E s \in Spans : OpenSpan(f, s)
             \/ CloseSpan(f) \/ CloseTransaction(f)
             \/ \E g \in Flows : ForkFlow(f, g)
             \/ \E r \in Requests : SendRequest(f, r)
             \/ \E c \in SqlCommands : ExecuteSql(f, c)
             \/ \E c \in EfCommands : ExecuteEf(f, c)
      PROVE  StackInv'
  BY <1>1, SpanConstructedKeepsStack, TransactionStepKeepsStack, OpenSpanKeepsStack,
     CloseSpanKeepsStack, ForkFlowKeepsStack, StartStepKeepsStack
<1>2. ASSUME NEW failed \in BOOLEAN,
             \/ \E r \in Requests : RequestDone(r, failed)
             \/ \E c \in SqlCommands : SqlDone(c, failed)
             \/ \E c \in EfCommands :
                   EfDone(c, failed) \/ \E f \in Flows \cup {None} : EfSqlDone(c, f, failed)
      PROVE  StackInv'
  BY <1>2, StopStepKeepsStack
<1>3. CASE UNCHANGED <<vars, listenerVars>>
  <2>1. UNCHANGED <<config, tx, span, currentSpan, call, senderDisposed, on, flag, table, stack>>
    BY <1>3 DEF vars, listenerVars
  <2>2. Gentle /\ RecordingInv'
    BY <2>1 DEF Gentle, Made, StackInv, RecordingInv
  <2> QED
    BY <2>1, <2>2, CalmStep
<1> QED
  BY <1>1, <1>2, <1>3, EfExecutesSqlKeepsStack DEF InstrumentationNext

(* Whatever the listeners make and end, on the flow or in a callback, the  *)
(* spans that the application has opened stay ancestors of the current     *)
(* span, and between operations that is the innermost of them, or a span   *)
(* of a listener whose operation goes on or has ended in a callback.       *)
THEOREM ApplicationSpansAreKept == InstrumentationSpec => []StackIsKept
<1>1. InstrumentationInv /\ StackInv => StackIsKept
  <2> SUFFICES ASSUME InstrumentationInv, StackInv, NEW f \in Flows, stack[f] # <<>>
               PROVE  /\ \A i \in DOMAIN stack[f] :
                            \/ span[stack[f][i]].kind = "constructing"
                            \/ stack[f][i] \in Chain(currentSpan[f])
                      /\ Free(f) => \/ currentSpan[f] = stack[f][Len(stack[f])]
                                    \/ flag[currentSpan[f]] # "None"
    BY DEF StackIsKept
  <2>1. PICK n \in Nat : n = Len(stack[f]) /\ n > 0 /\ DOMAIN stack[f] = 1 .. n
    BY DEF InstrumentationInv, ListenerInv, ListenerTypeOK
  <2>2. FlowInv(f)
    BY DEF StackInv
  <2>3. CASE ~InConstructor(f)
    BY <2>1, <2>2, <2>3 DEF FlowInv, CurrentInv, Covers
  <2>4. CASE InConstructor(f)
    <3>1. stack[f][n] = call[f].of /\ span[call[f].of].parentSpan = currentSpan[f] /\ call[f].at = "span"
      BY <2>1, <2>2, <2>4 DEF FlowInv, CurrentInv, InConstructor
    <3>2. span[stack[f][n]].kind = "constructing"
      BY <3>1 DEF InstrumentationInv, SegmentInv, CallInv
    <3>3. Covers(currentSpan[f], f, n - 1)
      BY <2>1, <2>2, <3>1 DEF FlowInv, NestedInv
    <3>4. \A i \in 1 .. n : i = n \/ stack[f][i] \in Chain(currentSpan[f])
      BY <2>1, <3>3 DEF Covers
    <3>5. ~Free(f)
      BY <3>1 DEF Free, Idle
    <3> QED
      BY <2>1, <3>2, <3>4, <3>5
  <2> QED
    BY <2>3, <2>4
<1> QED
  BY <1>1, InstrumentationInvariant, StackInitial, StackStep, PTL DEF InstrumentationSpec

-----------------------------------------------------------------------------
(* What the listeners have open.  That a span in a table is not ended      *)
(* rests on StackInv: what the application closes it has opened itself.    *)
OpenInv ==
    \A l \in Listeners, o \in Operations : table[l][o] # None => ~span[table[l][o]].ended

LEMMA OpenStays ==
    ASSUME OpenInv, ListenerTypeOK,
           \A l \in Listeners, o \in Operations : table'[l][o] # None =>
              \/ table'[l][o] = table[l][o] /\ span'[table[l][o]].ended = span[table[l][o]].ended
              \/ ~span'[table'[l][o]].ended
    PROVE  OpenInv'
BY DEF OpenInv

(* The table is as it was, and nothing that a listener made ends. *)
LEMMA UntouchedStaysOpen ==
    ASSUME InstrumentationInv, OpenInv, UNCHANGED table,
           \A u \in Spans : flag[u] # "None" => span'[u].ended = span[u].ended
    PROVE  OpenInv'
<1>1. \A l \in Listeners, o \in Operations : table[l][o] # None =>
         table[l][o] \in Spans /\ flag[table[l][o]] # "None"
  BY DEF InstrumentationInv, ListenerInv, ListenerTypeOK, TableInv, Listeners
<1> QED
  BY <1>1, OpenStays DEF InstrumentationInv, ListenerInv

(* A span that is not ended may enter the table. *)
LEMMA TrackedIsOpen ==
    ASSUME InstrumentationInv, OpenInv, NEW l \in Listeners, NEW o \in Operations, NEW s \in Spans,
           table' = table \/ table' = [table EXCEPT ![l][o] = s],
           ~span'[s].ended, \A u \in Spans \ {s} : span'[u] = span[u]
    PROVE  OpenInv'
<1>1. table \in Tables /\ ListenerTypeOK
  BY DEF InstrumentationInv, ListenerInv, ListenerTypeOK, Tables
<1>2. \A k \in Listeners, q \in Operations : table'[k][q] = s \/ table'[k][q] = table[k][q]
  BY <1>1, TableIsSet
<1>3. \A k \in Listeners, q \in Operations : table[k][q] \in Spans \cup {None}
  BY <1>1 DEF Tables
<1> QED
  BY <1>1, <1>2, <1>3, OpenStays

LEMMA OpenSpanStaysOpen ==
    ASSUME InstrumentationInv, OpenInv, NEW f \in Flows, NEW s \in Spans, OpenSpan(f, s)
    PROVE  OpenInv'
<1> USE SegmentConstants
<1>1. PICK p \in Segments, internal \in BOOLEAN : p = Current(f) /\ StartSpan(f, s, p, internal)
  BY DEF OpenSpan, Current, InstrumentationInv, SegmentInv, SegmentsTypeOK, Segments
<1>2. span[s].kind = "none" /\ \A u \in Spans \ {s} : span'[u] = span[u]
  BY <1>1, SpanIsStarted DEF InstrumentationInv
<1>3. flag[s] = "None"
  BY <1>2 DEF InstrumentationInv, ListenerInv, MadeInv
<1> QED
  BY <1>2, <1>3, UntouchedStaysOpen DEF OpenSpan

LEMMA CloseSpanStaysOpen ==
    ASSUME InstrumentationInv, StackInv, OpenInv, NEW f \in Flows, CloseSpan(f)
    PROVE  OpenInv'
<1> USE SegmentConstants DEF InstrumentationInv
<1>1. PICK n \in Nat \ {0} : n = Len(stack[f]) /\ stack[f][n] \in Spans
  BY DEF CloseSpan, ListenerInv, ListenerTypeOK
<1>2. PICK s \in Spans : s = stack[f][n] /\ (EndSpan(f, s) \/ EndNoopSpan(f, s))
  BY <1>1 DEF CloseSpan
<1>3. flag[s] = "None"
  BY <1>1, <1>2 DEF StackInv, FlowInv, NestedInv
<1>4. \A u \in Spans \ {s} : span'[u] = span[u]
  BY <1>2 DEF EndSpan, EndNoopSpan, SegmentInv, SegmentsTypeOK
<1> QED
  BY <1>3, <1>4, UntouchedStaysOpen DEF CloseSpan

LEMMA SpanConstructedStaysOpen ==
    ASSUME InstrumentationInv, OpenInv, NEW f \in Flows, SpanConstructed(f)
    PROVE  OpenInv'
<1> USE SegmentConstants, OperationConstants
<1>1. PICK s \in Spans : s = call[f].of
  BY DEF SpanConstructed
<1>2. /\ span[s].kind = "constructing" /\ span'[s].ended = span[s].ended
      /\ \A u \in Spans \ {s} : span'[u] = span[u]
  BY <1>1, SpanIsCounted DEF InstrumentationInv, SpanConstructed
<1>3. ~span[s].ended
  BY <1>2 DEF InstrumentationInv, SegmentInv, DropInv
<1>4. CASE flag[s] = "None"
  <2>1. UNCHANGED table
    BY <1>1, <1>4 DEF SpanConstructed
  <2> QED
    BY <1>2, <2>1, UntouchedStaysOpen
<1>5. CASE flag[s] # "None"
  <2>1. PICK l \in Listeners, o \in Operations : l = flag[s] /\ o = madeFor[s]
    BY <1>5 DEF InstrumentationInv, ListenerInv, ListenerTypeOK, MadeForInv
  <2>2. Track(l, o, s)
    BY <1>1, <1>5, <2>1 DEF SpanConstructed
  <2> QED
    BY <1>2, <1>3, <2>2, TrackedIsOpen DEF Track
<1> QED
  BY <1>4, <1>5

LEMMA StartStaysOpen ==
    ASSUME InstrumentationInv, OpenInv, NEW f \in Flows, NEW l \in Listeners, NEW o \in Operations,
           StartEvent(f, l, o)
    PROVE  OpenInv'
<1> USE SegmentConstants
<1>1. CASE IgnoreStart(f, l)
  BY <1>1, UntouchedStaysOpen DEF IgnoreStart, vars
<1>2. ASSUME NEW s \in Spans, MakeSpan(f, l, o, s) PROVE OpenInv'
  <2>1. PICK p \in Segments, internal \in BOOLEAN : p = Current(f) /\ StartSpan(f, s, p, internal)
    BY <1>2 DEF MakeSpan, Current, InstrumentationInv, SegmentInv, SegmentsTypeOK, Segments
  <2>2. ~span'[s].ended /\ \A u \in Spans \ {s} : span'[u] = span[u]
    BY <2>1, SpanIsStarted DEF InstrumentationInv
  <2>3. table' = table \/ table' = [table EXCEPT ![l][o] = s]
    BY <1>2 DEF MakeSpan, Track
  <2> QED
    BY <2>2, <2>3, TrackedIsOpen
<1> QED
  BY <1>1, <1>2 DEF StartEvent

LEMMA StopStaysOpen ==
    ASSUME InstrumentationInv, OpenInv, NEW f \in Flows \cup {None}, NEW l \in Listeners,
           NEW o \in Operations, NEW failed \in BOOLEAN, StopEvent(f, l, o, failed)
    PROVE  OpenInv'
<1> USE SegmentConstants, OperationConstants
<1>1. CASE UNCHANGED <<span, table>>
  BY <1>1, UntouchedStaysOpen
<1>2. CASE table[l][o] # None /\ EndTracked(f, l, o, table[l][o], failed)
  <2>1. PICK s \in Spans : s = table[l][o] /\ flag[s] = l /\ madeFor[s] = o
    BY <1>2 DEF InstrumentationInv, ListenerInv, ListenerTypeOK, TableInv
  <2>2. \A u \in Spans \ {s} : span'[u] = span[u]
    BY <1>2, <2>1 DEF EndTracked, InstrumentationInv, SegmentInv, SegmentsTypeOK
  <2>3. table \in Tables /\ ListenerTypeOK
    BY DEF InstrumentationInv, ListenerInv, ListenerTypeOK, Tables
  <2>4. /\ table'[l][o] = None
        /\ \A k \in Listeners, q \in Operations : k # l \/ q # o => table'[k][q] = table[k][q]
    <3>1. table' = [table EXCEPT ![l][o] = None]
      BY <1>2, Zenon DEF EndTracked
    <3> QED
      BY <2>3, <3>1, TableIsCleared
  <2>5. \A k \in Listeners, q \in Operations : table[k][q] # None =>
           table[k][q] \in Spans /\ (table[k][q] = s => k = l /\ q = o)
    BY <2>1, <2>3 DEF Tables, InstrumentationInv, ListenerInv, TableInv
  <2> QED
    BY <2>2, <2>3, <2>4, <2>5, OpenStays
<1> QED
  BY <1>1, <1>2 DEF StopEvent

LEMMA OpenStep ==
    InstrumentationInv /\ StackInv /\ OpenInv /\ [InstrumentationNext]_<<vars, listenerVars>> => OpenInv'
<1> SUFFICES ASSUME InstrumentationInv, StackInv, OpenInv,
                    [InstrumentationNext]_<<vars, listenerVars>>
             PROVE  OpenInv'
  OBVIOUS
<1>1. /\ Requests \subseteq Operations /\ SqlCommands \subseteq Operations /\ EfCommands \subseteq Operations
      /\ "HttpClient" \in Listeners /\ "SqlClient" \in Listeners /\ "EfCore" \in Listeners
      /\ \A o \in Operations : on[o] \in Flows \cup {None}
  BY DEF Operations, Listeners, InstrumentationInv, ListenerInv, ListenerTypeOK
<1>2. ASSUME NEW f \in Flows,
             \/ TransactionConstructed(f)
             \/ \E t \in Transactions : BeginTransaction(f, t)
             \/ CloseTransaction(f)
             \/ \E g \in Flows : ForkFlow(f, g)
      PROVE  OpenInv'
  <2>1. UNCHANGED <<span, table>>
    BY <1>2 DEF TransactionConstructed, StartTransactionInternal, BeginTransaction, StartTransaction,
                CloseTransaction, EndTransaction, ForkFlow, Fork, listenerVars
  <2> QED
    BY <2>1, UntouchedStaysOpen
<1>3. ASSUME NEW f \in Flows,
             \/ \E r \in Requests : SendRequest(f, r)
             \/ \E c \in SqlCommands : ExecuteSql(f, c)
             \/ \E c \in EfCommands : ExecuteEf(f, c)
      PROVE  OpenInv'
  BY <1>1, <1>3, StartStaysOpen DEF SendRequest, ExecuteSql, ExecuteEf, Start
<1>4. ASSUME NEW c \in EfCommands, EfExecutesSql(c) PROVE OpenInv'
  BY <1>1, <1>4, StartStaysOpen DEF EfExecutesSql, Start
<1>5. ASSUME NEW failed \in BOOLEAN, NEW r \in Requests, RequestDone(r, failed) PROVE OpenInv'
  BY <1>1, <1>5, StopStaysOpen DEF RequestDone, Stop
<1>6. ASSUME NEW failed \in BOOLEAN, NEW c \in SqlCommands, SqlDone(c, failed) PROVE OpenInv'
  BY <1>1, <1>6, StopStaysOpen DEF SqlDone, Stop
<1>7. ASSUME NEW failed \in BOOLEAN, NEW c \in EfCommands,
             EfDone(c, failed) \/ \E f \in Flows \cup {None} : EfSqlDone(c, f, failed)
      PROVE  OpenInv'
  BY <1>1, <1>7, StopStaysOpen DEF EfDone, EfSqlDone, Stop
<1>8. CASE UNCHANGED <<vars, listenerVars>>
  BY <1>8, UntouchedStaysOpen DEF vars, listenerVars
<1> QED
  BY <1>2, <1>3, <1>4, <1>5, <1>6, <1>7, <1>8, OpenSpanStaysOpen, CloseSpanStaysOpen,
     SpanConstructedStaysOpen DEF InstrumentationNext

(* A listener's table holds its open spans, and no others: each stays open *)
(* until the stop event of its own operation, whichever spans of the       *)
(* application or of other operations end before that, and none is open    *)
(* that no stop event can find.                                            *)
THEOREM OpenSpansAreTracked == InstrumentationSpec => []OpenIsTracked
<1>1. InstrumentationInit => OpenInv
  BY DEF InstrumentationInit, OpenInv
<1>2. InstrumentationInv /\ OpenInv => OpenIsTracked
  <2> SUFFICES ASSUME InstrumentationInv, OpenInv, NEW s \in Spans,
                      flag[s] # "None", span[s].kind # "constructing"
               PROVE  span[s].ended <=> table[flag[s]][madeFor[s]] # s
    BY DEF OpenIsTracked
  <2>1. flag[s] \in Listeners /\ madeFor[s] \in Operations /\ s # None
    BY SegmentConstants, OperationConstants DEF InstrumentationInv, ListenerInv, ListenerTypeOK,
       MadeForInv, Segments
  <2>2. Made(s)
    BY DEF InstrumentationInv, ListenerInv, MadeInv, SegmentInv, SegmentsTypeOK, SpanObjects, Kinds, Made
  <2>3. span[s].ended \/ table[flag[s]][madeFor[s]] = s
    BY <2>1, <2>2, OperationConstants DEF InstrumentationInv, ListenerInv, MadeForInv
  <2>4. table[flag[s]][madeFor[s]] = s => ~span[s].ended
    BY <2>1 DEF OpenInv
  <2> QED
    BY <2>3, <2>4
<1> QED
  BY <1>1, <1>2, InstrumentationInitial, InstrumentationStep, StackInitial, StackStep, OpenStep, PTL
     DEF InstrumentationSpec

=============================================================================
