--------------------------- MODULE Instrumentation ---------------------------
(***************************************************************************)
(* The diagnostic listeners that make spans of outgoing HTTP requests      *)
(* (HttpDiagnosticListenerImplBase), of EF Core commands                   *)
(* (EfCoreDiagnosticListener) and of SqlClient commands                    *)
(* (SqlClientDiagnosticListener), on the execution segments.  The          *)
(* SqlEventListener of the full framework follows the last of them.        *)
(* The application opens and closes spans like brackets on each flow.      *)
(* A call that is awaited in an async method is a forked flow.             *)
(* An operation is synchronous, and its flow waits for it, or goes on in   *)
(* a callback: the callback has a copy of the AsyncLocals, and what it     *)
(* sets is lost (BeginExecuteReader, ExecuteReaderAsync, HttpWebRequest).  *)
(* The configuration stays and the sender is not disposed.                 *)
(***************************************************************************)
EXTENDS ExecutionSegments, Sequences

CONSTANTS
    Requests,           \* HTTP requests to other servers than the APM Server
    EfCommands,         \* commands that EF Core runs by SqlClient
    SqlCommands         \* commands that the application runs by SqlClient

Operations == Requests \cup EfCommands \cup SqlCommands

ASSUME OperationConstants ==
    /\ Requests \cap EfCommands = {} /\ Requests \cap SqlCommands = {}
    /\ EfCommands \cap SqlCommands = {}
    /\ None \notin Flows \cup Operations

VARIABLES
    phase,              \* of each operation
    on,                 \* the flow that waits for it
    context,            \* the AsyncLocals its callback has
    flag, madeFor,      \* of each span: InstrumentationFlag, and the operation it is for
    table,              \* of each listener: its spans of running operations
    header,             \* the id in the traceparent header of a request
    stack               \* of each flow: the spans the application has opened on it

listenerVars == <<phase, on, context, flag, madeFor, table, header, stack>>

Listeners == {"HttpClient", "EfCore", "SqlClient"}

InstrumentationInit ==
    /\ Init
    /\ phase = [o \in Operations |-> "new"]
    /\ on = [o \in Operations |-> None]
    /\ context = [o \in Operations |-> [transaction |-> None, span |-> None]]
    /\ flag = [s \in Spans |-> "None"] /\ madeFor = [s \in Spans |-> None]
    /\ table = [l \in Listeners |-> [o \in Operations |-> None]]
    /\ header = [r \in Requests |-> None]
    /\ stack = [f \in Flows |-> <<>>]

Waits(f) == \E o \in Operations : on[o] = f
Free(f) == call[f] = Idle /\ ~Waits(f)

-----------------------------------------------------------------------------
RivalsOneWay(l) == IF l = "EfCore" THEN {"SqlClient"} ELSE {}   \* mutant

(* "check for competing instrumentation" *)
Rivals(l) == CASE l = "EfCore" -> {"SqlClient"}
               [] l = "SqlClient" -> {"EfCore"}
               [] l = "HttpClient" -> {}

Competes(l, current) ==
    current # None /\ span[current].kind = "real" /\ flag[current] \in Rivals(l)

(* The rest of a start event, once its span has been made: TryAdd, and for *)
(* a request the headers it does not have yet.  A NoopSpan has no          *)
(* OutgoingDistributedTracingData.                                         *)
Track(l, o, s) ==
    /\ table' = IF table[l][o] = None THEN [table EXCEPT ![l][o] = s] ELSE table
    /\ header' = IF o \in Requests /\ table[l][o] = None /\ header[o] = None /\ span'[s].kind = "real"
                 THEN [header EXCEPT ![o] = ReferenceId(s)'] ELSE header

(* OnNext of a start event. *)
IgnoreStart(f, l) ==
    /\ Competes(l, currentSpan[f]) \/ currentTransaction[f] = None
    /\ UNCHANGED <<vars, flag, madeFor, table, header>>

MakeSpan(f, l, o, s) ==
    /\ ~Competes(l, currentSpan[f]) /\ currentTransaction[f] # None
    /\ StartSpan(f, s, Current(f), TRUE)
    /\ flag' = [flag EXCEPT ![s] = l] /\ madeFor' = [madeFor EXCEPT ![s] = o]
    /\ IF span'[s].kind = "constructing" THEN UNCHANGED <<table, header>> ELSE Track(l, o, s)

StartEvent(f, l, o) == IgnoreStart(f, l) \/ \E s \in Spans : MakeSpan(f, l, o, s)

(* The context of a callback: what the flow has after the start event. *)
Copy(f) == [transaction |-> currentTransaction[f], span |-> currentSpan'[f]]

(* The constructor of the span ends, for the application or a listener. *)
SpanConstructed(f) ==
    /\ CountSpan(f)
    /\ \E s \in Spans :
          /\ s = call[f].of
          /\ IF flag[s] = "None" THEN UNCHANGED <<table, header, context>>
             ELSE /\ Track(flag[s], madeFor[s], s)
                  /\ context' = [context EXCEPT ![madeFor[s]] = Copy(f)]
    /\ UNCHANGED <<phase, on, flag, madeFor, stack>>

-----------------------------------------------------------------------------
(* What CaptureException or CaptureError may be called of: .NET Core's     *)
(* HTTP listener calls it of the transaction, the others of their span.    *)
Blamed(l, o, s) == {s} \cup (IF l = "HttpClient" THEN {context[o].transaction} ELSE {})

(* Noop segments capture nothing. *)
Capture(l, o, s, failed) ==
    \E segment \in Blamed(l, o, s) :
       references' = references \cup (IF failed /\ Kind(segment) = "real" THEN {ReferenceId(segment)} ELSE {})

(* The end of a tracked span, on a flow or in a callback.                  *)
EndUnlessDropped(f, l, o, s, failed) ==     \* mutant: returns before End when there is nothing to send
    /\ span' = [span EXCEPT ![s].ended = Kind(s) # "real" \/ ShouldBeSentToApmServer(s)]
    /\ queued' = IF Kind(s) = "real" /\ ShouldBeSentToApmServer(s) /\ QueuesOnEnd(f, s)
                 THEN [queued EXCEPT ![s] = @ + 1] ELSE queued
    /\ Capture(l, o, s, failed)
    /\ IF f = None THEN UNCHANGED currentSpan ELSE RestoreParent(f, s)
    /\ table' = [table EXCEPT ![l][o] = None]

EndCurrent(f, l, o, s, failed) ==           \* mutant: ends the current span, not the operation's
    LET e == IF f # None /\ currentSpan[f] # None THEN currentSpan[f] ELSE s
    IN  /\ span' = [span EXCEPT ![e].ended = TRUE]
        /\ queued' = IF Kind(e) = "real" /\ ShouldBeSentToApmServer(e) /\ QueuesOnEnd(f, e)
                     THEN [queued EXCEPT ![e] = @ + 1] ELSE queued
        /\ Capture(l, o, e, failed)
        /\ IF f = None THEN UNCHANGED currentSpan ELSE RestoreParent(f, e)
        /\ table' = [table EXCEPT ![l][o] = None]

(* TryRemove, CaptureException after a failure, End.  The events carry     *)
(* what the listeners read: correlation id, command, connection.           *)
EndTracked(f, l, o, s, failed) ==
    /\ span' = [span EXCEPT ![s].ended = TRUE]
    /\ queued' = IF Kind(s) = "real" /\ ShouldBeSentToApmServer(s) /\ QueuesOnEnd(f, s)
                 THEN [queued EXCEPT ![s] = @ + 1] ELSE queued
    /\ Capture(l, o, s, failed)
    /\ IF f = None THEN UNCHANGED currentSpan ELSE RestoreParent(f, s)
    /\ table' = [table EXCEPT ![l][o] = None]

(* OnNext of a stop or error event, on a flow or, if f is None, in a       *)
(* callback.                                                               *)
StopEvent(f, l, o, failed) ==
    /\ LET current == IF f = None THEN context[o].span ELSE currentSpan[f]
       IN  IF Competes(l, current) \/ table[l][o] = None
           THEN UNCHANGED <<span, queued, references, currentSpan, table>>
           ELSE EndTracked(f, l, o, table[l][o], failed)
    /\ UNCHANGED <<config, tx, currentTransaction, call, senderDisposed, flag, madeFor, header>>

-----------------------------------------------------------------------------
(* What the application and the libraries do, which is not in src/.        *)
Start(f, l, o, from, to) ==
    /\ phase[o] \in from /\ phase' = [phase EXCEPT ![o] = to]
    /\ StartEvent(f, l, o)
    /\ context' = [context EXCEPT ![o] = Copy(f)]
    /\ UNCHANGED stack

(* A request may be sent again by a handler that retries it. *)
SendRequest(f, r) ==
    /\ Free(f) /\ Start(f, "HttpClient", r, {"new", "done"}, "sent")
    /\ on' \in {[on EXCEPT ![r] = f], on}

ExecuteSql(f, c) ==
    /\ Free(f) /\ Start(f, "SqlClient", c, {"new"}, "sql")
    /\ on' \in {[on EXCEPT ![c] = f], on}

ExecuteEf(f, c) ==
    /\ Free(f) /\ Start(f, "EfCore", c, {"new"}, "ef")
    /\ on' = [on EXCEPT ![c] = f]

EfExecutesSql(c) ==
    /\ on[c] # None /\ call[on[c]] = Idle
    /\ Start(on[c], "SqlClient", c, {"ef"}, "sql") /\ UNCHANGED on

Constructed(o) == \A f \in Flows : call[f].at = "span" => madeFor[call[f].of] # o

(* The flow that waits for the operation goes on. *)
Stop(f, l, o, from, to, failed) ==
    /\ phase[o] = from /\ phase' = [phase EXCEPT ![o] = to]
    /\ Constructed(o)
    /\ StopEvent(f, l, o, failed)
    /\ context' = [context EXCEPT ![o].span = None]
    /\ UNCHANGED stack

RequestDone(r, failed) ==
    /\ Stop(on[r], "HttpClient", r, "sent", "done", failed)
    /\ on' = [on EXCEPT ![r] = None]

SqlDone(c, failed) ==
    /\ Stop(on[c], "SqlClient", c, "sql", "done", failed)
    /\ on' = [on EXCEPT ![c] = None]

(* EF Core awaits the command, so its answer comes on the flow or in a     *)
(* callback.                                                               *)
EfSqlDone(c, f, failed) ==
    /\ f \in {on[c], None} /\ Stop(f, "SqlClient", c, "sql", "answered", failed)
    /\ UNCHANGED on

EfDone(c, failed) ==
    /\ Stop(on[c], "EfCore", c, "answered", "done", failed)
    /\ on' = [on EXCEPT ![c] = None]

-----------------------------------------------------------------------------
(* The application. *)
BeginTransaction(f, t) ==
    /\ Free(f) /\ currentTransaction[f] = None /\ StartTransaction(f, t)
    /\ UNCHANGED listenerVars

TransactionConstructed(f) == StartTransactionInternal(f) /\ UNCHANGED listenerVars

OpenSpan(f, s) ==
    /\ Free(f) /\ Current(f) # None /\ StartSpan(f, s, Current(f), FALSE)
    /\ stack' = [stack EXCEPT ![f] = Append(@, s)]
    /\ UNCHANGED <<phase, on, context, flag, madeFor, table, header>>

CloseSpan(f) ==
    /\ Free(f) /\ stack[f] # <<>>
    /\ LET s == stack[f][Len(stack[f])] IN EndSpan(f, s) \/ EndNoopSpan(f, s)
    /\ stack' = [stack EXCEPT ![f] = SubSeq(@, 1, Len(@) - 1)]
    /\ UNCHANGED <<phase, on, context, flag, madeFor, table, header>>

CloseTransaction(f) ==
    /\ Free(f) /\ stack[f] = <<>> /\ currentTransaction[f] # None
    /\ EndTransaction(f, currentTransaction[f])
    /\ UNCHANGED listenerVars

(* A flow that has closed what it opened stands for a new one. *)
ForkFlow(f, g) ==
    /\ Free(f) /\ Free(g) /\ stack[g] = <<>>
    /\ Fork(f, g) /\ UNCHANGED listenerVars

InstrumentationNext ==
    \/ \E f \in Flows :
          \/ SpanConstructed(f) \/ TransactionConstructed(f)
          \/ \E t \in Transactions : BeginTransaction(f, t)
          \/ \E s \in Spans : OpenSpan(f, s)
          \/ CloseSpan(f) \/ CloseTransaction(f)
          \/ \E g \in Flows : ForkFlow(f, g)
          \/ \E r \in Requests : SendRequest(f, r)
          \/ \E c \in SqlCommands : ExecuteSql(f, c)
          \/ \E c \in EfCommands : ExecuteEf(f, c)
    \/ \E c \in EfCommands : EfExecutesSql(c)
    \/ \E failed \in BOOLEAN :
          \/ \E r \in Requests : RequestDone(r, failed)
          \/ \E c \in SqlCommands : SqlDone(c, failed)
          \/ \E c \in EfCommands : EfDone(c, failed) \/ \E f \in Flows \cup {None} : EfSqlDone(c, f, failed)

InstrumentationSpec == InstrumentationInit /\ [][InstrumentationNext]_<<vars, listenerVars>>

-----------------------------------------------------------------------------
SpansOf(o) == {s \in Spans : madeFor[s] = o}
RealSpansOf(o) == {s \in SpansOf(o) : span[s].kind = "real"}

(* "check for competing instrumentation": a command that passes through    *)
(* EF Core and SqlClient is captured, and by one of them only, whichever   *)
(* spans earlier commands have left as the current one of the flow.        *)
CommandCapturedOnce ==
    \A c \in EfCommands \cup SqlCommands :
       phase[c] = "done" /\ context[c].transaction # None =>
          \/ Cardinality(SpansOf(c)) = 1
          \/ SpansOf(c) # {} /\ RealSpansOf(c) = {}

(* A stop event finds the span of its start event, on the flow or in a     *)
(* callback: an operation that is over has no open span and no entry in    *)
(* any table of running operations, however often it is retried.           *)
NothingLeftOpen ==
    \A o \in Operations : phase[o] \in {"new", "done"} =>
       /\ \A s \in SpansOf(o) : span[s].ended
       /\ \A l \in Listeners : table[l][o] = None

(* What a listener has open is what its table holds: each of its spans     *)
(* stays open until the stop event of its own operation, whichever other   *)
(* operations and spans of the application end meanwhile, on this flow, on *)
(* another one or in a callback, and none is open that no stop event can   *)
(* find.                                                                   *)
OpenIsTracked ==
    \A s \in Spans : flag[s] # "None" /\ span[s].kind # "constructing" =>
       (span[s].ended <=> table[flag[s]][madeFor[s]] # s)

(* The spans from one up to the root: what every set of spans has that the *)
(* parent leads out of only where it is missing.                           *)
LeadsUp(S) == \A y \in S : span[y].parentSpan \in S \cup {None}

Chain(s) == {x \in Spans : \A S \in SUBSET Spans : s \in S \cup {None} /\ LeadsUp(S) => x \in S}

(* What the listeners set never hides the application's spans: all that it *)
(* has opened on a flow are ancestors of the current one, and between      *)
(* operations the current one is the innermost of them or a listener's,    *)
(* whose operation goes on, or has ended, in a callback.                   *)
StackIsKept ==
    \A f \in Flows : stack[f] # <<>> =>
       /\ \A i \in DOMAIN stack[f] : span[stack[f][i]].kind = "constructing" \/ stack[f][i] \in Chain(currentSpan[f])
       /\ Free(f) => currentSpan[f] = stack[f][Len(stack[f])] \/ flag[currentSpan[f]] # "None"

=============================================================================
