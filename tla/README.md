# TLA+ models of the Elastic APM .NET agent

This directory specifies parts of the agent in `src/src` in TLA+, checks them with TLC on small
instances and proves the most important results with TLAPS for every value of the constants.
Paths below are relative to `src/src/Elastic.Apm/` unless they start otherwise.

## 1. The system

The agent runs inside the process it observes. Application threads create *execution segments*
(transactions, spans, errors) through the tracer or through instrumentation; a segment that ends is
given to the *payload sender*, which queues it, and a background loop posts batches to the APM
Server. A second background loop polls the server for *central configuration* and replaces the
configuration snapshot that new transactions take. A timer collects *metrics*, which go through the
payload sender too. `AgentComponents.Dispose` stops all of it.

| Component | State it keeps | Operations | Talks to | What is hard | Correct means |
|---|---|---|---|---|---|
| `BackendCommComponentBase`, `DisposableHelper`, `SingleThreadTaskScheduler` | dispose state, loop started/completed events, cancellation source, HTTP client, thread | `StartWorkLoop`, `WorkLoop`, `Dispose` | its subclasses; thread pool | concurrent Disposes, the loop ending by itself, cancelling from another thread | one disposal; nothing is released under the loop; Dispose returns |
| `PayloadSenderV2` | `_eventQueueCount`, `BatchBlock`, metadata and its cached line, flags | `EnqueueEvent`, `WorkLoopIteration`, `Dispose` | every application thread; APM Server; cloud metadata services | optimistic counter beside an unbounded block, flush timer, failing posts | capacity, at-most-once, nothing accepted is forgotten |
| `CentralConfigFetcher`, response parser, reader, `ConfigStore` | ETag, current snapshot | one polling iteration, `Dispose` | APM Server; everyone who reads a snapshot | two timeouts, errors, 304, malformed bodies, max-age | snapshot belongs to ETag; polling survives errors; configuration converges |
| `MetricsCollector`, `AgentSpinLock`, providers | lock, failures per provider, timer | timer callback, `Dispose` | providers, configuration, sender | overlapping callbacks, failing providers, disposal under a callback | one collection at a time; a provider is given up for good; collection goes on |
| `FreeAndTotalMemoryProvider` | none | `GetSamples` | `/proc/meminfo` | a read loop with two exit conditions | it returns |
| `Tracer`, `Transaction`, `Span`, Noop variants, `SpanCount`, `CurrentExecutionSegmentsContainer` | the segments, three span counters, two AsyncLocals | start, end, capture, outgoing headers | sender, configuration | concurrent spans at the limit, double End, forks of the flow, configuration changes | limits and counts, no orphans, current segment |
| HTTP, SQL, EF, Elasticsearch, gRPC listeners | table of running operations, a flag on their spans, headers on requests | start / stop / error events | tracer, each other through the current span | events in callbacks and on other flows, two modules that see the same command, retries | one span per command, nothing left open, headers name what is sent |
| ASP.NET Core middleware and listener, `ElasticApmModule` | per-request transaction | request begin / error / end | tracer | two paths to the same request | one transaction per request |
| `TraceContext`, `Sampler`, `WildcardMatcher`, `DbConnectionStringParser`, `ElasticVersion`, configuration parsers | none | pure functions | everyone | boundaries of the grammar and of numbers | agree with a reference definition |
| `Agent`, `AgentComponents`, `LazyContextualInit`, `ElasticApmModule.Init`, `UseElasticApm` | the Lazy instance, `Components`, `_isConfigured`, init-once lock | `Setup`, first use, `Dispose`, initialisation of modules and hosts | all | check and assignment apart, two locks, failures and retries, disabled configurations | exactly one instance, nothing runs that nobody uses |
| Cloud metadata, serialization, stack traces, logging, hosting | none that matters here | | | | |

Every component, also the ones without a module, is listed in `PROJECT.json` under `components`;
what is hard to test is listed there under `hazards`, each at its line.

## 2. Modules

| Module | Models | Main correspondence |
|---|---|---|
| `BackendComm` | `BackendComm/BackendCommComponentBase.cs`, `Helpers/DisposableHelper.cs`, `Helpers/SingleThreadTaskScheduler.cs`, `Helpers/ExceptionUtils.cs` | `dpc[d]`: where caller `d` of `Dispose` is; `loop`, `exitReason`: `_loopCompleted` and how `DoSwallowingExceptions` was left; `cancelTask`: the `Task.Run` that calls `Cancel` |
| `PayloadSender` | `Report/PayloadSenderV2.cs`, `ServerInfo/ApmServerInfoProvider.cs`; EXTENDS `BackendComm` | `fate[e]`: what has become of an event, which also says where it is; `ppc`, `lpc`: where producers and the loop are; `batches`: output of the `BatchBlock` |
| `EventPipe` | nothing: the abstract specification of the sender, a bounded pipe that accepts, refuses, sends in batches and settles | |
| `PayloadSenderRefinement` | the refinement mapping from `PayloadSender` to `EventPipe` | `PlaceOf` maps fates to places |
| `CentralConfig` | `BackendComm/CentralConfig/*.cs`, `Config/ConfigStore.cs`, `Helpers/IAgentTimer.cs`; EXTENDS `BackendComm` | `lpc`: where `WorkLoopIteration` is; `answer`: what the server said; `eTag`, `snapshot`; configurations give each option nothing, a valid or an invalid value |
| `MetricsCollector` | `Metrics/MetricsCollector.cs`, `Helpers/AgentSpinLock.cs`, `AgentComponents.Dispose` | `pc[c]`: where a timer callback is; `fails[p]`: `ConsecutiveNumberOfFailedReads` |
| `FreeAndTotalMemory` | `Metrics/MetricsProvider/FreeAndTotalMemoryProvider.cs` | one action per iteration of the read loop |
| `ExecutionSegments` | `Api/Tracer.cs`, `Api/SpanCount.cs`, `Model/{Transaction,Span,NoopTransaction,NoopSpan,ExecutionSegmentCommon}.cs`, `CurrentExecutionSegmentsContainer.cs` | a *flow* has its own values of the two AsyncLocals; `tx`, `span`: the objects; `call`: the constructor a flow is in, because other flows run between `IncrementTotal` and the decision |
| `Instrumentation` | `DiagnosticListeners/HttpDiagnosticListenerImplBase.cs`, `Model/DbSpanCommon.cs`, `src/src/Elastic.Apm.EntityFrameworkCore`, `src/src/Elastic.Apm.SqlClient`; EXTENDS `ExecutionSegments` | `table[l]`: `ProcessingRequests` and the two `_spans`; `flag`: `InstrumentationFlag`; `context[o]`: the copy of the AsyncLocals that the callback of an operation runs with; the application and the libraries, which are external, say which events come when |
| `AgentSingleton` | `Agent.cs`, `AgentComponents.cs`, `Helpers/LazyContextualInit.cs`, `ElasticApmModule.Init`, both `UseElasticApm` | `pc[t]`: where a thread is in `Setup`, `Instance` or `Init`; `factory`: who runs the Lazy's factory and which `Components` it has read; `running`: components whose threads run; `halfMade`: what a constructor that threw has left running; `lazyFailed`: the Lazy keeps its factory's exception |
| `EventFilters` | `Agent.AddFilter`, and the filters in `Report/PayloadSenderV2.cs` | `slots`: the `List` while `Add` and `ToArray` overlap; `called`, `outcome`: what became of each event of a batch |
| `WildcardMatcher` | `Helpers/WildcardMatcher.cs` | a pattern is the list of its literals, offsets count from 0 |
| `Sampler` | `Sampler.cs` | rates are whole numbers of a fine unit, random bytes are all values of a small signed integer |
| `TraceContext` | `DistributedTracing/TraceContext.cs` | headers are sequences of characters read by position, as in the code, with shorter ids |
| `ElasticVersion` | `ServerInfo/ElasticVersion.cs` | words of a prerelease are their places in the ordinal order |
| `MCAlgorithms` | the questions asked of the four modules above and of `FreeAndTotalMemory` and `EventFilters`, and the reference definitions | one behaviour asks one question |

`MC*` modules and their `.cfg` files instantiate them for TLC; `*Proofs` modules hold the theorems.
`PayloadSender` and `CentralConfig` compose with `BackendComm`, and `Instrumentation` with `ExecutionSegments`, by extending it; of the first two: their `Next` uses its
Dispose actions, and that their behaviours are behaviours of `BaseSpec` is a theorem, so what is
proved of the base holds for both.

Operators marked `mutant` in a module are not part of the specification. Each is a plausible slip in
the definition below it and shows that a property can fail.

### Deliberate abstractions

* An event is an opaque value; only whether it is a metric set (no filter) matters. Filters may drop
  anything else, a throwing filter is ignored as in the code, and serialization of a batch may fail.
* The TPL block, `HttpClient` and the APM Server are modelled from how the code uses them:
  `BatchBlock` makes a batch when enough events are pending or on `TriggerBatch`;
  a request may reach the server and still end in an exception.
* Between an atomic operation and the next one on shared state every other thread may run:
  `EnqueueEvent` is four steps, `Dispose` eight, the constructor of `Span` two.
* Two calls of `End` of the same segment do not overlap: any use of an ended segment is documented
  as illegal (`Api/IExecutionSegment.cs`, `src/docs/public-api.asciidoc`). A *second* call is modelled.
* `Instrumentation` has an application that opens and closes its own spans like brackets on each flow; what it
  awaits is another flow. The libraries send a start event, and one stop or error event after it; in between
  the flow waits, or it goes on and the answer comes in a callback. The configuration stays.
* A span that SqlClient's callback ends does not come back to the flow it was started on: the callback has its own copy of the
  AsyncLocals. Nothing in the model is kinder than .NET in that respect.
* The events of the listeners carry what they read: correlation id, command and connection. With a payload that does not,
  `SqlClientDiagnosticListener` leaves the span open: in its table when an `is` check fails (84-85, 109), out of it when
  something throws after `TryRemove` (the catch blocks at 98-102 and 125-129), as `DbSpanCommon.EndSpan` does at line 43
  when the connection is null. `NothingLeftOpen` and `OpenIsTracked` are about well-formed payloads.
* A disposed metrics provider reads like any other: `MetricsCollector` looks at no flag before `GetSamples`, and what its
  `GetSamples` then does, samples, nothing or an exception, is among the outcomes of `EndRead` anyhow.
* The model of `Setup` has no caller that passes null. Everybody in `src/` passes components.
* `List.Add` of two threads at the same time, which a `List` does not allow, is not modelled.
* A constructor of `AgentComponents` that throws (it has no try) leaves behind nothing or, after line 48, a sender
  (`halfMade`). Whether a `PayloadSender`, a fetcher or the metrics too are running is not told apart.
* A job of `AgentSingleton` is done once per thread; every reader of the option `Enabled` (environment, application,
  Web.config) finds some value.
* The sampling decision is nondeterministic, and a snapshot consists of the two options that the
  modelled code looks at, `Recording` (which stands for `Enabled && Recording`) and
  `TransactionMaxSpans`.
* Counters never wrap in practice (`long` and `int` increments per event); `Nat` is used.

## 3. Runs

| Run | Checks | Bounds, and why they are enough |
|---|---|---|
| `sender` | `CountExact`, `CapacityRespected`, `SentAtMostOnce`, `MetadataLineCurrent`, `ImplementsEventPipe` | 2 producers, 4 events of which one a metric set, batches of 2, configured queue of 1 so that the constructor raises it to 2; the third producer step that is needed to overfill comes from a producer that starts over. FlushInterval = 0, so batches come from the block and from producers' triggers; `Post` may refuse |
| `sender_liveness` | `QueuedIsTaken`, `DisposeReturns` | with a flush interval, 1 producer, 3 events, so that a batch stays partial |
| `central_config` | `SnapshotMatchesETag`, `NotModifiedMeansApplied`, `ConfigConverges`, and of the base component `SingleDisposer`, `ReleasedAfterLoop`, `FullyReleased`, `DisposeReturns` | 3 configurations (one malformed) over 2 options, so that an option is set, removed and invalid; all timeouts; 3 callers of Dispose: one inside, one that finds it inside, one that comes after |
| `central_config_timeout` | `PollingSurvives` fails | with HttpClient's own timeout |
| `metrics` | `MetricsTypeOK`, `OneCollection`, `GivenUpForGood`, `CollectionEnds`, `KeepsCollecting` | 2 callbacks, 2 providers, given up after 3 (5 in the code; the limit is a constant of the theorems) |
| `algorithms` | `GetSamplesReturns` | every file of 4 lines that has both entries, readable or not, and asked for one or both |
| | `WildcardMissesNothing`, `OneLiteralExact` | patterns of up to 4 literals over 2 letters, one of them in two cases, against strings of up to 3 characters cut anywhere: enough for an empty first, last and middle literal and for adjacent matches |
| | `SampledShare` | every rate in fortieths, precision 1/4, 256 random values |
| | `TraceparentGrammar` | fields that are too short, exact or too long, with and without further fields; ids of 2 and 1 digits |
| | `TracestateForwarded` | up to 4 members, 3 allowed |
| | `VersionOrder` | every three of 26 versions around one major number |
| | `FiltersHonoured` | 3 filters with different verdicts (one throws), added at any moment of a batch of 2 events: a slot of the list is empty or missing when it is copied |
| `meminfo_old_kernel` | `GetSamplesReturns` fails | files without MemAvailable |
| `filter_result` | `ReturnedObjectIsSent` fails | as `algorithms` |
| `segments` | `SpanLimit`, `ReportMatchesSpanCount`, `QueuedOnce`, `NoOrphans`, `ReferencedIsSent` | 2 flows, 1 transaction, 3 spans, limit 1: the third span is a child of a dropped one |
| `listeners` | `CommandCapturedOnce`, `NothingLeftOpen`, `OpenIsTracked`, `StackIsKept` | 2 flows, 1 transaction, 3 spans of which one is recorded and the others are dropped, one request (sent any number of times while there are spans), one EF Core command that runs by SqlClient and one command of the application: a span that an earlier command left behind meets a later one of either module, inside a span of the application |
| `agent` | `ModulesInitOnce`, `NoAbandonedComponents`, `ConfiguredMeansComponents`, `EveryCallEnds` | 3 threads, each with any of the five jobs: one inside a lock, one that waits, one that interferes; every combination of `Enabled`. `NoAbandonedComponents` speaks of the behaviours in which all three are modules: one that failed, one that retries it, one that waits |
| `agent_disabled` | `DisabledMeansDisabled` fails | one module |

Deadlock is not checked where the system may come to rest: after Dispose, after `GetSamples`
returned or a question was answered, or when all events, segments or jobs of the instance are used up.
`listeners` leaves what has been sent out of its fingerprints (VIEW): no step and no property of that run looks at it.

### What the failing runs show

Each states what a document or comment of the repository says, and TLC shows a behaviour of the
code that contradicts it (`PROJECT.json`, `findings`):

* `central_config_timeout`: the fetcher's own timeout is 5 minutes, but `HttpClient` gives up after its
  default of 100 seconds with a `TaskCanceledException`, which the loop takes for the shutdown; central
  configuration is not polled any more.
* `meminfo_old_kernel`: on a kernel without `MemAvailable`, `GetSamples` never returns, with the collection
  lock held: no metrics any more and a busy thread.
* `agent_disabled`: a Web.config with `Enabled` false makes `SafeAgentSetup` return without `Agent.Setup`; the next
  line asks `Agent.Instance`, which makes an agent from the environment, enabled by default: its threads run and the
  module handles requests.
* `filter_result`: what a filter returns is only compared with null; the event is sent as it was queued.

### Other behaviours a reader should know of

No run is spent on these; most are steps or states of the models.

* `EnqueueEvent` counts an event before it knows that there is room (`PayloadSenderV2.cs:135`) and takes the increment
  back later (144), so for that moment a concurrent event is discarded although the queue is not full.
* `StartTransaction` reads the current snapshot for the decision between a real and a Noop transaction while
  `StartTransactionInternal` reads it again, so a real transaction can hold a snapshot that says not to record; its
  spans are then Noop spans and it is still reported.
* `Span.End` puts `CurrentSpan` back only in the flow that ends the span. A flow that was forked from it, or whose task's
  continuation or callback ends the span, keeps the ended span as its current one. With SqlClient's asynchronous
  methods the EF Core listener then takes later commands of that flow for SqlClient's (which captures them); with a
  provider that has no listener they are not captured. `EndTransaction` does not touch `CurrentSpan`, so the
  spans of the next transaction on that flow are attached to the old one.
* An event that is ended after the sender was disposed makes `QueueSpan` throw, out of `End` and before the current span is put back.
* `AddFilter` that overlaps the copy of the list can lose the whole batch: `CopyTo` throws (`CopyFails`).
* The traceparent header stays on a request that is sent again, so a second attempt names the span of the first
  (`HttpDiagnosticListenerImplBase.cs:142`). It is a segment that is sent, which is part of `InstrumentationInv` (`HeaderInv`).
* Events that are accepted while `Dispose` runs, and those it finds in the queue, stay there: `QueuedIsTaken` ends with `Dispose`.
* A max-age beyond what `Task.Delay` takes ends polling, like HttpClient's timeout (`CentralConfigFetcher.cs:155`).
* A dropped or started span changes its transaction's count also after the transaction was queued:
  `ReportMatchesSpanCount` is about the counters, and what is serialized is their value at the time of the post.
* A start event of a request that is already in the table leaves its new span open for ever
  (`HttpDiagnosticListenerImplBase.cs:135`); the libraries do not send one.
* `Setup` that overlaps the first use of `Agent` succeeds and has no effect, and of two `Setup`s before the first use the
  components of the first go on running. When `Setup` throws only `ElasticApmModule` disposes what it had
  built; `UseElasticApm`, hosts and the startup hook do not. So components are abandoned
  whenever such calls overlap (`Agent.cs:239`); `NoAbandonedComponents` promises only that modules leave none to each other.
* When the constructor of `AgentComponents` throws after it has started the sender (`AgentComponents.cs:47-54`), nobody has
  a reference to dispose it by.
* When `new AgentComponents()` throws in the Lazy's factory (`Agent.cs:105`), `LazyApmAgent` keeps the exception: everybody who
  asks for the instance from then on gets it. `Setup` still succeeds, because the Lazy has no value, and has no
  effect; each `HttpApplication` that retries the module then builds components, sets them up and fails, and all of them go on running.
* `IsConfigured` is false after a first use without `Setup`, so a host then builds components of its own and `Setup` throws.
* The host's `IApmAgent` service returns another `ApmAgent` object than `Agent.Instance`, with the same components.
* The components a disabled Web.config leads to are never disposed.
* A wildcard's last literal is looked for at the end of the string without regard to where the one before it ended, so
  `a*a` matches `a` (`WildcardMatcher.cs:281`). Nothing that a pattern describes is missed, and patterns
  with one literal are exact.
* In `Ef6Interceptor.cs:145` a `NoopSpan` is cast to `Span`; the exception is logged and the Noop span stays current.

Of the algorithms: a rate below 0.0001 is rounded up to 0.0001 for what the transaction reports, while the bounds of
the decision are computed from the rate as given (`Sampler.cs:51`), so fewer transactions are sampled
than the reported rate says; `SampledShare` therefore allows a whole step there. Two versions that
compare as equal may still differ under `==`: a prerelease of null and an empty one, or `01` and `1`.
### Fairness

* `BackendComm`, `PayloadSender`, `CentralConfig`: weak fairness of each thread that is inside a call
  (the operating system schedules it), of the loop's steps, of the cancel task on the pool. A
  `PostAsync` ends because `HttpClient` has a timeout, so `FinishPost` is among the loop's steps. Nobody has to
  call `EnqueueEvent` or `Dispose`.
* `PayloadSender`: weak fairness of `DeliverBatch` (the block) and of `FlushTimeout` (the timer).
* `CentralConfig`: `DisposeReturns` needs the process only. `ConfigConverges` has its assumption in the formula
  (`ServerFairness`): a server that is reachable again and again (strong fairness of an answer and of
  reading one), which no code can guarantee and without which nothing can converge; and that the delay elapses.
* `MetricsCollector`: callbacks go on through the collector's own code (`CollectorStep`); the timer raises its event while
  it runs. That `GetSamples` of a provider returns is not in the specification's fairness: no code sees to it, and
  `FreeAndTotalMemoryProvider` does not on old kernels (run `meminfo_old_kernel`). `CollectionEnds` and
  `KeepsCollecting` have it as an assumption in the formula (`ProvidersReturn`); where it fails, the lock is held for ever
  and there are no metrics any more.
* `FreeAndTotalMemory`: the reading thread goes on.
* `AgentSingleton`: weak fairness of each thread that is inside a call. Nobody has to begin one, nothing has to fail, and
  a constructor or a factory that is run returns or throws.

With a flush interval the sender has one more step, `FlushTimeout`; the safety properties of the run
`sender` are proved for both modes, and `sender_liveness` explores the other one. With FlushInterval = 0 liveness is not
checked by a run.

## 4. Proofs

`tlapm` checks the following for every value of the constants, under the named assumptions in the
modules (`SenderConstants`, `ConfigConstants`, ...), which TLC evaluates on every run. They say that limits are
natural numbers, that kinds of model values are disjoint, that null (`NoData`, `NoVersion`) is none of the values it is
compared with, and that `HexValue` gives digits their values.

* `BackendCommProofs`: `BaseInv` relates the dispose state, the callers' positions, the loop, the thread
  and the two resources; it is inductive because only the caller that exchanged the state from
  *before* can be in the body and each step of the body records what it has waited for.
  It gives `SingleDisposer`, `ReleasedAfterLoop`, `FullyReleased`.
* `PayloadSenderProofs`: a step of the sender is a step of the base component or leaves it
  alone, so `BaseInv` carries over. `CountInv` adds to `CountExact` and `CapacityRespected` that a producer which
  is about to post or back out holds an offered event nobody else holds, and that the batches are
  exactly the batched events; without that the cardinalities cannot be computed across `PostEvent`,
  `DeliverBatch` and `AccountBatch`. The capacity argument: whoever is about to post found the counter, its
  own increment included, at most at the capacity, and the counter never undercounts.
  `LoopInv` says what the loop's position means for the events in its
  hands, the request under way, the metadata and the cancelled token. With `CountInv` it gives at-most-once,
  the end of the loop, the metadata line, and step by step that the sender implements `EventPipe`.
* `CentralConfigProofs`: `ConfigInv` says what is in force at each position of the iteration. `PollingEndsOnDispose` assumes
  what the failing run shows to be necessary.
* `MetricsCollectorProofs`: a callback is inside exactly while it holds the lock, and one that is about to
  read a provider found its count below the limit; nobody else can have changed it since.
* `ExecutionSegmentsProofs`: `SegmentInv` for the kinds, parents and references; `CountsInv` for the three
  counters: numbers given out by `IncrementTotal` are distinct, lie in `1..total` and all of them
  are in use, so the spans whose number is within the limit are as many as were started or are
  about to be.
* `AgentProofs`: `AgentInv` says what a position means for the two locks (`LockInv`) and the job (`JobInv`), that
  components anything refers to were made (`OwnerInv`), that whoever is in `Setup` holds an argument (`SetupInv`),
  what has happened when the module is initialised (`InitInv`), and where the running components of a module are
  (`ModuleInv`, while only modules use the agent). `NoAbandonedComponents` needs `ModuleInv`: the lock of the modules keeps
  their `Setup`s apart, so whatever was set up is made the instance before the lock is given back (the Lazy's factory
  can only throw when Web.config disables the agent and nothing was set up); and a module that finds the instance made disposes its own.
* `InstrumentationProofs`: `InstrumentationInv` is `SegmentInv` and what the listeners add. A start or stop event is
  ignored when the current span belongs to a competing module, and the code never compares it with the operation, so the
  invariant says what a flow's current span can be. `MadeForInv`: a span that is not ended is in its listener's table or
  in its constructor. `WaitInv`: while a flow waits for an operation, its current span is that of the operation or one
  under which no module ignores an event, so `NothingLeftOpen`; for EF Core's stop event this needs that SqlClient's
  span, if there is one, is a `NoopSpan`, whose parents are too. `RivalInv`: a span of EF Core, unless a `NoopSpan`, is the current
  one only while its command runs and nobody's parent, so SqlClient ignores a command only if EF Core has its span;
  `CaptureInv` turns that into `CommandCapturedOnce`. `BlameInv` is for errors, `HeaderInv` says that headers name segments that are sent.
  `OpenInv`, for `OpenIsTracked`, says that a span in a table is not ended; it needs `StackInv`, because what the application
  closes is on its stack and so not a listener's.
  `StackInv`, beside it, is for `StackIsKept`: each span on a flow's stack is open and covers the ones below it (`NestedInv`),
  the current span, or the parent of the span a flow is constructing, covers the whole stack (`CurrentInv`), and so does the
  parent of a span in a listener's table, which becomes current when the operation is over (`ReturnInv`); to cover a
  stack is to have all of it among the ancestors and to be its top or a listener's span. `Chain` is the least set that
  contains a span's parents (every set that `LeadsUp` has it), so that a step is shown to keep an ancestor
  without induction over the length of the chain.
* `AlgorithmProofs`: a behaviour of `AlgorithmsSpec` keeps the question it began with (`QuestionStays`), so a property of
  the answers is a theorem about operators. It is stated twice: for inputs of every size (`...OfEvery...`,
  `...OfAny...`, `DescribedIsMatched`, `MatchedIsDescribed`), and from that for `AlgorithmsSpec` and its questions.
  - Sampler: the sampled values are an interval, whose size is computed from the two bounds; the rest is arithmetic on
    quotients. A rate below a step has its own case, as described above.
  - Versions: a comparison of two numbers is antisymmetric and transitive, and the first that is not zero decides.
  - Filters: `FilterInv` says that the list holds what was added, in order, and last an empty slot while one is being added;
    that the copy has room for every filter the event must pass; and that the filters called so far are a part of that list.
  - Wildcards: where a pattern describes a string its literals have places; the matcher, which takes the
    first place for each, is never beyond them. Of a pattern with one literal only one case of `ValueOf` is left.
  - tracestate: the loop keeps exactly the pairs, in order, and a list of pairs with different keys is kept as it is.
  - traceparent: the ends of the fields (`FieldsAt`) say which characters of a header belong to which. If the dashes stand
    where the code looks for them, the fields have the lengths it expects (`Layout`), and conversely.

  `LeastNumber` and `DefinedStepByStep` (a function that is defined from its value at 0, each value by the one before, exists) take the place of
  an induction: the library's theorems take an operator as a parameter, which the provers cannot use, but
  the least number for which one formula fails can be named. `TraceContext` and `WildcardMatcher` therefore have recursive functions and no RECURSIVE operators.

Model-checked only: every property with fairness (`DisposeReturns`, `QueuedIsTaken`, `ConfigConverges`,
`CollectionEnds`, `KeepsCollecting`, `GetSamplesReturns`, `EveryCallEnds`), since ENABLED and liveness are out of the prover's
reach, and what the four failing runs show. Every other property of a passing run is a theorem.

Of four of the liveness properties the part that is a matter of safety is proved, for any number of threads, callbacks, providers or lines:

* `EveryCallEnds`: `NobodyBlocksEverybody` and `CallsAreBounded`. Each step of a thread lowers the number of steps its call
  can still take (`StepsLeft`), and nobody else's step raises it; and while a call is under way some thread can take a step
  (`CanStep`, the guards of `ThreadStep`). Threads that are scheduled therefore run out of steps only at the end of
  their calls. The invariants say who holds the two locks: one who waits for the lock of the modules waits for a
  thread in `InsideInit`, which waits at most for the factory of the Lazy (`FactoryInv`), which waits for nobody.
* `DisposeReturns`: `DisposeNeverHangs`. Whatever the disposing call waits for has been told to end; the cancel task
  cannot come too late (`CancelInv`). What is left to fairness is that the task, the cancelled loop and the thread run.
  `SenderImplementsBackendComm` and `FetcherImplementsBackendComm` carry it over to the sender and the fetcher.
* `CollectionEnds`: `CollectionsAreBounded`, which counts the return of each read as a step and does not show that it comes.
* `GetSamplesReturns`: `GetSamplesIsBounded`, for files that have both entries, as in the run `algorithms`.

The theorems `SenderTypes`, `BatchesAreExact`, `HandIsEmptied`, `LoopRunsUntilDispose`, `ConfigTypes`, `SenderOutlivesTimer`,
`SegmentTypes` and `AgentTypes` are parts of the inductive invariants; no run repeats them.

## 5. Not modelled, and what could come next

Not modelled because what matters in them is formatting or a call of the system: serialization, stack traces, logging, the local configuration
readers, connection strings, the startup hook's assembly loading, the arithmetic of the cpu, cgroup and GC metrics.

The sample applications are not modelled either: they only set the agent up, and the scripts beside them (jQuery,
Bootstrap, Popper) are copies of third-party libraries.

Left out of modelled parts: the per-request state of the ASP.NET Core and full framework modules beyond initialisation,
Entity Framework 6, the Elasticsearch and gRPC listeners (the table of `Instrumentation`
with another key), labels, contexts and outcome of segments, the order of the cloud metadata providers.

Next would be a request of ASP.NET Core from the middleware and from the diagnostic listener.
