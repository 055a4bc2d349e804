-------------------------- MODULE MetricsCollector --------------------------
(***************************************************************************)
(* MetricsCollector with AgentSpinLock and the part of AgentComponents     *)
(* .Dispose that concerns it.  A timer starts a collection on a pool       *)
(* thread at every interval, whether or not the previous one has ended;    *)
(* the spin lock lets one through.  A provider that failed                 *)
(* MaxTryWithoutSuccess times in a row is given up; the count is compared  *)
(* with =, so it must never be able to step over the limit.                *)
(***************************************************************************)
EXTENDS Naturals, Sequences, FiniteSets

CONSTANTS
    Callbacks,              \* pool threads that the timer's event may run on
    MetricsProviders,       \* in the order of the list
    MaxTryWithoutSuccess

Providers == {MetricsProviders[i] : i \in DOMAIN MetricsProviders}

ASSUME CollectorConstants ==
    /\ MaxTryWithoutSuccess \in Nat \ {0}
    /\ MetricsProviders \in Seq(Providers)
    /\ \A i, j \in DOMAIN MetricsProviders : MetricsProviders[i] = MetricsProviders[j] => i = j

VARIABLES
    timer,          \* _timer: "running", "disposed"
    pc,             \* where each callback is
    pos,            \* the provider its foreach is at
    samples,        \* it has samples to send
    isAcquired,     \* _isCollectionInProgress
    fails,          \* ConsecutiveNumberOfFailedReads
    captured,       \* IsMetricAlreadyCaptured
    recording,      \* CurrentSnapshot.Recording
    disposedProviders,
    senderDisposed, \* PayloadSender.Dispose was called
    disposing       \* where AgentComponents.Dispose is

vars == <<timer, pc, pos, samples, isAcquired, fails, captured, recording,
          disposedProviders, senderDisposed, disposing>>

CallbackPcs == {"idle", "elapsed", "acquired", "provider", "reading", "queue", "stop", "release"}
Inside == {c \in Callbacks : pc[c] \notin {"idle", "elapsed"}}

MetricsTypeOK ==
    /\ timer \in {"running", "disposed"}
    /\ pc \in [Callbacks -> CallbackPcs]
    /\ pos \in [Callbacks -> 1 .. Len(MetricsProviders) + 1]
    /\ samples \in [Callbacks -> BOOLEAN]
    /\ isAcquired \in BOOLEAN
    /\ fails \in [Providers -> 0 .. MaxTryWithoutSuccess]
    /\ captured \in [Providers -> BOOLEAN]
    /\ recording \in BOOLEAN
    /\ disposedProviders \in SUBSET Providers
    /\ senderDisposed \in BOOLEAN
    /\ disposing \in {"no", "timer", "providers", "sender", "done"}

(* StartCollecting was called by the constructor of AgentComponents. *)
Init ==
    /\ timer = "running"
    /\ pc = [c \in Callbacks |-> "idle"]
    /\ pos = [c \in Callbacks |-> 1]
    /\ samples = [c \in Callbacks |-> FALSE]
    /\ isAcquired = FALSE
    /\ fails = [p \in Providers |-> 0]
    /\ captured \in [Providers -> BOOLEAN]
    /\ recording \in BOOLEAN
    /\ disposedProviders = {}
    /\ senderDisposed = FALSE
    /\ disposing = "no"

-----------------------------------------------------------------------------
Moves(c, from, to) == pc[c] = from /\ pc' = [pc EXCEPT ![c] = to]
Elsewhere == UNCHANGED <<captured, recording, disposedProviders, senderDisposed, disposing>>

(* The timer's event is raised on a pool thread. *)
Elapsed(c) ==
    /\ timer = "running"
    /\ Moves(c, "idle", "elapsed")
    /\ UNCHANGED <<timer, pos, samples, isAcquired, fails>> /\ Elsewhere

TryAcquireAlways(c) ==           \* mutant: the result of TryAcquire is ignored
    /\ isAcquired' = TRUE
    /\ Moves(c, "elapsed", "acquired")
    /\ UNCHANGED <<timer, pos, samples, fails>> /\ Elsewhere

TryAcquire(c) ==
    /\ isAcquired' = TRUE
    /\ Moves(c, "elapsed", IF isAcquired THEN "idle" ELSE "acquired")
    /\ UNCHANGED <<timer, pos, samples, fails>> /\ Elsewhere

NotRecordingLeaks(c) ==          \* mutant: the early return keeps the lock
    /\ Moves(c, "acquired", IF recording THEN "provider" ELSE "idle")
    /\ pos' = [pos EXCEPT ![c] = 1]
    /\ samples' = [samples EXCEPT ![c] = FALSE]
    /\ UNCHANGED <<timer, isAcquired, fails>> /\ Elsewhere

CheckRecording(c) ==
    /\ Moves(c, "acquired", IF recording THEN "provider" ELSE "release")
    /\ pos' = [pos EXCEPT ![c] = 1]
    /\ samples' = [samples EXCEPT ![c] = FALSE]
    /\ UNCHANGED <<timer, isAcquired, fails>> /\ Elsewhere

Current(c) == MetricsProviders[pos[c]]

NoMoreProviders(c) ==
    /\ pos[c] > Len(MetricsProviders)
    /\ Moves(c, "provider", IF samples[c] THEN "queue" ELSE "release")
    /\ UNCHANGED <<timer, pos, samples, isAcquired, fails>> /\ Elsewhere

SkipProviderStays(c) ==          \* mutant: continue comes before the next provider
    /\ pos[c] <= Len(MetricsProviders)
    /\ fails[Current(c)] = MaxTryWithoutSuccess \/ ~captured[Current(c)]
    /\ Moves(c, "provider", "provider")
    /\ UNCHANGED <<timer, pos, samples, isAcquired, fails>> /\ Elsewhere

SkipProvider(c) ==
    /\ pos[c] <= Len(MetricsProviders)
    /\ fails[Current(c)] = MaxTryWithoutSuccess \/ ~captured[Current(c)]
    /\ Moves(c, "provider", "provider")
    /\ pos' = [pos EXCEPT ![c] = @ + 1]
    /\ UNCHANGED <<timer, samples, isAcquired, fails>> /\ Elsewhere

BeginReadGivenUp(c) ==           \* mutant: reads a provider that was given up
    /\ pos[c] <= Len(MetricsProviders)
    /\ captured[Current(c)]
    /\ Moves(c, "provider", "reading")
    /\ UNCHANGED <<timer, pos, samples, isAcquired, fails>> /\ Elsewhere

BeginRead(c) ==         \* up to the call of GetSamples
    /\ pos[c] <= Len(MetricsProviders)
    /\ fails[Current(c)] # MaxTryWithoutSuccess /\ captured[Current(c)]
    /\ Moves(c, "provider", "reading")
    /\ UNCHANGED <<timer, pos, samples, isAcquired, fails>> /\ Elsewhere

EndReadCountsTwice(c) ==         \* mutant: a failure is counted in both places
    /\ Moves(c, "reading", "provider")
    /\ pos' = [pos EXCEPT ![c] = @ + 1]
    /\ \/ /\ fails' = [fails EXCEPT ![Current(c)] = 0]
          /\ samples' = [samples EXCEPT ![c] = TRUE]
       \/ /\ fails' = [fails EXCEPT ![Current(c)] = @ + 2]
          /\ UNCHANGED samples
    /\ UNCHANGED <<timer, isAcquired>> /\ Elsewhere

(* GetSamples is over: samples; or none, no finite one, or an exception,   *)
(* which is a failed read.  No provider looks whether it was disposed, so  *)
(* one that is disposed under a callback ends in one of these ways too.    *)
EndRead(c) ==
    /\ Moves(c, "reading", "provider")
    /\ pos' = [pos EXCEPT ![c] = @ + 1]
    /\ \/ /\ fails' = [fails EXCEPT ![Current(c)] = 0]
          /\ samples' = [samples EXCEPT ![c] = TRUE]
       \/ /\ fails' = [fails EXCEPT ![Current(c)] = @ + 1]
          /\ UNCHANGED samples
    /\ UNCHANGED <<timer, isAcquired>> /\ Elsewhere

(* QueueMetrics throws when the sender has been disposed. *)
QueueMetrics(c) ==
    /\ Moves(c, "queue", IF senderDisposed THEN "stop" ELSE "release")
    /\ UNCHANGED <<timer, pos, samples, isAcquired, fails>> /\ Elsewhere

StopCollecting(c) ==
    /\ Moves(c, "stop", "release")
    /\ timer' = "disposed"
    /\ UNCHANGED <<pos, samples, isAcquired, fails>> /\ Elsewhere

Release(c) ==
    /\ Moves(c, "release", "idle")
    /\ isAcquired' = FALSE
    /\ UNCHANGED <<timer, pos, samples, fails>> /\ Elsewhere

(* The collector's own steps; when EndRead comes is up to the provider. *)
CollectorStep(c) ==
    \/ TryAcquire(c) \/ CheckRecording(c)
    \/ NoMoreProviders(c) \/ SkipProvider(c) \/ BeginRead(c)
    \/ QueueMetrics(c) \/ StopCollecting(c) \/ Release(c)

CallbackStep(c) == CollectorStep(c) \/ EndRead(c)

-----------------------------------------------------------------------------
CallbacksOnly == UNCHANGED <<pc, pos, samples, isAcquired, fails>>

(* Central configuration; the first garbage collection. *)
ChangeRecording ==
    /\ recording' = ~recording
    /\ UNCHANGED <<timer, captured, disposedProviders, senderDisposed, disposing>> /\ CallbacksOnly
MetricCaptured(p) ==
    /\ ~captured[p]
    /\ captured' = [captured EXCEPT ![p] = TRUE]
    /\ UNCHANGED <<timer, recording, disposedProviders, senderDisposed, disposing>> /\ CallbacksOnly

(* AgentComponents.Dispose: the timer, the providers one by one, and then  *)
(* the sender; a callback that is under way is not waited for.             *)
Dispose ==
    \/ /\ disposing = "no" /\ disposing' = "providers"
       /\ timer' = "disposed"
       /\ UNCHANGED <<disposedProviders, senderDisposed, captured, recording>> /\ CallbacksOnly
    \/ /\ disposing = "providers"
       /\ \E p \in Providers \ disposedProviders :
              disposedProviders' = disposedProviders \cup {p}
       /\ disposing' = IF disposedProviders' = Providers THEN "sender" ELSE "providers"
       /\ UNCHANGED <<timer, senderDisposed, captured, recording>> /\ CallbacksOnly
    \/ /\ disposing = "sender" /\ disposing' = "done"
       /\ senderDisposed' = TRUE
       /\ UNCHANGED <<timer, disposedProviders, captured, recording>> /\ CallbacksOnly

Next ==
    \/ \E c \in Callbacks : Elapsed(c) \/ CallbackStep(c)
    \/ ChangeRecording \/ Dispose
    \/ \E p \in Providers : MetricCaptured(p)

Spec == Init /\ [][Next]_vars

(* A thread that runs the collector's code goes on; the timer keeps        *)
(* raising its event while it runs.                                        *)
Fairness ==
    /\ \A c \in Callbacks : WF_vars(CollectorStep(c))
    /\ WF_vars(\E c \in Callbacks : Elapsed(c))
FairSpec == Spec /\ Fairness

(* What the collector relies on and has no timeout for: a provider that is *)
(* read comes to an end.                                                   *)
ProvidersReturn == \A c \in Callbacks : WF_vars(EndRead(c))

-----------------------------------------------------------------------------
(* AgentSpinLock: one collection at a time, and the lock is held exactly   *)
(* while there is one; every early return gives it back.                   *)
OneCollection ==
    /\ \A c, d \in Inside : c = d
    /\ isAcquired <=> Inside # {}

(* A provider is never read once it was given up: its count stays where it *)
(* is, whatever collections follow.                                        *)
GivenUpForGood ==
    [][\A p \in Providers : fails[p] = MaxTryWithoutSuccess => fails'[p] = MaxTryWithoutSuccess]_vars

(* Once the sender is gone no collection is started any more; the ones the *)
(* timer had started before may still meet the disposed sender.            *)
NoTicksAfterSender ==
    senderDisposed => timer = "disposed" /\ disposing = "done"

(* As long as GetSamples of the providers returns, a collection ends and   *)
(* gives the lock back, whichever providers fail, are skipped or are       *)
(* disposed under it, and although its sender may be disposed already.     *)
CollectionEnds ==
    ProvidersReturn => \A c \in Callbacks : c \in Inside ~> c \notin Inside

(* As long as GetSamples of the providers returns and the timer runs, new  *)
(* collections are started: no early return and no failure leaves the lock *)
(* behind.  A provider that does not return ends metrics altogether.       *)
KeepsCollecting ==
    ProvidersReturn =>
        []<>(\E c \in Callbacks : pc[c] = "acquired") \/ <>(timer = "disposed")
=============================================================================
