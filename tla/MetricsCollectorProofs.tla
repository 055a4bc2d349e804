----------------------- MODULE MetricsCollectorProofs -----------------------
(***************************************************************************)
(* Proofs about MetricsCollector, for any callbacks, providers and limit.  *)
(* That a count never steps over the limit depends on the lock: between    *)
(* the test of BeginRead and the increment of EndRead no other collection  *)
(* may touch the provider.                                                 *)
(***************************************************************************)
EXTENDS MetricsCollector, Integers, TLAPS

(* What is used of the constants. *)
LEMMA ConstantsUsed ==
    /\ MaxTryWithoutSuccess \in Nat \ {0}
    /\ Len(MetricsProviders) \in Nat
    /\ \A i \in 1 .. Len(MetricsProviders) : MetricsProviders[i] \in Providers
BY CollectorConstants DEF Providers

(* A provider that is being read was not given up when the read began. *)
ReadingInv ==
    /\ \A c \in Callbacks : pc[c] = "reading" =>
           pos[c] <= Len(MetricsProviders) /\ fails[Current(c)] # MaxTryWithoutSuccess
    /\ senderDisposed => disposing = "done"
    /\ disposing # "no" => timer = "disposed"

MetricsInv == MetricsTypeOK /\ OneCollection /\ ReadingInv

LEMMA CurrentIsProvider ==
    ASSUME MetricsTypeOK, NEW c \in Callbacks, pos[c] <= Len(MetricsProviders)
    PROVE  Current(c) \in Providers
BY ConstantsUsed DEF Current, MetricsTypeOK

LEMMA MetricsInitial == Init => MetricsInv
<1> SUFFICES ASSUME Init PROVE MetricsInv
  OBVIOUS
<1>1. 1 \in 1 .. Len(MetricsProviders) + 1 /\ 0 \in 0 .. MaxTryWithoutSuccess
  BY ConstantsUsed
<1>2. MetricsTypeOK
  BY <1>1 DEF Init, MetricsTypeOK, CallbackPcs
<1> QED
  BY <1>2 DEF Init, MetricsInv, OneCollection, Inside, ReadingInv

LEMMA CallbackStepKeeps ==
    ASSUME MetricsInv, NEW c \in Callbacks, Elapsed(c) \/ CallbackStep(c)
    PROVE  MetricsInv' /\ (\A p \in Providers : fails[p] = MaxTryWithoutSuccess => fails'[p] = MaxTryWithoutSuccess)
<1> USE DEF MetricsInv, MetricsTypeOK, Moves, Elsewhere, CallbackPcs, Inside, Current
<1>0. Len(MetricsProviders) \in Nat /\ MaxTryWithoutSuccess \in Nat
  BY ConstantsUsed
<1>1. CASE Elapsed(c)
  BY <1>0, <1>1 DEF Elapsed, OneCollection, ReadingInv
<1>2. CASE TryAcquire(c)
  BY <1>0, <1>2 DEF TryAcquire, OneCollection, ReadingInv
<1>3. CASE CheckRecording(c)
  BY <1>0, <1>3 DEF CheckRecording, OneCollection, ReadingInv
<1>4. CASE NoMoreProviders(c)
  BY <1>0, <1>4 DEF NoMoreProviders, OneCollection, ReadingInv
<1>5. CASE SkipProvider(c)
  BY <1>0, <1>5 DEF SkipProvider, OneCollection, ReadingInv
<1>6. CASE BeginRead(c)
  BY <1>0, <1>6 DEF BeginRead, OneCollection, ReadingInv
<1>7. CASE EndRead(c)
  <2>1. pc[c] = "reading" /\ pos[c] <= Len(MetricsProviders) /\ fails[Current(c)] # MaxTryWithoutSuccess
    BY <1>7 DEF EndRead, ReadingInv
  <2>2. Current(c) \in Providers
    BY <2>1, CurrentIsProvider
  <2>3. \A d \in Callbacks : d # c => pc[d] # "reading"
    BY <2>1 DEF OneCollection
  <2>4. MetricsTypeOK' /\ \A p \in Providers : fails[p] = MaxTryWithoutSuccess => fails'[p] = MaxTryWithoutSuccess
    <3>1. pos'[c] \in 1 .. Len(MetricsProviders) + 1 /\ pc'[c] = "provider"
      BY <1>0, <1>7, <2>1 DEF EndRead
    <3>2. pos' \in [Callbacks -> 1 .. Len(MetricsProviders) + 1] /\ pc' \in [Callbacks -> CallbackPcs]
      BY <1>7, <3>1 DEF EndRead
    <3>3. fails[Current(c)] + 1 \in 0 .. MaxTryWithoutSuccess /\ 0 \in 0 .. MaxTryWithoutSuccess
      BY <1>0, <2>1, <2>2
    <3>4. fails' = [fails EXCEPT ![Current(c)] = 0] \/ fails' = [fails EXCEPT ![Current(c)] = fails[Current(c)] + 1]
      BY <1>7 DEF EndRead
    <3>5. /\ fails' \in [Providers -> 0 .. MaxTryWithoutSuccess]
          /\ \A p \in Providers : fails[p] = MaxTryWithoutSuccess => fails'[p] = MaxTryWithoutSuccess
      <4> HIDE DEF Current, Providers
      <4> QED
        BY <2>1, <2>2, <3>3, <3>4
    <3> QED
      BY <1>7, <3>2, <3>5 DEF EndRead
  <2>5. OneCollection'
    BY <1>7 DEF EndRead, OneCollection
  <2>6. ReadingInv'
    BY <1>7, <2>3 DEF EndRead, ReadingInv
  <2> QED
    BY <2>4, <2>5, <2>6
<1>8. CASE QueueMetrics(c)
  BY <1>0, <1>8 DEF QueueMetrics, OneCollection, ReadingInv
<1>9. CASE StopCollecting(c)
  BY <1>0, <1>9 DEF StopCollecting, OneCollection, ReadingInv
<1>10. CASE Release(c)
  <2>1. pc[c] = "release" /\ pc' = [pc EXCEPT ![c] = "idle"] /\ Inside = {c}
    BY <1>10 DEF Release, OneCollection
  <2>2. Inside' = {} /\ isAcquired' = FALSE
    BY <1>10, <2>1 DEF Release
  <2>3. OneCollection'
    BY <2>2 DEF OneCollection
  <2>4. MetricsTypeOK' /\ ReadingInv'
    BY <1>10, <2>1 DEF Release, ReadingInv
  <2> QED
    BY <1>10, <2>3, <2>4 DEF Release
<1> QED
  BY <1>1, <1>2, <1>3, <1>4, <1>5, <1>6, <1>7, <1>8, <1>9, <1>10 DEF CallbackStep, CollectorStep

LEMMA MetricsStepKeeps ==
    ASSUME MetricsInv, [Next]_vars
    PROVE  MetricsInv' /\ (\A p \in Providers : fails[p] = MaxTryWithoutSuccess => fails'[p] = MaxTryWithoutSuccess)
<1>1. ASSUME NEW c \in Callbacks, Elapsed(c) \/ CallbackStep(c)
      PROVE  MetricsInv' /\ (\A p \in Providers : fails[p] = MaxTryWithoutSuccess => fails'[p] = MaxTryWithoutSuccess)
  BY <1>1, CallbackStepKeeps
<1>2. CASE ChangeRecording
  BY <1>2 DEF ChangeRecording, CallbacksOnly, MetricsInv, MetricsTypeOK, OneCollection, Inside, ReadingInv, Current
<1>3. CASE Dispose
  <2>1. disposedProviders' \in SUBSET Providers
    BY <1>3 DEF Dispose, MetricsInv, MetricsTypeOK
  <2>2. MetricsTypeOK'
    BY <1>3, <2>1 DEF Dispose, CallbacksOnly, MetricsInv, MetricsTypeOK
  <2>3. OneCollection'
    BY <1>3 DEF Dispose, CallbacksOnly, MetricsInv, OneCollection, Inside
  <2>4. ReadingInv'
    BY <1>3 DEF Dispose, CallbacksOnly, MetricsInv, ReadingInv, Current
  <2> QED
    BY <1>3, <2>2, <2>3, <2>4 DEF Dispose, CallbacksOnly, MetricsInv
<1>4. ASSUME NEW p \in Providers, MetricCaptured(p)
      PROVE  MetricsInv' /\ (\A q \in Providers : fails[q] = MaxTryWithoutSuccess => fails'[q] = MaxTryWithoutSuccess)
  BY <1>4 DEF MetricCaptured, CallbacksOnly, MetricsInv, MetricsTypeOK, OneCollection, Inside, ReadingInv, Current
<1>5. CASE UNCHANGED vars
  BY <1>5 DEF vars, MetricsInv, MetricsTypeOK, OneCollection, Inside, ReadingInv, Current
<1> QED
  BY <1>1, <1>2, <1>3, <1>4, <1>5 DEF Next

LEMMA MetricsInvariant == Spec => []MetricsInv
<1>1. Init => MetricsInv
  BY MetricsInitial
<1>2. MetricsInv /\ [Next]_vars => MetricsInv'
  BY MetricsStepKeeps
<1> QED
  BY <1>1, <1>2, PTL DEF Spec

-----------------------------------------------------------------------------
(* The types: in particular no count exceeds MaxTryWithoutSuccess, so the  *)
(* test for equality is enough.                                            *)
THEOREM MetricsTypes == Spec => []MetricsTypeOK
<1>1. MetricsInv => MetricsTypeOK
  BY DEF MetricsInv
<1> QED
  BY <1>1, MetricsInvariant, PTL

(* AgentSpinLock admits one collection at a time and is always released. *)
THEOREM CollectionsExclude == Spec => []OneCollection
<1>1. MetricsInv => OneCollection
  BY DEF MetricsInv
<1> QED
  BY <1>1, MetricsInvariant, PTL

(* A provider that was given up is never read again. *)
THEOREM GivenUpStaysGivenUp == Spec => GivenUpForGood
<1>1. MetricsInv /\ [Next]_vars =>
        [\A p \in Providers : fails[p] = MaxTryWithoutSuccess => fails'[p] = MaxTryWithoutSuccess]_vars
  BY MetricsStepKeeps
<1> QED
  BY <1>1, MetricsInvariant, PTL DEF Spec, GivenUpForGood

(* The timer is stopped before the sender is disposed. *)
THEOREM SenderOutlivesTimer == Spec => []NoTicksAfterSender
<1>1. MetricsInv => NoTicksAfterSender
  BY DEF MetricsInv, ReadingInv, NoTicksAfterSender
<1> QED
  BY <1>1, MetricsInvariant, PTL


-----------------------------------------------------------------------------
(* Why a collection ends (CollectionEnds, less what is assumed): at most   *)
(* so many steps are left of a callback.                                   *)
StepsLeft(c) ==
    CASE pc[c] = "elapsed" -> 2 * Len(MetricsProviders) + 6
      [] pc[c] = "acquired" -> 2 * Len(MetricsProviders) + 5
      [] pc[c] = "provider" -> 2 * (Len(MetricsProviders) + 1 - pos[c]) + 4
      [] pc[c] = "reading" -> 2 * (Len(MetricsProviders) + 1 - pos[c]) + 3
      [] pc[c] = "queue" -> 3
      [] pc[c] = "stop" -> 2
      [] pc[c] = "release" -> 1
      [] OTHER -> 0

LEMMA OwnStepCounts ==
    ASSUME MetricsInv, NEW c \in Callbacks, CallbackStep(c)
    PROVE  StepsLeft(c)' < StepsLeft(c)
<1> USE DEF MetricsInv, MetricsTypeOK, Moves, StepsLeft
<1>1. PICK n \in Nat : n = Len(MetricsProviders)
  BY ConstantsUsed
<1>2. pos[c] \in 1 .. n + 1
  BY <1>1
<1>3. CASE TryAcquire(c)
  BY <1>1, <1>3 DEF TryAcquire
<1>4. CASE CheckRecording(c)
  BY <1>1, <1>4 DEF CheckRecording
<1>5. CASE NoMoreProviders(c)
  BY <1>1, <1>2, <1>5 DEF NoMoreProviders
<1>6. CASE SkipProvider(c)
  BY <1>1, <1>2, <1>6 DEF SkipProvider
<1>7. CASE BeginRead(c)
  BY <1>1, <1>2, <1>7 DEF BeginRead
<1>8. CASE EndRead(c)
  BY <1>1, <1>2, <1>8 DEF EndRead, ReadingInv
<1>9. CASE QueueMetrics(c) \/ StopCollecting(c) \/ Release(c)
  BY <1>1, <1>9 DEF QueueMetrics, StopCollecting, Release
<1> QED
  BY <1>3, <1>4, <1>5, <1>6, <1>7, <1>8, <1>9 DEF CallbackStep, CollectorStep

(* MetricsCollector.CollectAllMetrics: whatever the other callbacks, the   *)
(* configuration and Dispose do and whichever reads fail, a callback takes *)
(* at most two steps per provider and six others; its position in the list *)
(* is its own.  One of the two steps is the return of GetSamples; that it  *)
(* comes is not shown here, it is the assumption of CollectionEnds.        *)
THEOREM CollectionsAreBounded ==
    Spec => [][\A c \in Callbacks : /\ pc[c] # "idle" => StepsLeft(c)' <= StepsLeft(c)
                                    /\ CallbackStep(c) => StepsLeft(c)' < StepsLeft(c)]_vars
<1>1. MetricsInv /\ [Next]_vars =>
         [\A c \in Callbacks : /\ pc[c] # "idle" => StepsLeft(c)' <= StepsLeft(c)
                               /\ CallbackStep(c) => StepsLeft(c)' < StepsLeft(c)]_vars
  <2> SUFFICES ASSUME MetricsInv, Next, NEW c \in Callbacks
               PROVE  /\ pc[c] # "idle" => StepsLeft(c)' <= StepsLeft(c)
                      /\ CallbackStep(c) => StepsLeft(c)' < StepsLeft(c)
    OBVIOUS
  <2>1. StepsLeft(c) \in Int /\ StepsLeft(c)' \in Int
    <3>1. pos[c] \in Int /\ Len(MetricsProviders) \in Int
      BY ConstantsUsed DEF MetricsInv, MetricsTypeOK
    <3>2. pos'[c] \in Int
      BY ConstantsUsed, MetricsStepKeeps DEF MetricsInv, MetricsTypeOK
    <3>3. PICK n \in Int, p \in Int, q \in Int :
             n = Len(MetricsProviders) /\ p = pos[c] /\ q = pos'[c]
      BY <3>1, <3>2, Zenon
    <3>4. /\ 2 * n + 6 \in Int /\ 2 * n + 5 \in Int
          /\ 2 * (n + 1 - p) + 4 \in Int /\ 2 * (n + 1 - p) + 3 \in Int
          /\ 2 * (n + 1 - q) + 4 \in Int /\ 2 * (n + 1 - q) + 3 \in Int
      OBVIOUS
    <3>5. StepsLeft(c) \in Int
      BY <3>3, <3>4 DEF StepsLeft
    <3>6. StepsLeft(c)' \in Int
      BY <3>3, <3>4 DEF StepsLeft
    <3> QED
      BY <3>5, <3>6
  <2>2. CASE CallbackStep(c)
    BY <2>1, <2>2, OwnStepCounts
  <2>3. CASE Elapsed(c)
    BY <2>3, OwnStepCounts DEF Elapsed, Moves
  <2>4. CASE ~CallbackStep(c) /\ ~Elapsed(c)
    <3>1. pc'[c] = pc[c] /\ pos'[c] = pos[c]
      BY <2>4 DEF MetricsInv, MetricsTypeOK, Next, CallbackStep, CollectorStep, Moves, CallbacksOnly, Elapsed, TryAcquire, CheckRecording,
         NoMoreProviders, SkipProvider, BeginRead, EndRead, QueueMetrics, StopCollecting, Release,
         ChangeRecording, Dispose, MetricCaptured
    <3>2. StepsLeft(c)' = StepsLeft(c)
      BY <3>1 DEF StepsLeft
    <3> QED
      BY <2>1, <2>4, <3>2
  <2> QED
    BY <2>2, <2>3, <2>4
<1> QED
  BY <1>1, MetricsInvariant, PTL DEF Spec
=============================================================================
