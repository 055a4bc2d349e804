------------------------ MODULE CentralConfigProofs ------------------------
(***************************************************************************)
(* Proofs about CentralConfig, for any configurations, options, waits and  *)
(* timeouts.  That the snapshot and the ETag agree is not inductive: it    *)
(* needs what the loop holds between the two assignments (AnswerInv), and  *)
(* that the loop is over once it has left the iteration (ExitInv).         *)
(***************************************************************************)
EXTENDS CentralConfig, BackendCommProofs

USE CentralConfigConstants

AnswerInv ==
    /\ answer.kind = "ok" => answer.config \in Configs
    /\ answer.kind = "notModified" => eTag # NoConfig /\ lpc \in {"sent", "parse", "wait", "delay", "request"} \cup Exited
    /\ lpc = "setETag" => Parsed
    /\ answer.wait # "tooLong" \/ "tooLong" \in Waits
    /\ waitInfo # "tooLong" \/ "tooLong" \in Waits
    /\ eTag \notin Malformed

ExitInv ==
    /\ loop = "completed" => lpc \in Exited
    /\ lpc = "cancelled" => cancelled \/ "httpClient" \in Timeouts
    /\ lpc = "failed" => "tooLong" \in Waits
    /\ cancelled => cancelTask # "none"

ConfigInv == CCTypeOK /\ BaseInv /\ SnapshotMatchesETag /\ AnswerInv /\ ExitInv

-----------------------------------------------------------------------------
(* What WrappingConfigSnapshot makes of a configuration is what it means. *)
LEMMA WrappingIsApplied == \A c \in Configs : WrappingConfigSnapshot(c) = Applied(c)
BY DEF WrappingConfigSnapshot, Applied, InitialSnapshot, ParsedOption

LEMMA AppliedType == \A c \in Configs : Applied(c) \in [Options -> Configs \cup {"local", "default"}]
BY DEF Applied

LEMMA ConfigInitial == Init => ConfigInv
<1> SUFFICES ASSUME Init PROVE ConfigInv
  OBVIOUS
<1>1. BaseInv
  BY BaseInitial DEF Init
<1>2. CCTypeOK
  BY <1>1 DEF Init, CCTypeOK, BaseInv, NoAnswer, LoopPcs, InitialSnapshot
<1>3. SnapshotMatchesETag
  BY DEF Init, SnapshotMatchesETag, Applied, InitialSnapshot
<1>4. AnswerInv /\ ExitInv
  BY DEF Init, BaseInit, AnswerInv, ExitInv, NoAnswer
<1> QED
  BY <1>1, <1>2, <1>3, <1>4 DEF ConfigInv

-----------------------------------------------------------------------------
LEMMA StepIsBaseStep == [Next]_vars => [BaseNext]_baseVars
<1> SUFFICES ASSUME [Next]_vars PROVE [BaseNext]_baseVars
  OBVIOUS
<1>1. ASSUME NEW c \in Configs, ChangeServerConfig(c) PROVE UNCHANGED baseVars
  BY <1>1 DEF ChangeServerConfig
<1>2. CASE ServerAnswers \/ RequestFails \/ RequestTimesOut \/ HttpClientTimesOut \/ LoopStep \/ DelayElapses
  <2>1. UNCHANGED baseVars
    BY <1>2 DEF ServerAnswers, RequestFails, RequestTimesOut, HttpClientTimesOut, LoopStep, DelayElapses,
                SendRequest, AwaitResponse, RequestCancelled, UpdateConfigStore, SetETag, NothingToUpdate,
                BeginDelay, DelayCancelled
  <2> QED
    BY <2>1
<1>3. CASE SignalCompleted
  BY <1>3 DEF SignalCompleted, Exited, BaseNext, LoopExits
<1>4. CASE DisposeSteps
  BY <1>4 DEF DisposeSteps, BaseNext
<1>5. CASE UNCHANGED vars
  BY <1>5 DEF vars
<1> QED
  BY <1>1, <1>2, <1>3, <1>4, <1>5 DEF Next

(* The steps of the fetcher and of the server leave the life cycle alone. *)
LEMMA FetcherStepKeeps ==
    ASSUME ConfigInv, BaseInv', UNCHANGED baseVars,
           \/ \E c \in Configs : ChangeServerConfig(c)
           \/ ServerAnswers \/ RequestFails \/ RequestTimesOut \/ HttpClientTimesOut
           \/ LoopStep \/ DelayElapses
    PROVE  ConfigInv'
<1> USE DEF ConfigInv, CCTypeOK, LoopPcs, Exited, LoopGoes, NoAnswer
<1>b. UNCHANGED <<loop, cancelled, cancelTask>> /\ BaseTypeOK'
  BY DEF baseVars, loopVars, disposeVars, BaseInv
<1>1. ASSUME NEW c \in Configs, ChangeServerConfig(c) PROVE ConfigInv'
  BY <1>1, <1>b DEF ChangeServerConfig, SnapshotMatchesETag, AnswerInv, Parsed, ExitInv, Applied
<1>2. CASE ServerAnswers
  BY <1>2, <1>b DEF ServerAnswers, SnapshotMatchesETag, AnswerInv, Parsed, ExitInv, Applied
<1>3. CASE RequestFails
  BY <1>3, <1>b DEF RequestFails, SnapshotMatchesETag, AnswerInv, Parsed, ExitInv, Applied
<1>4. CASE RequestTimesOut
  BY <1>4, <1>b DEF RequestTimesOut, SnapshotMatchesETag, AnswerInv, Parsed, ExitInv, Applied
<1>5. CASE HttpClientTimesOut
  BY <1>5, <1>b DEF HttpClientTimesOut, SnapshotMatchesETag, AnswerInv, Parsed, ExitInv, Applied
<1>6. CASE SendRequest
  BY <1>6, <1>b DEF SendRequest, SnapshotMatchesETag, AnswerInv, Parsed, ExitInv, Applied
<1>7. CASE AwaitResponse
  BY <1>7, <1>b DEF AwaitResponse, SnapshotMatchesETag, AnswerInv, Parsed, ExitInv, Applied
<1>8. CASE RequestCancelled
  BY <1>8, <1>b DEF RequestCancelled, SnapshotMatchesETag, AnswerInv, Parsed, ExitInv, Applied
<1>9. CASE UpdateConfigStore
  <2>1. answer.config \in Configs /\ snapshot' = Applied(answer.config)
    BY <1>9, WrappingIsApplied DEF UpdateConfigStore, AnswerInv, Parsed
  <2>2. CCTypeOK'
    BY <1>9, <1>b, <2>1, AppliedType DEF UpdateConfigStore
  <2>3. SnapshotMatchesETag'
    BY <1>9, <2>1 DEF UpdateConfigStore, SnapshotMatchesETag, Applied
  <2> QED
    BY <1>9, <1>b, <2>2, <2>3 DEF UpdateConfigStore, AnswerInv, Parsed, ExitInv
<1>10. CASE SetETag
  BY <1>10, <1>b DEF SetETag, SnapshotMatchesETag, AnswerInv, Parsed, ExitInv, Applied
<1>11. CASE NothingToUpdate
  BY <1>11, <1>b DEF NothingToUpdate, SnapshotMatchesETag, AnswerInv, Parsed, ExitInv, Applied
<1>12. CASE BeginDelay
  BY <1>12, <1>b DEF BeginDelay, SnapshotMatchesETag, AnswerInv, Parsed, ExitInv, Applied
<1>13. CASE DelayElapses
  BY <1>13, <1>b DEF DelayElapses, SnapshotMatchesETag, AnswerInv, Parsed, ExitInv, Applied
<1>14. CASE DelayCancelled
  BY <1>14, <1>b DEF DelayCancelled, SnapshotMatchesETag, AnswerInv, Parsed, ExitInv, Applied
<1> QED
  BY <1>1, <1>2, <1>3, <1>4, <1>5, <1>6, <1>7, <1>8, <1>9, <1>10, <1>11, <1>12, <1>13, <1>14 DEF LoopStep

LEMMA ConfigStepKeeps == ConfigInv /\ [Next]_vars => ConfigInv'
<1> SUFFICES ASSUME ConfigInv, [Next]_vars PROVE ConfigInv'
  OBVIOUS
<1>1. BaseInv'
  BY StepIsBaseStep, BaseStepKeeps DEF ConfigInv
<1>2. CASE \/ \E c \in Configs : ChangeServerConfig(c)
           \/ ServerAnswers \/ RequestFails \/ RequestTimesOut \/ HttpClientTimesOut
           \/ LoopStep \/ DelayElapses
  <2>1. UNCHANGED baseVars
    BY <1>2 DEF ChangeServerConfig, ServerAnswers, RequestFails, RequestTimesOut, HttpClientTimesOut, LoopStep,
                DelayElapses, SendRequest, AwaitResponse, RequestCancelled, UpdateConfigStore, SetETag,
                NothingToUpdate, BeginDelay, DelayCancelled
  <2> QED
    BY <1>1, <1>2, <2>1, FetcherStepKeeps
<1>3. ASSUME UNCHANGED configVars, loop' = "completed" => loop = "completed" \/ lpc \in Exited,
             cancelled => cancelled', cancelled' => cancelTask' # "none"
      PROVE  ConfigInv'
  BY <1>1, <1>3 DEF ConfigInv, CCTypeOK, BaseInv, configVars, SnapshotMatchesETag, AnswerInv, Parsed, ExitInv,
                    Applied
<1>4. CASE SignalCompleted
  BY <1>3, <1>4 DEF SignalCompleted, CompleteLoop, disposeVars, ConfigInv, ExitInv
<1>5. CASE DisposeSteps
  <2>1. ASSUME NEW d \in Disposers, DisposeStep(d), UNCHANGED <<loopVars, cancelled>>, UNCHANGED configVars
        PROVE  ConfigInv'
    <3>1. cancelTask # "none" => cancelTask' # "none"
      BY <2>1 DEF DisposeStep, BeginDispose, SkipDispose, PostCancel, WaitLoop, CompleteAdding, Join,
                  DisposeHttpClient, DisposeCts, FinishDispose
    <3> QED
      BY <1>3, <2>1, <3>1 DEF loopVars, ConfigInv, ExitInv
  <2>2. CASE RunCancel /\ UNCHANGED loopVars /\ UNCHANGED configVars
    BY <1>3, <2>2 DEF RunCancel, loopVars, ConfigInv, CCTypeOK, BaseTypeOK
  <2>3. CASE ThreadExit /\ UNCHANGED <<loopVars, cancelled>> /\ UNCHANGED configVars
    BY <1>3, <2>3 DEF ThreadExit, loopVars, ConfigInv, ExitInv
  <2> QED
    BY <1>5, <2>1, <2>2, <2>3 DEF DisposeSteps
<1>6. CASE UNCHANGED vars
  BY <1>3, <1>6 DEF vars, baseVars, loopVars, disposeVars, ConfigInv, ExitInv
<1> QED
  BY <1>2, <1>4, <1>5, <1>6 DEF Next

LEMMA ConfigInvariant == Spec => []ConfigInv
<1>1. Init => ConfigInv
  BY ConfigInitial
<1>2. ConfigInv /\ [Next]_vars => ConfigInv'
  BY ConfigStepKeeps
<1> QED
  BY <1>1, <1>2, PTL DEF Spec

-----------------------------------------------------------------------------
(* What BackendComm's theorems say of its loops holds of the fetcher's. *)
THEOREM FetcherImplementsBackendComm == Spec => BaseSpec
<1>1. Init => BaseInit
  BY DEF Init
<1>2. [Next]_vars => [BaseNext]_baseVars
  BY StepIsBaseStep
<1> QED
  BY <1>1, <1>2, PTL DEF Spec, BaseSpec

THEOREM ConfigTypes == Spec => []CCTypeOK
<1>1. ConfigInv => CCTypeOK
  BY DEF ConfigInv
<1> QED
  BY <1>1, ConfigInvariant, PTL

(* The snapshot in force is always what the configuration of the ETag that *)
(* the next request sends makes of the local one.                          *)
THEOREM SnapshotAndETagAgree == Spec => []SnapshotMatchesETag
<1>1. ConfigInv => SnapshotMatchesETag
  BY DEF ConfigInv
<1> QED
  BY <1>1, ConfigInvariant, PTL

(* A 304 is only ever received for a configuration that was applied. *)
THEOREM NotModifiedIsSafe == Spec => []NotModifiedMeansApplied
<1>1. ConfigInv => NotModifiedMeansApplied
  BY DEF ConfigInv, AnswerInv, SnapshotMatchesETag, NotModifiedMeansApplied, Exited
<1> QED
  BY <1>1, ConfigInvariant, PTL

(* The fetcher never uses a disposed HTTP client or cancellation source,   *)
(* whatever ended its loop.                                                *)
THEOREM NoUseAfterDispose == Spec => []LoopUsesLiveResources
<1>1. ConfigInv => LoopUsesLiveResources
  BY BaseInvImplies DEF ConfigInv, CCTypeOK, BaseTypeOK, ExitInv, LoopUsesLiveResources, ReleasedAfterLoop
<1> QED
  BY <1>1, ConfigInvariant, PTL

(* Were it not for HttpClient's own timeout and for a max-age that         *)
(* Task.Delay rejects, only Dispose would end the polling.                 *)
THEOREM PollingEndsOnDispose ==
    ASSUME "httpClient" \notin Timeouts, "tooLong" \notin Waits
    PROVE  Spec => []PollingSurvives
<1>1. ConfigInv => PollingSurvives
  <2> SUFFICES ASSUME ConfigInv, lpc \in Exited PROVE cancelled /\ HasStarted
    BY DEF PollingSurvives
  <2>1. cancelled /\ cancelTask # "none"
    BY DEF ConfigInv, ExitInv, Exited
  <2>2. PICK d \in Disposers : dpc[d] \in AfterWait \cup {"waitLoop"}
    BY <2>1 DEF ConfigInv, BaseInv, ProgressInv
  <2> QED
    BY <2>1, <2>2 DEF ConfigInv, BaseInv, BaseTypeOK, OwnerInv, AfterWait, BodySteps, HasStarted
<1> QED
  BY <1>1, ConfigInvariant, PTL
=============================================================================
