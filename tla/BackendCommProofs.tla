------------------------- MODULE BackendCommProofs -------------------------
(***************************************************************************)
(* Proofs about the life cycle of BackendComm, for any set of Dispose      *)
(* calls.  The properties are not inductive: each resource's state must be *)
(* tied to how far the disposing call has come, which BaseInv does.        *)
(***************************************************************************)
EXTENDS BackendComm, TLAPS

AfterWait == {"completeAdding", "join", "disposeHttp", "disposeCts", "finish", "returned"}
AfterJoin == AfterWait \ {"completeAdding", "join"}
AfterHttp == {"disposeCts", "finish", "returned"}
AfterCts  == {"finish", "returned"}

(* Who disposes, and how far the state of the helper agrees with it. *)
OwnerInv ==
    /\ \A c, d \in Disposers : dpc[c] \in BodySteps \cup {"returned"}
                                 /\ dpc[d] \in BodySteps \cup {"returned"} => c = d
    /\ disposeState = "during" <=> \E d \in Disposers : dpc[d] \in BodySteps
    /\ disposeState = "after" <=> \E d \in Disposers : dpc[d] = "returned"

(* What has been done when the disposing call is at a given step. *)
ProgressInv ==
    /\ \A d \in Disposers :
          /\ dpc[d] \in AfterWait => loop = "completed"
          /\ dpc[d] \in AfterJoin => ~threadAlive
          /\ dpc[d] \in AfterHttp => httpDisposed
          /\ dpc[d] \in AfterCts => ctsDisposed
          /\ dpc[d] \in AfterWait \cup {"waitLoop"} => cancelTask # "none"
    /\ cancelTask # "none" => \E d \in Disposers : dpc[d] \in AfterWait \cup {"waitLoop"}
    /\ addingCompleted => loop = "completed"
    /\ ~threadAlive => addingCompleted
    /\ httpDisposed => \E d \in Disposers : dpc[d] \in AfterHttp
    /\ ctsDisposed => \E d \in Disposers : dpc[d] \in AfterCts

BaseInv == BaseTypeOK /\ OwnerInv /\ ProgressInv

LEMMA BaseInitial == BaseInit => BaseInv
BY DEF BaseInit, BaseInv, BaseTypeOK, OwnerInv, ProgressInv, AfterWait, AfterJoin, AfterHttp,
       AfterCts, BodySteps, DisposePcs

(* Each step of a Dispose call keeps the invariant. *)
LEMMA DisposeStepKeeps ==
    ASSUME BaseInv, NEW d \in Disposers, DisposeStep(d), UNCHANGED <<loopVars, cancelled>>
    PROVE  BaseInv'
<1> USE DEF BaseInv, BaseTypeOK, OwnerInv, ProgressInv, AfterWait, AfterJoin, AfterHttp, AfterCts,
            BodySteps, DisposePcs, Moves, loopVars
<1>1. CASE BeginDispose(d)
  BY <1>1 DEF BeginDispose
<1>2. CASE SkipDispose(d)
  BY <1>2 DEF SkipDispose
<1>3. CASE PostCancel(d)
  BY <1>3 DEF PostCancel
<1>4. CASE WaitLoop(d)
  BY <1>4 DEF WaitLoop
<1>5. CASE CompleteAdding(d)
  BY <1>5 DEF CompleteAdding
<1>6. CASE Join(d)
  BY <1>6 DEF Join
<1>7. CASE DisposeHttpClient(d)
  BY <1>7 DEF DisposeHttpClient
<1>8. CASE DisposeCts(d)
  BY <1>8 DEF DisposeCts
<1>9. CASE FinishDispose(d)
  BY <1>9 DEF FinishDispose
<1> QED
  BY <1>1, <1>2, <1>3, <1>4, <1>5, <1>6, <1>7, <1>8, <1>9 DEF DisposeStep

LEMMA BaseStepKeeps == BaseInv /\ [BaseNext]_baseVars => BaseInv'
<1> SUFFICES ASSUME BaseInv, [BaseNext]_baseVars PROVE BaseInv'
  OBVIOUS
<1>1. ASSUME NEW d \in Disposers, DisposeStep(d), UNCHANGED <<loopVars, cancelled>>
      PROVE  BaseInv'
  BY <1>1, DisposeStepKeeps
<1>2. CASE RunCancel /\ UNCHANGED loopVars
  BY <1>2 DEF RunCancel, BaseInv, BaseTypeOK, OwnerInv, ProgressInv, loopVars
<1>3. CASE LoopExits /\ UNCHANGED <<disposeVars, cancelled>>
  BY <1>3 DEF LoopExits, CompleteLoop, BaseInv, BaseTypeOK, OwnerInv, ProgressInv, disposeVars
<1>4. CASE ThreadExit /\ UNCHANGED <<loopVars, cancelled>>
  BY <1>4 DEF ThreadExit, BaseInv, BaseTypeOK, OwnerInv, ProgressInv, loopVars
<1>5. CASE UNCHANGED baseVars
  BY <1>5 DEF BaseInv, BaseTypeOK, OwnerInv, ProgressInv, baseVars, disposeVars, loopVars
<1> QED
  BY <1>1, <1>2, <1>3, <1>4, <1>5 DEF BaseNext

LEMMA BaseInvImplies == BaseInv => SingleDisposer /\ ReleasedAfterLoop /\ FullyReleased
BY DEF BaseInv, BaseTypeOK, OwnerInv, ProgressInv, SingleDisposer, ReleasedAfterLoop, FullyReleased,
       InBody, AfterWait, AfterJoin, AfterHttp, AfterCts, BodySteps, DisposePcs

LEMMA BaseInvariant == BaseSpec => []BaseInv
<1>1. BaseInit => BaseInv
  BY BaseInitial
<1>2. BaseInv /\ [BaseNext]_baseVars => BaseInv'
  BY BaseStepKeeps
<1> QED
  BY <1>1, <1>2, PTL DEF BaseSpec

(* DisposableHelper.DoOnce lets one call through, however many threads     *)
(* call Dispose at the same time.                                          *)
THEOREM OneDisposer == BaseSpec => []SingleDisposer
BY BaseInvariant, BaseInvImplies, PTL

(* Dispose releases the HTTP client and the cancellation source only when  *)
(* the work loop and its thread have ended.                                *)
THEOREM ReleaseFollowsLoop == BaseSpec => []ReleasedAfterLoop
BY BaseInvariant, BaseInvImplies, PTL

(* When the state is AfterDispose nothing is left to release. *)
THEOREM ReleaseIsComplete == BaseSpec => []FullyReleased
BY BaseInvariant, BaseInvImplies, PTL


-----------------------------------------------------------------------------
(* Why Dispose returns (DisposeReturns, without the fairness).             *)

(* Whatever a call of Dispose waits for has been told to end: the loop is  *)
(* cancelled or a task of the pool is about to do it, on a source that     *)
(* still takes it, and the thread has been told that nothing more comes.   *)
DisposeWaitsForTheTold ==
    \A d \in Disposers :
       /\ dpc[d] = "waitLoop" =>
             loop = "completed" \/ cancelled \/ (cancelTask = "queued" /\ ~ctsDisposed)
       /\ dpc[d] = "join" => addingCompleted

(* The cancel task fails only on a source that is disposed, which nobody   *)
(* waits for any more.                                                     *)
CancelInv ==
    /\ cancelTask = "done" => cancelled
    /\ cancelTask = "faulted" => ctsDisposed
    /\ \A d \in Disposers : dpc[d] = "join" => addingCompleted

LEMMA CancelInvariant == BaseSpec => []CancelInv
<1>1. BaseInit => CancelInv
  BY DEF BaseInit, CancelInv
<1>2. BaseInv /\ CancelInv /\ [BaseNext]_baseVars => CancelInv'
  <2> SUFFICES ASSUME BaseInv, CancelInv, [BaseNext]_baseVars PROVE CancelInv'
    OBVIOUS
  <2> USE DEF BaseInv, BaseTypeOK, CancelInv
  <2>1. ASSUME NEW d \in Disposers, DisposeStep(d), UNCHANGED <<loopVars, cancelled>>
        PROVE  CancelInv'
    BY <2>1 DEF DisposeStep, Moves, loopVars, BeginDispose, SkipDispose, PostCancel, WaitLoop, CompleteAdding,
       Join, DisposeHttpClient, DisposeCts, FinishDispose
  <2>2. CASE RunCancel /\ UNCHANGED loopVars
    BY <2>2 DEF RunCancel
  <2>3. CASE LoopExits /\ UNCHANGED <<disposeVars, cancelled>>
    BY <2>3 DEF disposeVars
  <2>4. CASE ThreadExit /\ UNCHANGED <<loopVars, cancelled>>
    BY <2>4 DEF ThreadExit
  <2>5. CASE UNCHANGED baseVars
    BY <2>5 DEF baseVars, disposeVars
  <2> QED
    BY <2>1, <2>2, <2>3, <2>4, <2>5 DEF BaseNext
<1> QED
  BY <1>1, <1>2, BaseInvariant, PTL DEF BaseSpec

(* The body of Dispose never waits for a loop that nobody will cancel, nor *)
(* for a thread that waits for more work.                                  *)
THEOREM DisposeNeverHangs == BaseSpec => []DisposeWaitsForTheTold
<1>1. BaseInv /\ CancelInv => DisposeWaitsForTheTold
  <2> SUFFICES ASSUME BaseInv, CancelInv, NEW d \in Disposers, dpc[d] = "waitLoop", ~cancelled
               PROVE  cancelTask = "queued" /\ ~ctsDisposed
    BY DEF DisposeWaitsForTheTold, CancelInv
  <2>1. ~ctsDisposed
    BY DEF BaseInv, OwnerInv, ProgressInv, AfterCts, BodySteps
  <2>2. cancelTask \in {"queued", "done", "faulted"}
    BY DEF BaseInv, BaseTypeOK, ProgressInv
  <2> QED
    BY <2>1, <2>2 DEF CancelInv
<1> QED
  BY <1>1, BaseInvariant, CancelInvariant, PTL
=============================================================================
