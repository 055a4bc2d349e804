---------------------------- MODULE BackendComm ----------------------------
(***************************************************************************)
(* BackendCommComponentBase: the life cycle shared by the two components   *)
(* that talk to the APM Server (PayloadSenderV2, CentralConfigFetcher).    *)
(* The constructor starts one work loop on a SingleThreadTaskScheduler;    *)
(* Dispose, callable from any thread, has the loop cancelled, waits for    *)
(* it, and only then releases what the loop was using.                     *)
(*                                                                         *)
(* Here the loop body (the abstract method WorkLoopIteration) is opaque:   *)
(* it may end because it was cancelled or because it threw.  The modules   *)
(* of the derived classes give the loop its real steps and are shown to    *)
(* refine BaseSpec.  A disabled component has no state and is left out.    *)
(***************************************************************************)
EXTENDS Naturals, FiniteSets

CONSTANT Disposers      \* the calls of Dispose that are ever made

VARIABLES
    disposeState,       \* DisposableHelper._state: "before", "during", "after"
    dpc,                \* where each call of Dispose is
    cancelTask,         \* Task.Run(() => CtsInstance.Cancel()) on the thread pool
    cancelled,          \* CtsInstance.IsCancellationRequested
    loop,               \* "running" until _loopCompleted.Set()
    exitReason,         \* which catch of DoSwallowingExceptions the loop left by
    addingCompleted,    \* _taskQueue.CompleteAdding() was called
    threadAlive,        \* _thread.IsAlive
    httpDisposed,       \* HttpClientInstance.Dispose() was called
    ctsDisposed         \* CtsInstance.Dispose() was called

disposeVars == <<disposeState, dpc, cancelTask, addingCompleted, threadAlive,
                 httpDisposed, ctsDisposed>>
loopVars == <<loop, exitReason>>
baseVars == <<disposeVars, loopVars, cancelled>>

(* The body of the action handed to DoOnce, in program order. *)
BodySteps == {"postCancel", "waitLoop", "completeAdding", "join",
              "disposeHttp", "disposeCts", "finish"}
DisposePcs == BodySteps \cup {"idle", "returned", "skipped"}

BaseTypeOK ==
    /\ disposeState \in {"before", "during", "after"}
    /\ dpc \in [Disposers -> DisposePcs]
    /\ cancelTask \in {"none", "queued", "done", "faulted"}
    /\ loop \in {"running", "completed"}
    /\ exitReason \in {"none", "cancelled", "failed"}
    /\ cancelled \in BOOLEAN /\ addingCompleted \in BOOLEAN /\ threadAlive \in BOOLEAN
    /\ httpDisposed \in BOOLEAN /\ ctsDisposed \in BOOLEAN

(* The constructor has returned: StartWorkLoop waited for _loopStarted. *)
BaseInit ==
    /\ disposeState = "before"
    /\ dpc = [d \in Disposers |-> "idle"]
    /\ cancelTask = "none"
    /\ cancelled = FALSE
    /\ loop = "running"
    /\ exitReason = "none"
    /\ addingCompleted = FALSE
    /\ threadAlive = TRUE
    /\ httpDisposed = FALSE
    /\ ctsDisposed = FALSE

-----------------------------------------------------------------------------
(* DisposableHelper.DoOnce: only the call that moves the state from        *)
(* "before" to "during" runs the body; any other returns at once, even     *)
(* while the body is still running.                                        *)
Moves(d, from, to) == dpc[d] = from /\ dpc' = [dpc EXCEPT ![d] = to]

HasStarted == disposeState # "before"

BeginDisposeNotAtomic(d) ==      \* mutant: the state is tested, not exchanged
    /\ disposeState # "after"
    /\ Moves(d, "idle", "postCancel")
    /\ disposeState' = "during"
    /\ UNCHANGED <<cancelTask, addingCompleted, threadAlive, httpDisposed, ctsDisposed>>

BeginDispose(d) ==
    /\ disposeState = "before"
    /\ Moves(d, "idle", "postCancel")
    /\ disposeState' = "during"
    /\ UNCHANGED <<cancelTask, addingCompleted, threadAlive, httpDisposed, ctsDisposed>>

SkipDispose(d) ==
    /\ disposeState # "before"
    /\ Moves(d, "idle", "skipped")
    /\ UNCHANGED <<disposeState, cancelTask, addingCompleted, threadAlive, httpDisposed, ctsDisposed>>

PostCancel(d) ==
    /\ Moves(d, "postCancel", "waitLoop")
    /\ cancelTask' = "queued"
    /\ UNCHANGED <<disposeState, addingCompleted, threadAlive, httpDisposed, ctsDisposed>>

WaitLoopNot(d) ==                \* mutant: goes on without waiting for the loop
    /\ Moves(d, "waitLoop", "completeAdding")
    /\ UNCHANGED <<disposeState, cancelTask, addingCompleted, threadAlive, httpDisposed, ctsDisposed>>

WaitLoop(d) ==          \* _loopCompleted.Wait()
    /\ loop = "completed"
    /\ Moves(d, "waitLoop", "completeAdding")
    /\ UNCHANGED <<disposeState, cancelTask, addingCompleted, threadAlive, httpDisposed, ctsDisposed>>

(* SingleThreadTaskScheduler.Dispose is called from here only, so its own  *)
(* DoOnce always runs the body: CompleteAdding, then Join.                 *)
CompleteAdding(d) ==
    /\ Moves(d, "completeAdding", "join")
    /\ addingCompleted' = TRUE
    /\ UNCHANGED <<disposeState, cancelTask, threadAlive, httpDisposed, ctsDisposed>>

JoinThenFinish(d) ==             \* mutant: forgets what comes after the thread
    /\ ~threadAlive
    /\ Moves(d, "join", "finish")
    /\ UNCHANGED <<disposeState, cancelTask, addingCompleted, threadAlive, httpDisposed, ctsDisposed>>

Join(d) ==
    /\ ~threadAlive
    /\ Moves(d, "join", "disposeHttp")
    /\ UNCHANGED <<disposeState, cancelTask, addingCompleted, threadAlive, httpDisposed, ctsDisposed>>

DisposeHttpClient(d) ==
    /\ Moves(d, "disposeHttp", "disposeCts")
    /\ httpDisposed' = TRUE
    /\ UNCHANGED <<disposeState, cancelTask, addingCompleted, threadAlive, ctsDisposed>>

DisposeCts(d) ==
    /\ Moves(d, "disposeCts", "finish")
    /\ ctsDisposed' = TRUE
    /\ UNCHANGED <<disposeState, cancelTask, addingCompleted, threadAlive, httpDisposed>>

FinishDispose(d) ==
    /\ Moves(d, "finish", "returned")
    /\ disposeState' = "after"
    /\ UNCHANGED <<cancelTask, addingCompleted, threadAlive, httpDisposed, ctsDisposed>>

DisposeStep(d) ==
    \/ BeginDispose(d) \/ SkipDispose(d) \/ PostCancel(d) \/ WaitLoop(d)
    \/ CompleteAdding(d) \/ Join(d) \/ DisposeHttpClient(d) \/ DisposeCts(d)
    \/ FinishDispose(d)

-----------------------------------------------------------------------------
(* The queued task runs whenever the pool gets to it; on a disposed source *)
(* Cancel throws and the exception stays in the unobserved task.           *)
RunCancel ==
    /\ cancelTask = "queued"
    /\ cancelTask' = IF ctsDisposed THEN "faulted" ELSE "done"
    /\ cancelled' = (cancelled \/ ~ctsDisposed)
    /\ UNCHANGED <<disposeState, dpc, addingCompleted, threadAlive, httpDisposed, ctsDisposed>>

(* DoSwallowingExceptions returns and WorkLoop sets _loopCompleted. *)
CompleteLoop(reason) ==
    /\ loop = "running"
    /\ loop' = "completed"
    /\ exitReason' = reason

(* GetConsumingEnumerable ends: the thread function returns. *)
ThreadExit ==
    /\ threadAlive
    /\ addingCompleted
    /\ threadAlive' = FALSE
    /\ UNCHANGED <<disposeState, dpc, cancelTask, addingCompleted, httpDisposed, ctsDisposed>>

(* An OperationCanceledException or any other one leaves the loop; the     *)
(* base class does not ask whether it is its own token that was cancelled. *)
LoopExits == CompleteLoop("cancelled") \/ CompleteLoop("failed")

BaseNext ==
    \/ \E d \in Disposers : DisposeStep(d) /\ UNCHANGED <<loopVars, cancelled>>
    \/ RunCancel /\ UNCHANGED loopVars
    \/ LoopExits /\ UNCHANGED <<disposeVars, cancelled>>
    \/ ThreadExit /\ UNCHANGED <<loopVars, cancelled>>

BaseSpec == BaseInit /\ [][BaseNext]_baseVars

(* Threads and the thread pool keep running what is ready to run.  Nobody  *)
(* has to call Dispose, and only a cancelled loop has to end.              *)
BaseFairness ==
    /\ \A d \in Disposers :
           WF_baseVars(dpc[d] # "idle" /\ DisposeStep(d) /\ UNCHANGED <<loopVars, cancelled>>)
    /\ WF_baseVars(RunCancel /\ UNCHANGED loopVars)
    /\ WF_baseVars(ThreadExit /\ UNCHANGED <<loopVars, cancelled>>)
    /\ WF_baseVars(cancelled /\ LoopExits /\ UNCHANGED <<disposeVars, cancelled>>)

FairBaseSpec == BaseSpec /\ BaseFairness

-----------------------------------------------------------------------------
InBody(d) == dpc[d] \in BodySteps

(* DoOnce: at most one call ever runs the disposing code, and the state    *)
(* says so: a call is inside exactly while the state is "during".          *)
SingleDisposer ==
    /\ \A c, d \in Disposers : InBody(c) /\ InBody(d) => c = d
    /\ disposeState = "during" <=> \E d \in Disposers : InBody(d)
    /\ \A c, d \in Disposers : dpc[c] = "returned" /\ dpc[d] \in BodySteps \cup {"returned"} => c = d

(* The order of Dispose's body: the HTTP client and the cancellation       *)
(* source are released only when neither the loop nor its thread can use   *)
(* them any more.                                                          *)
ReleasedAfterLoop ==
    httpDisposed \/ ctsDisposed => loop = "completed" /\ ~threadAlive

(* When the disposing call has returned, all of it has been released.      *)
FullyReleased ==
    disposeState = "after" =>
        /\ loop = "completed" /\ ~threadAlive
        /\ httpDisposed /\ ctsDisposed
        /\ cancelTask # "none"

(* Every call of Dispose that has begun returns: no deadlock between the   *)
(* call, the pool task it posts and the loop it waits for.                 *)
DisposeReturns ==
    \A d \in Disposers : InBody(d) ~> dpc[d] = "returned"
=============================================================================
