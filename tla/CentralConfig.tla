--------------------------- MODULE CentralConfig ---------------------------
(***************************************************************************)
(* CentralConfigFetcher with ConfigStore: one work loop polls the APM      *)
(* Server for the central configuration and replaces the snapshot that the *)
(* rest of the agent reads.  The server is asked with the ETag of what was *)
(* applied last, so what the agent has applied and the ETag it sends must  *)
(* never drift apart: a server that answers 304 is not asked to repeat.    *)
(*                                                                         *)
(* A configuration is an opaque value that stands for its ETag and body.   *)
(* Given says what the body holds for each option that can be changed;     *)
(* the value of an option is "local" (the initial snapshot's), "default"   *)
(* (what the parser falls back to) or the configuration it comes from.     *)
(***************************************************************************)
EXTENDS BackendComm

CONSTANTS
    Configs, NoConfig,
    Malformed,      \* those whose body is not a JSON object of strings
    Options,
    Given,          \* Given[c][o]: "absent", "valid" or "invalid"
    Waits,          \* max-age as sent: "normal", or "tooLong" for Task.Delay
    Timeouts        \* which ends a silent request: "agentTimer", "httpClient"

ASSUME CentralConfigConstants ==
    /\ NoConfig \notin Configs
    /\ Malformed \subseteq Configs
    /\ Given \in [Configs -> [Options -> {"absent", "valid", "invalid"}]]
    /\ Waits \subseteq {"normal", "tooLong"}
    /\ Timeouts \subseteq {"agentTimer", "httpClient"}

VARIABLES
    serverConfig,   \* what the APM Server has for this service
    lpc,            \* where the work loop is
    answer,         \* the response to the request being made
    waitInfo,
    eTag,           \* _eTag: the configuration it belongs to
    snapshot        \* ConfigStore.CurrentSnapshot, option by option

configVars == <<serverConfig, lpc, answer, waitInfo, eTag, snapshot>>
vars == <<baseVars, configVars>>

NoAnswer == [kind |-> "none", config |-> NoConfig, wait |-> "normal"]
Exited == {"cancelled", "failed"}
LoopPcs == {"request", "sent", "parse", "setETag", "wait", "delay"} \cup Exited

CCTypeOK ==
    /\ BaseTypeOK
    /\ serverConfig \in Configs
    /\ lpc \in LoopPcs
    /\ answer \in [kind: {"none", "ok", "notModified", "failed"},
                   config: Configs \cup {NoConfig}, wait: {"normal", "tooLong"}]
    /\ waitInfo \in {"normal", "tooLong"}
    /\ eTag \in Configs \cup {NoConfig}
    /\ snapshot \in [Options -> Configs \cup {"local", "default"}]

InitialSnapshot == [o \in Options |-> "local"]

Init ==
    /\ BaseInit
    /\ serverConfig \in Configs
    /\ lpc = "request"
    /\ answer = NoAnswer
    /\ waitInfo = "normal"
    /\ eTag = NoConfig
    /\ snapshot = InitialSnapshot

-----------------------------------------------------------------------------
(* CentralConfigReader: an option that is in the body is parsed, and a     *)
(* value the parser rejects becomes the built-in default, not the local    *)
(* value.                                                                  *)
ParsedOption(c, o) == IF Given[c][o] = "invalid" THEN "default" ELSE c

WrapCurrentSnapshot(c) ==        \* mutant: wraps what is in force
    [o \in Options |-> IF Given[c][o] = "absent" THEN snapshot[o] ELSE ParsedOption(c, o)]

(* WrappingConfigSnapshot over the snapshot the agent was started with. *)
WrappingConfigSnapshot(c) ==
    [o \in Options |-> IF Given[c][o] = "absent" THEN InitialSnapshot[o] ELSE ParsedOption(c, o)]

LoopGoes(from, to) == lpc = from /\ lpc' = to

(* Somebody edits the agent configuration in Kibana. *)
ChangeServerConfig(c) ==
    /\ c # serverConfig
    /\ serverConfig' = c
    /\ UNCHANGED <<baseVars, lpc, answer, waitInfo, eTag, snapshot>>

SendRequest ==
    /\ LoopGoes("request", IF cancelled THEN "cancelled" ELSE "sent")
    /\ answer' = NoAnswer
    /\ UNCHANGED <<baseVars, serverConfig, waitInfo, eTag, snapshot>>

(* If-None-Match: 304 for the configuration the agent already has. *)
ServerAnswers ==
    /\ lpc = "sent" /\ answer = NoAnswer
    /\ \E w \in Waits :
           answer' = [kind |-> IF serverConfig = eTag THEN "notModified" ELSE "ok",
                      config |-> IF serverConfig = eTag THEN NoConfig ELSE serverConfig,
                      wait |-> w]
    /\ UNCHANGED <<baseVars, serverConfig, lpc, waitInfo, eTag, snapshot>>

(* An error status, a 200 without ETag, a failed connection. *)
RequestFails ==
    /\ lpc = "sent" /\ answer = NoAnswer
    /\ \E w \in Waits : answer' = [NoAnswer EXCEPT !.kind = "failed", !.wait = w]
    /\ UNCHANGED <<baseVars, serverConfig, lpc, waitInfo, eTag, snapshot>>

AwaitResponse ==
    /\ answer # NoAnswer
    /\ LoopGoes("sent", "parse")
    /\ waitInfo' = answer.wait
    /\ UNCHANGED <<baseVars, serverConfig, answer, eTag, snapshot>>

(* AwaitOrTimeout: TimeoutException, which is an error to be waited out;   *)
(* an answer that comes at the same time is dropped.                       *)
RequestTimesOut ==
    /\ "agentTimer" \in Timeouts
    /\ LoopGoes("sent", "wait")
    /\ answer' = NoAnswer
    /\ waitInfo' = "normal"
    /\ UNCHANGED <<baseVars, serverConfig, eTag, snapshot>>

(* HttpClient.Timeout shows as a TaskCanceledException, and an             *)
(* OperationCanceledException is rethrown out of the loop.                 *)
HttpClientTimesOut ==
    /\ "httpClient" \in Timeouts
    /\ answer = NoAnswer
    /\ LoopGoes("sent", "cancelled")
    /\ UNCHANGED <<baseVars, serverConfig, answer, waitInfo, eTag, snapshot>>

RequestWithoutToken == FALSE     \* mutant: the token is not passed on
RequestCancelled ==
    /\ cancelled
    /\ LoopGoes("sent", "cancelled")
    /\ UNCHANGED <<baseVars, serverConfig, answer, waitInfo, eTag, snapshot>>

Parsed == answer.kind = "ok" /\ answer.config \notin Malformed

UpdateConfigStoreOnce ==         \* mutant: only the first configuration is applied
    /\ Parsed
    /\ LoopGoes("parse", "setETag")
    /\ snapshot' = IF eTag = NoConfig THEN WrappingConfigSnapshot(answer.config) ELSE snapshot
    /\ UNCHANGED <<baseVars, serverConfig, answer, waitInfo, eTag>>

UpdateConfigStore ==
    /\ Parsed
    /\ LoopGoes("parse", "setETag")
    /\ snapshot' = WrappingConfigSnapshot(answer.config)
    /\ UNCHANGED <<baseVars, serverConfig, answer, waitInfo, eTag>>

SetETag ==
    /\ LoopGoes("setETag", "wait")
    /\ eTag' = answer.config
    /\ UNCHANGED <<baseVars, serverConfig, answer, waitInfo, snapshot>>

KeepETagOnError ==               \* mutant: takes the ETag of a body it could not parse
    /\ ~Parsed
    /\ LoopGoes("parse", "wait")
    /\ eTag' = IF answer.kind = "ok" THEN answer.config ELSE eTag
    /\ UNCHANGED <<baseVars, serverConfig, answer, waitInfo, snapshot>>

NothingToUpdate ==      \* 304, or FailedToFetchConfigException
    /\ ~Parsed
    /\ LoopGoes("parse", "wait")
    /\ UNCHANGED <<baseVars, serverConfig, answer, waitInfo, eTag, snapshot>>

(* Outside the try block, so whatever Delay throws ends the loop: the      *)
(* cancellation, or the ArgumentOutOfRangeException of Task.Delay.         *)
BeginDelay ==
    /\ LoopGoes("wait", IF cancelled THEN "cancelled"
                        ELSE IF waitInfo = "tooLong" THEN "failed" ELSE "delay")
    /\ UNCHANGED <<baseVars, serverConfig, answer, waitInfo, eTag, snapshot>>

DelayElapses ==
    /\ LoopGoes("delay", "request")
    /\ UNCHANGED <<baseVars, serverConfig, answer, waitInfo, eTag, snapshot>>

DelayCancelled ==
    /\ cancelled
    /\ LoopGoes("delay", "cancelled")
    /\ UNCHANGED <<baseVars, serverConfig, answer, waitInfo, eTag, snapshot>>

SignalCompleted ==
    /\ lpc \in Exited
    /\ CompleteLoop(lpc)
    /\ UNCHANGED <<disposeVars, cancelled, configVars>>

LoopStep ==
    \/ SendRequest \/ AwaitResponse \/ RequestCancelled
    \/ UpdateConfigStore \/ SetETag \/ NothingToUpdate
    \/ BeginDelay \/ DelayCancelled

-----------------------------------------------------------------------------
DisposeSteps ==
    /\ \/ \E d \in Disposers : DisposeStep(d) /\ UNCHANGED <<loopVars, cancelled>>
       \/ RunCancel /\ UNCHANGED loopVars
       \/ ThreadExit /\ UNCHANGED <<loopVars, cancelled>>
    /\ UNCHANGED configVars

Next ==
    \/ \E c \in Configs : ChangeServerConfig(c)
    \/ ServerAnswers \/ RequestFails \/ RequestTimesOut \/ HttpClientTimesOut
    \/ LoopStep \/ DelayElapses \/ SignalCompleted
    \/ DisposeSteps

Spec == Init /\ [][Next]_vars

(* Only what the process does by itself: no answer, timer or change of the *)
(* configuration has to come.                                              *)
ProcessFairness ==
    /\ WF_vars(LoopStep) /\ WF_vars(SignalCompleted)
    /\ \A d \in Disposers : WF_vars(dpc[d] # "idle" /\ DisposeStep(d) /\ UNCHANGED <<loopVars, cancelled, configVars>>)
    /\ WF_vars(RunCancel /\ UNCHANGED <<loopVars, configVars>>)
    /\ WF_vars(ThreadExit /\ UNCHANGED <<loopVars, cancelled, configVars>>)

ProcessSpec == Spec /\ ProcessFairness

(* A server that is reachable again and again: however often a request     *)
(* fails or is timed out, another one is answered and the answer is read.  *)
ServerFairness ==
    /\ SF_vars(ServerAnswers)
    /\ SF_vars(answer.kind # "failed" /\ AwaitResponse)
    /\ WF_vars(DelayElapses)

-----------------------------------------------------------------------------
(* What a configuration means: the options it does not mention are local. *)
Applied(c) ==
    [o \in Options |-> IF c = NoConfig \/ Given[c][o] = "absent" THEN "local"
                       ELSE IF Given[c][o] = "valid" THEN c ELSE "default"]

(* The snapshot is what the configuration of _eTag makes of the local one: *)
(* an option that was removed centrally is local again.  Only between the  *)
(* two assignments of WorkLoopIteration is the snapshot one step ahead.    *)
SnapshotMatchesETag ==
    snapshot = Applied(IF lpc = "setETag" THEN answer.config ELSE eTag)

(* The agent never sends the ETag of a configuration it could not apply,   *)
(* so a 304 always means that what is in force is what the server has      *)
(* (or had, when it answered).                                             *)
NotModifiedMeansApplied ==
    /\ eTag \notin Malformed
    /\ answer.kind = "notModified" => eTag # NoConfig /\ snapshot = Applied(eTag)

(* While the loop is in an iteration, the HTTP client and the cancellation *)
(* source it uses have not been disposed.                                  *)
LoopUsesLiveResources ==
    lpc \notin Exited \/ loop = "running" => ~httpDisposed /\ ~ctsDisposed

(* "is about to exit because it was cancelled, which is expected on        *)
(* shutdown": polling ends because of Dispose, errors are waited out.      *)
PollingSurvives == lpc \in Exited => cancelled /\ HasStarted

(* A configuration that stays on the server is in force in the end, if it  *)
(* can be parsed, whatever requests fail or time out before, unless the    *)
(* agent is shut down or polling has ended for good (PollingSurvives).     *)
ConfigConverges ==
    ServerFairness =>
       \A c \in Configs \ Malformed :
          serverConfig = c ~> serverConfig # c \/ snapshot = Applied(c) \/ HasStarted \/ lpc \in Exited
=============================================================================
