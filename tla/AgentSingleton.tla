-------------------------- MODULE AgentSingleton --------------------------
(***************************************************************************)
(* The static class Agent, the AgentComponents it is made of, and those    *)
(* who set it up: the application itself, a startup hook, UseElasticApm of *)
(* an IApplicationBuilder and of an IHostBuilder, and ElasticApmModule,    *)
(* which IIS initialises once per HttpApplication.  Each thread does one   *)
(* job:                                                                    *)
(*   use      any member of Agent but IsConfigured and Setup               *)
(*   setup    Agent.Setup(new AgentComponents(...))                        *)
(*   builder  UseElasticApm of an IApplicationBuilder                      *)
(*   host     the IApmAgent service of an IHostBuilder                     *)
(*   module   ElasticApmModule.Init                                        *)
(* AgentComponents are named after the thread that makes them; those that  *)
(* the Lazy's factory makes from the environment are Default.              *)
(***************************************************************************)
EXTENDS Integers, FiniteSets

CONSTANTS Threads, Jobs, Default, None

JobNames == {"use", "setup", "builder", "host", "module"}

ASSUME AgentConstants ==
    /\ Jobs \subseteq JobNames /\ None \notin JobNames
    /\ Default \notin Threads /\ None \notin Threads \cup {Default}

Owners == Threads \cup {Default}

VARIABLES
    enabled,            \* the option Enabled, as each kind of reader finds it
    job, pc,
    given,              \* the argument of Setup, while a thread is about to call it or in it
    components,         \* Agent.Components
    isConfigured,
    factory,            \* of LazyApmAgent: the thread that runs it and what it has read
    instance,           \* the components of Agent.Instance
    lazyFailed,         \* the factory threw, and LazyApmAgent keeps the exception
    running,            \* enabled AgentComponents, made and not disposed: they have threads
    halfMade,           \* enabled ones whose constructor threw after it had started the sender
    initLock, isInited, \* of InitOnceHelper
    subscribed,         \* successful Subscribes of the modules
    hooked              \* modules that handle BeginRequest and EndRequest

setupVars == <<components, isConfigured>>
lazyVars == <<factory, instance, lazyFailed>>
moduleVars == <<initLock, isInited, subscribed, hooked>>
madeVars == <<running, halfMade>>
agentVars == <<enabled, job, pc, given, setupVars, lazyVars, madeVars, moduleVars>>

Sources == {"environment", "application", "webConfig"}
Source(t) == CASE job[t] = "module" -> "webConfig" [] OTHER -> "application"
Enabled(c) == IF c = Default THEN enabled["environment"] ELSE enabled[Source(c)]

NoFactory == [by |-> None, read |-> None]

AgentTypeOK ==
    /\ enabled \in [Sources -> BOOLEAN]
    /\ job \in [Threads -> Jobs \cup {None}]
    /\ pc \in [Threads -> {"idle", "build", "resolve", "check", "assign", "publish", "get", "fast",
                           "init", "subscribe", "hook", "done", "threw"}]
    /\ given \in [Threads -> Owners \cup {None}]
    /\ components \in Owners \cup {None} /\ isConfigured \in BOOLEAN
    /\ factory \in [by : Threads \cup {None}, read : Owners \cup {None}]
    /\ instance \in Owners \cup {None} /\ lazyFailed \in BOOLEAN
    /\ running \in SUBSET Owners /\ halfMade \in SUBSET Owners
    /\ initLock \in Threads \cup {None} /\ isInited \in BOOLEAN
    /\ subscribed \in Nat /\ hooked \in SUBSET Threads

AgentInit ==
    /\ enabled \in [Sources -> BOOLEAN]
    /\ job = [t \in Threads |-> None] /\ pc = [t \in Threads |-> "idle"]
    /\ given = [t \in Threads |-> None]
    /\ components = None /\ isConfigured = FALSE
    /\ factory = NoFactory /\ instance = None /\ lazyFailed = FALSE
    /\ running = {} /\ halfMade = {}
    /\ initLock = None /\ isInited = FALSE /\ subscribed = 0 /\ hooked = {}

Goes(t, from, to) == pc[t] = from /\ pc' = [pc EXCEPT ![t] = to]

-----------------------------------------------------------------------------
Begin(t, j) ==
    /\ job' = [job EXCEPT ![t] = j]
    /\ Goes(t, "idle", CASE j = "use" -> "get"
                         [] j = "module" -> "fast"
                         [] j = "host" -> IF isConfigured THEN "get" ELSE "resolve"
                         [] OTHER -> "build")
    /\ UNCHANGED <<enabled, given, setupVars, lazyVars, madeVars, moduleVars>>

KeepLock(t) == initLock                 \* mutant: the lock is lost with an exception

(* EnsureInitialized gives its lock back to whatever throws inside. *)
ReleaseInit(t) == IF initLock = t THEN None ELSE initLock

Throws(t) == pc' = [pc EXCEPT ![t] = "threw"] /\ initLock' = ReleaseInit(t)

(* The constructor has no try: what throws after the sender was started    *)
(* leaves it to nobody.                                                    *)
HalfMakes(c) ==
    \/ UNCHANGED halfMade
    \/ Enabled(c) /\ halfMade' = halfMade \cup {c}

(* new AgentComponents(...): sender, fetcher and metrics start if enabled. *)
(* UseElasticApm does not get that far with a reader that says not to, and *)
(* ElasticApmModule does not call Setup.                                   *)
Build(t) ==
    /\ Goes(t, "build", CASE job[t] = "builder" /\ ~Enabled(t) -> "done"
                          [] job[t] = "module" /\ ~Enabled(t) -> "get"
                          [] OTHER -> "check")
    /\ given' = IF pc'[t] = "check" THEN [given EXCEPT ![t] = t] ELSE given
    /\ running' = IF Enabled(t) THEN running \cup {t} ELSE running
    /\ UNCHANGED <<enabled, job, setupVars, lazyVars, halfMade, moduleVars>>

(* The configuration, the constructor or what follows it throws. *)
BuildFails(t) ==
    /\ pc[t] = "build" /\ Throws(t) /\ HalfMakes(t)
    /\ UNCHANGED <<enabled, job, given, setupVars, lazyVars, running, isInited, subscribed, hooked>>

(* The AgentComponents service of the host looks at IsConfigured again. *)
Resolve(t) ==
    /\ Goes(t, "resolve", IF isConfigured THEN "check" ELSE "build")
    /\ given' = IF isConfigured THEN [given EXCEPT ![t] = components] ELSE given
    /\ UNCHANGED <<enabled, job, setupVars, lazyVars, madeVars, moduleVars>>

-----------------------------------------------------------------------------
(* Agent.Setup. *)
AfterSetup(t) == IF job[t] \in {"builder", "module"} THEN "get" ELSE "done"

KeepComponents(t) == running            \* mutant: nobody disposes what could not be set up

(* SafeAgentSetup catches InstanceAlreadyCreatedException. *)
DisposeRejected(t) == IF job[t] = "module" THEN running \ {given[t]} ELSE running

CheckNotCreated(t) ==
    /\ instance = None
    /\ Goes(t, "check", "assign")
    /\ UNCHANGED <<enabled, job, given, setupVars, lazyVars, madeVars, moduleVars>>

AlreadyCreated(t) ==
    /\ instance # None
    /\ Goes(t, "check", IF job[t] = "module" THEN "get" ELSE "threw")
    /\ running' = DisposeRejected(t)
    /\ given' = [given EXCEPT ![t] = None]
    /\ UNCHANGED <<enabled, job, setupVars, lazyVars, halfMade, moduleVars>>

PublishFirst(t) ==                      \* mutant: _isConfigured = true before Components
    /\ Goes(t, "assign", "publish")
    /\ isConfigured' = TRUE
    /\ UNCHANGED <<enabled, job, given, components, lazyVars, madeVars, moduleVars>>

AssignComponents(t) ==
    /\ Goes(t, "assign", "publish")
    /\ components' = given[t]
    /\ UNCHANGED <<enabled, job, given, isConfigured, lazyVars, madeVars, moduleVars>>

SetConfigured(t) ==
    /\ Goes(t, "publish", AfterSetup(t))
    /\ isConfigured' = TRUE
    /\ given' = [given EXCEPT ![t] = None]
    /\ UNCHANGED <<enabled, job, components, lazyVars, madeVars, moduleVars>>

-----------------------------------------------------------------------------
(* Agent.Instance: the Lazy runs its factory once, under a lock. *)
EnterFactory(t) ==
    /\ pc[t] = "get" /\ instance = None /\ ~lazyFailed /\ factory = NoFactory
    /\ factory' = [by |-> t, read |-> components]
    /\ UNCHANGED <<enabled, job, pc, given, setupVars, instance, lazyFailed, madeVars, moduleVars>>

(* new ApmAgent(Components), with new AgentComponents() for null. *)
CreateInstance(t) ==
    /\ factory.by = t
    /\ instance' = IF factory.read = None THEN Default ELSE factory.read
    /\ running' = IF factory.read = None /\ Enabled(Default) THEN running \cup {Default} ELSE running
    /\ factory' = NoFactory
    /\ UNCHANGED <<enabled, job, pc, given, setupVars, lazyFailed, halfMade, moduleVars>>

(* new AgentComponents() throws.  The Lazy has no value, so Setup still    *)
(* takes components, but everybody who asks for the instance, now and      *)
(* later, gets the exception.                                              *)
FactoryFails(t) ==
    /\ factory.by = t /\ factory.read = None
    /\ lazyFailed' = TRUE /\ factory' = NoFactory
    /\ HalfMakes(Default)
    /\ UNCHANGED <<enabled, job, pc, given, setupVars, instance, running, moduleVars>>

GetThrows(t) ==
    /\ lazyFailed /\ pc[t] = "get" /\ Throws(t)
    /\ UNCHANGED <<enabled, job, given, setupVars, lazyVars, madeVars, isInited, subscribed, hooked>>

GetInstance(t) ==
    /\ instance # None
    /\ Goes(t, "get", IF job[t] = "module" THEN "subscribe" ELSE "done")
    /\ UNCHANGED <<enabled, job, given, setupVars, lazyVars, madeVars, moduleVars>>

-----------------------------------------------------------------------------
(* ElasticApmModule.  IfNotInited, then EnsureInitialized with its lock. *)
IfNotInited(t) ==
    /\ Goes(t, "fast", IF isInited THEN "hook" ELSE "init")
    /\ UNCHANGED <<enabled, job, given, setupVars, lazyVars, madeVars, moduleVars>>

NoSecondCheck(t) ==                     \* mutant: does not look again under the lock
    /\ Goes(t, "init", "build") /\ initLock' = t

EnsureInitialized(t) ==
    \/ isInited /\ Goes(t, "init", "hook") /\ UNCHANGED initLock
    \/ ~isInited /\ Goes(t, "init", "build") /\ initLock' = t

EnterInit(t) ==
    /\ initLock = None
    /\ EnsureInitialized(t)
    /\ UNCHANGED <<enabled, job, given, setupVars, lazyVars, madeVars, isInited, subscribed, hooked>>

(* Subscribers that throw leave the module uninitialised for the next      *)
(* HttpApplication; Init logs.                                             *)
SubscribeFails(t) ==
    /\ pc[t] = "subscribe" /\ Throws(t)
    /\ UNCHANGED <<enabled, job, given, setupVars, lazyVars, madeVars, isInited, subscribed, hooked>>

Subscribe(t) ==
    /\ Goes(t, "subscribe", "hook")
    /\ subscribed' = IF Enabled(instance) THEN subscribed + 1 ELSE subscribed
    /\ isInited' = TRUE /\ initLock' = None
    /\ UNCHANGED <<enabled, job, given, setupVars, lazyVars, madeVars, hooked>>

(* InitImpl, which finds the instance made. *)
Hook(t) ==
    /\ instance # None
    /\ Goes(t, "hook", "done")
    /\ hooked' = IF Enabled(instance) THEN hooked \cup {t} ELSE hooked
    /\ UNCHANGED <<enabled, job, given, setupVars, lazyVars, madeVars, initLock, isInited, subscribed>>

-----------------------------------------------------------------------------
SetupStep(t) ==
    \/ Build(t) \/ Resolve(t)
    \/ CheckNotCreated(t) \/ AlreadyCreated(t) \/ AssignComponents(t) \/ SetConfigured(t)

InstanceStep(t) == EnterFactory(t) \/ CreateInstance(t) \/ GetInstance(t) \/ GetThrows(t)

ModuleStep(t) == IfNotInited(t) \/ EnterInit(t) \/ Subscribe(t) \/ Hook(t)

ThreadStep(t) == SetupStep(t) \/ InstanceStep(t) \/ ModuleStep(t)

Fails(t) == BuildFails(t) \/ FactoryFails(t) \/ SubscribeFails(t)

AgentNext ==
    \E t \in Threads : ThreadStep(t) \/ Fails(t) \/ \E j \in Jobs : Begin(t, j)

AgentSpec == AgentInit /\ [][AgentNext]_agentVars

(* Threads that are in a call are scheduled. *)
FairAgentSpec == AgentSpec /\ \A t \in Threads : WF_agentVars(ThreadStep(t))

-----------------------------------------------------------------------------
(* InitOnceForAllInstancesUnderLock: whatever fails and is retried, at     *)
(* most one module subscribes, and none handles requests before that is    *)
(* done and unless the agent they all use is enabled.                      *)
ModulesInitOnce ==
    /\ subscribed <= 1
    /\ hooked # {} => isInited /\ instance # None /\ Enabled(instance) /\ subscribed = 1

(* Where only modules set up or use the agent: whatever fails and is       *)
(* retried, components that a module has made are on their way to be the   *)
(* agent's, are the agent's, or have been disposed (SafeAgentSetup), so    *)
(* that no second sender goes on posting.  Not covered is what Setup       *)
(* cannot prevent: components abandoned because a first use of the agent   *)
(* or another Setup came between its check and its assignment, and         *)
(* half-made ones.                                                         *)
OnlyModules == \A t \in Threads : job[t] \in {"module", None}

NoAbandonedComponents ==
    OnlyModules =>
        \A c \in running :
            \/ c = instance
            \/ c \in Threads /\ pc[c] \in {"check", "assign", "publish", "get"}

(* The host's services get components whenever IsConfigured says that they *)
(* are there, and never null.                                              *)
ConfiguredMeansComponents ==
    /\ isConfigured => components # None
    /\ \A t \in Threads : pc[t] \in {"check", "assign", "publish"} => given[t] # None

(* Nobody waits for ever: the Lazy's lock is taken under the one of the    *)
(* modules, never the other way round, and each is given back, whether the *)
(* configuration, the constructor, the Lazy's factory (whose exception     *)
(* every later caller gets) or a subscriber throws.                        *)
EveryCallEnds ==
    <>[](\A t \in Threads : pc[t] \in {"idle", "done", "threw"})

(* configuration.asciidoc: "Setting to false will completely disable the   *)
(* agent"; for an application that sets up the agent by Web.config only.   *)
DisabledMeansDisabled ==
    ~enabled["webConfig"] /\ OnlyModules
        => running = {} /\ hooked = {}

=============================================================================
