---------------------------- MODULE AgentProofs ----------------------------
(***************************************************************************)
(* The static agent and the modules that set it up, for any number of      *)
(* threads and any mix of jobs.  The lock of the modules makes at most one *)
(* of them be between the check of Setup and the instance it gets.         *)
(***************************************************************************)
EXTENDS AgentSingleton, TLAPS

InsideInit == {"build", "check", "assign", "publish", "get", "subscribe"}

(* The lock is held exactly by the module that is initialising. *)
LockInv ==
    /\ \A t \in Threads : (initLock = t) <=> (job[t] = "module" /\ pc[t] \in InsideInit)
    /\ initLock # None => ~isInited

JobInv ==
    \A t \in Threads :
       /\ (job[t] = None) <=> (pc[t] = "idle")
       /\ pc[t] \in {"fast", "init", "subscribe", "hook"} => job[t] = "module"
       /\ pc[t] = "resolve" => job[t] = "host"

(* Whoever runs the factory of the Lazy is asking for the instance: a      *)
(* module cannot be thrown out of it.  The Lazy has a value or an          *)
(* exception, and the factory runs only while it has neither.              *)
FactoryInv ==
    /\ factory = NoFactory \/ (factory.by \in Threads /\ pc[factory.by] = "get")
    /\ factory.by # None => instance = None /\ ~lazyFailed
    /\ lazyFailed => instance = None

(* Components that anything refers to were made: their owner has its job.  *)
OwnerInv ==
    /\ components \in Threads \cup {None} /\ factory.read \in Threads \cup {None}
    /\ \A t \in Threads : given[t] \in Threads \cup {None} /\ (pc[t] = "idle" => given[t] = None)
    /\ \A o \in Threads :
          \/ o \in {components, instance, factory.read} \/ o \in running
          \/ \E t \in Threads : given[t] = o
          => pc[o] # "idle"
    /\ \A o \in Threads : o \in running => Enabled(o)
    /\ Default \in running => instance = Default

SetupInv ==
    /\ isConfigured => components # None
    /\ \A t \in Threads : pc[t] \in {"check", "assign", "publish"} => given[t] # None
    /\ \A t \in Threads : pc[t] = "publish" => components # None

InitInv ==
    /\ \A t \in Threads : pc[t] = "subscribe" => instance # None
    /\ \A t \in Threads : pc[t] = "hook" => isInited
    /\ isInited => instance # None /\ subscribed = IF Enabled(instance) THEN 1 ELSE 0
    /\ ~isInited => subscribed = 0 /\ hooked = {}
    /\ hooked # {} => Enabled(instance)

Module(t) == job[t] = "module"

(* Only modules: their lock keeps everybody else away from Setup and from  *)
(* the Lazy, so that what passed the check becomes the agent; and a Lazy   *)
(* that failed had nothing to take, because nothing is enabled.            *)
ModuleInv ==
    /\ \A t \in Threads : Module(t) => given[t] \in {t, None}
    /\ OnlyModules =>
          /\ enabled["webConfig"] => ~lazyFailed
          /\ \A t \in Threads : pc[t] \in {"assign", "publish"} => instance = None /\ factory = NoFactory
          /\ \A t \in Threads : pc[t] = "publish" => components = t
          /\ \A t \in Threads : pc[t] = "get" /\ enabled["webConfig"] /\ instance = None
                => components = t /\ (factory = NoFactory \/ factory.read = t)
          /\ \A t \in Threads : t \in running =>
                \/ t = instance
                \/ pc[t] \in {"check", "assign", "publish"}
                \/ pc[t] = "get" /\ instance = None

AgentInv ==
    AgentTypeOK /\ LockInv /\ JobInv /\ FactoryInv /\ OwnerInv /\ SetupInv /\ InitInv /\ ModuleInv

LEMMA BuildKeeps ==
    ASSUME AgentInv, NEW t \in Threads, Build(t)
    PROVE  AgentInv'
<1> USE AgentConstants DEF JobNames, Owners, setupVars, lazyVars, madeVars, moduleVars, Module, InsideInit, Sources
<1>1. AgentTypeOK'
  BY DEF AgentInv, AgentTypeOK, OwnerInv, FactoryInv, Build, Goes, Enabled, Source
<1>2. LockInv'
  BY DEF AgentInv, AgentTypeOK, LockInv, JobInv, Build, Goes, Enabled, Source
<1>3. JobInv'
  BY DEF AgentInv, AgentTypeOK, JobInv, Build, Goes, Enabled, Source
<1>4. FactoryInv'
  BY DEF AgentInv, AgentTypeOK, FactoryInv, JobInv, Build, Goes, Enabled, Source
<1>5. OwnerInv'
  BY DEF AgentInv, AgentTypeOK, OwnerInv, FactoryInv, JobInv, Build, Goes, Enabled, Source
<1>6. SetupInv'
  BY DEF AgentInv, AgentTypeOK, SetupInv, OwnerInv, Build, Goes, Enabled, Source
<1>7. InitInv'
  BY DEF AgentInv, AgentTypeOK, InitInv, LockInv, JobInv, FactoryInv, OwnerInv, Build, Goes, Enabled,
     Source
<1>8. ModuleInv'
  BY DEF AgentInv, AgentTypeOK, ModuleInv, LockInv, JobInv, FactoryInv, OwnerInv, SetupInv,
     OnlyModules, Build, Goes, Enabled, Source
<1> QED
  BY <1>1, <1>2, <1>3, <1>4, <1>5, <1>6, <1>7, <1>8 DEF AgentInv

LEMMA BuildFailsKeeps ==
    ASSUME AgentInv, NEW t \in Threads, BuildFails(t)
    PROVE  AgentInv'
<1> USE AgentConstants DEF JobNames, Owners, setupVars, lazyVars, madeVars, moduleVars, Module, InsideInit, Sources
<1>1. AgentTypeOK'
  BY DEF AgentInv, AgentTypeOK, OwnerInv, FactoryInv, BuildFails, Throws, ReleaseInit, HalfMakes,
     Enabled, Source
<1>2. LockInv'
  BY DEF AgentInv, AgentTypeOK, LockInv, JobInv, BuildFails, Throws, ReleaseInit, HalfMakes, Enabled,
     Source
<1>3. JobInv'
  BY DEF AgentInv, AgentTypeOK, JobInv, BuildFails, Throws, ReleaseInit, HalfMakes, Enabled, Source
<1>4. FactoryInv'
  BY DEF AgentInv, AgentTypeOK, FactoryInv, JobInv, BuildFails, Throws, ReleaseInit, HalfMakes,
     Enabled, Source
<1>5. OwnerInv'
  BY DEF AgentInv, AgentTypeOK, OwnerInv, FactoryInv, JobInv, BuildFails, Throws, ReleaseInit,
     HalfMakes, Enabled, Source
<1>6. SetupInv'
  BY DEF AgentInv, AgentTypeOK, SetupInv, OwnerInv, BuildFails, Throws, ReleaseInit, HalfMakes,
     Enabled, Source
<1>7. InitInv'
  BY DEF AgentInv, AgentTypeOK, InitInv, LockInv, JobInv, FactoryInv, OwnerInv, BuildFails, Throws,
     ReleaseInit, HalfMakes, Enabled, Source
<1>8. ModuleInv'
  BY DEF AgentInv, AgentTypeOK, ModuleInv, LockInv, JobInv, FactoryInv, OwnerInv, SetupInv,
     OnlyModules, BuildFails, Throws, ReleaseInit, HalfMakes, Enabled, Source
<1> QED
  BY <1>1, <1>2, <1>3, <1>4, <1>5, <1>6, <1>7, <1>8 DEF AgentInv

LEMMA ResolveKeeps ==
    ASSUME AgentInv, NEW t \in Threads, Resolve(t)
    PROVE  AgentInv'
<1> USE AgentConstants DEF JobNames, Owners, setupVars, lazyVars, madeVars, moduleVars, Module, InsideInit, Sources
<1>1. AgentTypeOK'
  BY DEF AgentInv, AgentTypeOK, OwnerInv, FactoryInv, Resolve, Goes
<1>2. LockInv'
  BY DEF AgentInv, AgentTypeOK, LockInv, JobInv, Resolve, Goes
<1>3. JobInv'
  BY DEF AgentInv, AgentTypeOK, JobInv, Resolve, Goes
<1>4. FactoryInv'
  BY DEF AgentInv, AgentTypeOK, FactoryInv, JobInv, Resolve, Goes
<1>5. OwnerInv'
  BY DEF AgentInv, AgentTypeOK, OwnerInv, FactoryInv, JobInv, Resolve, Goes, Enabled, Source
<1>6. SetupInv'
  BY DEF AgentInv, AgentTypeOK, SetupInv, OwnerInv, Resolve, Goes
<1>7. InitInv'
  BY DEF AgentInv, AgentTypeOK, InitInv, LockInv, JobInv, FactoryInv, OwnerInv, Resolve, Goes,
     Enabled, Source
<1>8. ModuleInv'
  BY DEF AgentInv, AgentTypeOK, ModuleInv, LockInv, JobInv, FactoryInv, OwnerInv, SetupInv,
     OnlyModules, Resolve, Goes, Enabled, Source
<1> QED
  BY <1>1, <1>2, <1>3, <1>4, <1>5, <1>6, <1>7, <1>8 DEF AgentInv

LEMMA CheckNotCreatedKeeps ==
    ASSUME AgentInv, NEW t \in Threads, CheckNotCreated(t)
    PROVE  AgentInv'
<1> USE AgentConstants DEF JobNames, Owners, setupVars, lazyVars, madeVars, moduleVars, Module, InsideInit, Sources
<1>1. AgentTypeOK'
  BY DEF AgentInv, AgentTypeOK, OwnerInv, FactoryInv, CheckNotCreated, Goes
<1>2. LockInv'
  BY DEF AgentInv, AgentTypeOK, LockInv, JobInv, CheckNotCreated, Goes
<1>3. JobInv'
  BY DEF AgentInv, AgentTypeOK, JobInv, CheckNotCreated, Goes
<1>4. FactoryInv'
  BY DEF AgentInv, AgentTypeOK, FactoryInv, JobInv, CheckNotCreated, Goes
<1>5. OwnerInv'
  BY DEF AgentInv, AgentTypeOK, OwnerInv, FactoryInv, JobInv, CheckNotCreated, Goes, Enabled, Source
<1>6. SetupInv'
  BY DEF AgentInv, AgentTypeOK, SetupInv, OwnerInv, CheckNotCreated, Goes
<1>7. InitInv'
  BY DEF AgentInv, AgentTypeOK, InitInv, LockInv, JobInv, FactoryInv, OwnerInv, CheckNotCreated, Goes,
     Enabled, Source
<1>8. ModuleInv'
  BY DEF AgentInv, AgentTypeOK, ModuleInv, LockInv, JobInv, FactoryInv, OwnerInv, SetupInv,
     OnlyModules, CheckNotCreated, Goes, Enabled, Source
<1> QED
  BY <1>1, <1>2, <1>3, <1>4, <1>5, <1>6, <1>7, <1>8 DEF AgentInv

LEMMA AlreadyCreatedKeeps ==
    ASSUME AgentInv, NEW t \in Threads, AlreadyCreated(t)
    PROVE  AgentInv'
<1> USE AgentConstants DEF JobNames, Owners, setupVars, lazyVars, madeVars, moduleVars, Module, InsideInit, Sources
<1>1. AgentTypeOK'
  BY DEF AgentInv, AgentTypeOK, OwnerInv, FactoryInv, AlreadyCreated, DisposeRejected, Goes
<1>2. LockInv'
  BY DEF AgentInv, AgentTypeOK, LockInv, JobInv, AlreadyCreated, DisposeRejected, Goes
<1>3. JobInv'
  BY DEF AgentInv, AgentTypeOK, JobInv, AlreadyCreated, DisposeRejected, Goes
<1>4. FactoryInv'
  BY DEF AgentInv, AgentTypeOK, FactoryInv, JobInv, AlreadyCreated, DisposeRejected, Goes
<1>5. OwnerInv'
  BY DEF AgentInv, AgentTypeOK, OwnerInv, FactoryInv, JobInv, AlreadyCreated, DisposeRejected, Goes,
     Enabled, Source
<1>6. SetupInv'
  BY DEF AgentInv, AgentTypeOK, SetupInv, OwnerInv, AlreadyCreated, DisposeRejected, Goes
<1>7. InitInv'
  BY DEF AgentInv, AgentTypeOK, InitInv, LockInv, JobInv, FactoryInv, OwnerInv, AlreadyCreated,
     DisposeRejected, Goes, Enabled, Source
<1>8. ModuleInv'
  BY DEF AgentInv, AgentTypeOK, ModuleInv, LockInv, JobInv, FactoryInv, OwnerInv, SetupInv,
     OnlyModules, AlreadyCreated, DisposeRejected, Goes, Enabled, Source
<1> QED
  BY <1>1, <1>2, <1>3, <1>4, <1>5, <1>6, <1>7, <1>8 DEF AgentInv

LEMMA AssignComponentsKeeps ==
    ASSUME AgentInv, NEW t \in Threads, AssignComponents(t)
    PROVE  AgentInv'
<1> USE AgentConstants DEF JobNames, Owners, setupVars, lazyVars, madeVars, moduleVars, Module, InsideInit, Sources
<1>1. AgentTypeOK'
  BY DEF AgentInv, AgentTypeOK, OwnerInv, FactoryInv, AssignComponents, Goes
<1>2. LockInv'
  BY DEF AgentInv, AgentTypeOK, LockInv, JobInv, AssignComponents, Goes
<1>3. JobInv'
  BY DEF AgentInv, AgentTypeOK, JobInv, AssignComponents, Goes
<1>4. FactoryInv'
  BY DEF AgentInv, AgentTypeOK, FactoryInv, JobInv, AssignComponents, Goes
<1>5. OwnerInv'
  BY DEF AgentInv, AgentTypeOK, OwnerInv, FactoryInv, JobInv, AssignComponents, Goes, Enabled, Source
<1>6. SetupInv'
  BY DEF AgentInv, AgentTypeOK, SetupInv, OwnerInv, AssignComponents, Goes
<1>7. InitInv'
  BY DEF AgentInv, AgentTypeOK, InitInv, LockInv, JobInv, FactoryInv, OwnerInv, AssignComponents,
     Goes, Enabled, Source
<1>8. ModuleInv'
  BY DEF AgentInv, AgentTypeOK, ModuleInv, LockInv, JobInv, FactoryInv, OwnerInv, SetupInv,
     OnlyModules, AssignComponents, Goes, Enabled, Source
<1> QED
  BY <1>1, <1>2, <1>3, <1>4, <1>5, <1>6, <1>7, <1>8 DEF AgentInv

LEMMA SetConfiguredKeeps ==
    ASSUME AgentInv, NEW t \in Threads, SetConfigured(t)
    PROVE  AgentInv'
<1> USE AgentConstants DEF JobNames, Owners, setupVars, lazyVars, madeVars, moduleVars, Module, InsideInit, Sources
<1>1. AgentTypeOK'
  BY DEF AgentInv, AgentTypeOK, OwnerInv, FactoryInv, SetConfigured, AfterSetup, Goes
<1>2. LockInv'
  BY DEF AgentInv, AgentTypeOK, LockInv, JobInv, SetConfigured, AfterSetup, Goes
<1>3. JobInv'
  BY DEF AgentInv, AgentTypeOK, JobInv, SetConfigured, AfterSetup, Goes
<1>4. FactoryInv'
  BY DEF AgentInv, AgentTypeOK, FactoryInv, JobInv, SetConfigured, AfterSetup, Goes
<1>5. OwnerInv'
  BY DEF AgentInv, AgentTypeOK, OwnerInv, FactoryInv, JobInv, SetConfigured, AfterSetup, Goes,
     Enabled, Source
<1>6. SetupInv'
  BY DEF AgentInv, AgentTypeOK, SetupInv, OwnerInv, SetConfigured, AfterSetup, Goes
<1>7. InitInv'
  BY DEF AgentInv, AgentTypeOK, InitInv, LockInv, JobInv, FactoryInv, OwnerInv, SetConfigured,
     AfterSetup, Goes, Enabled, Source
<1>8. ModuleInv'
  BY DEF AgentInv, AgentTypeOK, ModuleInv, LockInv, JobInv, FactoryInv, OwnerInv, SetupInv,
     OnlyModules, SetConfigured, AfterSetup, Goes, Enabled, Source
<1> QED
  BY <1>1, <1>2, <1>3, <1>4, <1>5, <1>6, <1>7, <1>8 DEF AgentInv

LEMMA EnterFactoryKeeps ==
    ASSUME AgentInv, NEW t \in Threads, EnterFactory(t)
    PROVE  AgentInv'
<1> USE AgentConstants DEF JobNames, Owners, setupVars, lazyVars, madeVars, moduleVars, Module, InsideInit, Sources
<1>1. AgentTypeOK'
  BY DEF AgentInv, AgentTypeOK, OwnerInv, FactoryInv, EnterFactory, NoFactory
<1>2. LockInv'
  BY DEF AgentInv, AgentTypeOK, LockInv, JobInv, EnterFactory, NoFactory
<1>3. JobInv'
  BY DEF AgentInv, AgentTypeOK, JobInv, EnterFactory, NoFactory
<1>4. FactoryInv'
  BY DEF AgentInv, AgentTypeOK, FactoryInv, JobInv, EnterFactory, NoFactory
<1>5. OwnerInv'
  BY DEF AgentInv, AgentTypeOK, OwnerInv, FactoryInv, JobInv, EnterFactory, NoFactory, Enabled, Source
<1>6. SetupInv'
  BY DEF AgentInv, AgentTypeOK, SetupInv, OwnerInv, EnterFactory, NoFactory
<1>7. InitInv'
  BY DEF AgentInv, AgentTypeOK, InitInv, LockInv, JobInv, FactoryInv, OwnerInv, EnterFactory,
     NoFactory, Enabled, Source
<1>8. ModuleInv'
  BY DEF AgentInv, AgentTypeOK, ModuleInv, LockInv, JobInv, FactoryInv, OwnerInv, SetupInv,
     OnlyModules, EnterFactory, NoFactory, Enabled, Source
<1> QED
  BY <1>1, <1>2, <1>3, <1>4, <1>5, <1>6, <1>7, <1>8 DEF AgentInv

LEMMA CreateInstanceKeeps ==
    ASSUME AgentInv, NEW t \in Threads, CreateInstance(t)
    PROVE  AgentInv'
<1> USE AgentConstants DEF JobNames, Owners, setupVars, lazyVars, madeVars, moduleVars, Module, InsideInit, Sources
<1>1. AgentTypeOK'
  BY DEF AgentInv, AgentTypeOK, OwnerInv, FactoryInv, CreateInstance, NoFactory
<1>2. LockInv'
  BY DEF AgentInv, AgentTypeOK, LockInv, JobInv, CreateInstance, NoFactory
<1>3. JobInv'
  BY DEF AgentInv, AgentTypeOK, JobInv, CreateInstance, NoFactory
<1>4. FactoryInv'
  BY DEF AgentInv, AgentTypeOK, FactoryInv, JobInv, CreateInstance, NoFactory
<1>5. OwnerInv'
  BY DEF AgentInv, AgentTypeOK, OwnerInv, FactoryInv, JobInv, CreateInstance, NoFactory, Enabled, Source
<1>6. SetupInv'
  BY DEF AgentInv, AgentTypeOK, SetupInv, OwnerInv, CreateInstance, NoFactory
<1>7. InitInv'
  BY DEF AgentInv, AgentTypeOK, InitInv, LockInv, JobInv, FactoryInv, OwnerInv, CreateInstance,
     NoFactory, Enabled, Source
<1>8. ModuleInv'
  BY DEF AgentInv, AgentTypeOK, ModuleInv, LockInv, JobInv, FactoryInv, OwnerInv, SetupInv,
     OnlyModules, CreateInstance, NoFactory, Enabled, Source
<1> QED
  BY <1>1, <1>2, <1>3, <1>4, <1>5, <1>6, <1>7, <1>8 DEF AgentInv

LEMMA FactoryFailsKeeps ==
    ASSUME AgentInv, NEW t \in Threads, FactoryFails(t)
    PROVE  AgentInv'
<1> USE AgentConstants DEF JobNames, Owners, setupVars, lazyVars, madeVars, moduleVars, Module, InsideInit, Sources
<1>1. AgentTypeOK'
  BY DEF AgentInv, AgentTypeOK, OwnerInv, FactoryInv, FactoryFails, HalfMakes, NoFactory
<1>2. LockInv'
  BY DEF AgentInv, AgentTypeOK, LockInv, JobInv, FactoryFails, HalfMakes, NoFactory
<1>3. JobInv'
  BY DEF AgentInv, AgentTypeOK, JobInv, FactoryFails, HalfMakes, NoFactory
<1>4. FactoryInv'
  BY DEF AgentInv, AgentTypeOK, FactoryInv, JobInv, FactoryFails, HalfMakes, NoFactory
<1>5. OwnerInv'
  BY DEF AgentInv, AgentTypeOK, OwnerInv, FactoryInv, JobInv, FactoryFails, HalfMakes, NoFactory,
     Enabled, Source
<1>6. SetupInv'
  BY DEF AgentInv, AgentTypeOK, SetupInv, OwnerInv, FactoryFails, HalfMakes, NoFactory
<1>7. InitInv'
  BY DEF AgentInv, AgentTypeOK, InitInv, LockInv, JobInv, FactoryInv, OwnerInv, FactoryFails,
     HalfMakes, NoFactory, Enabled, Source
<1>8. ModuleInv'
  BY DEF AgentInv, AgentTypeOK, ModuleInv, LockInv, JobInv, FactoryInv, OwnerInv, SetupInv,
     OnlyModules, FactoryFails, HalfMakes, NoFactory, Enabled, Source
<1> QED
  BY <1>1, <1>2, <1>3, <1>4, <1>5, <1>6, <1>7, <1>8 DEF AgentInv

LEMMA GetInstanceKeeps ==
    ASSUME AgentInv, NEW t \in Threads, GetInstance(t)
    PROVE  AgentInv'
<1> USE AgentConstants DEF JobNames, Owners, setupVars, lazyVars, madeVars, moduleVars, Module, InsideInit, Sources
<1>1. AgentTypeOK'
  BY DEF AgentInv, AgentTypeOK, OwnerInv, FactoryInv, GetInstance, Goes
<1>2. LockInv'
  BY DEF AgentInv, AgentTypeOK, LockInv, JobInv, GetInstance, Goes
<1>3. JobInv'
  BY DEF AgentInv, AgentTypeOK, JobInv, GetInstance, Goes
<1>4. FactoryInv'
  BY DEF AgentInv, AgentTypeOK, FactoryInv, JobInv, GetInstance, Goes
<1>5. OwnerInv'
  BY DEF AgentInv, AgentTypeOK, OwnerInv, FactoryInv, JobInv, GetInstance, Goes, Enabled, Source
<1>6. SetupInv'
  BY DEF AgentInv, AgentTypeOK, SetupInv, OwnerInv, GetInstance, Goes
<1>7. InitInv'
  BY DEF AgentInv, AgentTypeOK, InitInv, LockInv, JobInv, FactoryInv, OwnerInv, GetInstance, Goes,
     Enabled, Source
<1>8. ModuleInv'
  BY DEF AgentInv, AgentTypeOK, ModuleInv, LockInv, JobInv, FactoryInv, OwnerInv, SetupInv,
     OnlyModules, GetInstance, Goes, Enabled, Source
<1> QED
  BY <1>1, <1>2, <1>3, <1>4, <1>5, <1>6, <1>7, <1>8 DEF AgentInv

LEMMA GetThrowsKeeps ==
    ASSUME AgentInv, NEW t \in Threads, GetThrows(t)
    PROVE  AgentInv'
<1> USE AgentConstants DEF JobNames, Owners, setupVars, lazyVars, madeVars, moduleVars, Module, InsideInit, Sources
<1>1. AgentTypeOK'
  BY DEF AgentInv, AgentTypeOK, OwnerInv, FactoryInv, GetThrows, Throws, ReleaseInit
<1>2. LockInv'
  BY DEF AgentInv, AgentTypeOK, LockInv, JobInv, GetThrows, Throws, ReleaseInit
<1>3. JobInv'
  BY DEF AgentInv, AgentTypeOK, JobInv, GetThrows, Throws, ReleaseInit
<1>4. FactoryInv'
  BY DEF AgentInv, AgentTypeOK, FactoryInv, JobInv, GetThrows, Throws, ReleaseInit
<1>5. OwnerInv'
  BY DEF AgentInv, AgentTypeOK, OwnerInv, FactoryInv, JobInv, GetThrows, Throws, ReleaseInit, Enabled,
     Source
<1>6. SetupInv'
  BY DEF AgentInv, AgentTypeOK, SetupInv, OwnerInv, GetThrows, Throws, ReleaseInit
<1>7. InitInv'
  BY DEF AgentInv, AgentTypeOK, InitInv, LockInv, JobInv, FactoryInv, OwnerInv, GetThrows, Throws,
     ReleaseInit, Enabled, Source
<1>8. ModuleInv'
  BY DEF AgentInv, AgentTypeOK, ModuleInv, LockInv, JobInv, FactoryInv, OwnerInv, SetupInv,
     OnlyModules, GetThrows, Throws, ReleaseInit, Enabled, Source
<1> QED
  BY <1>1, <1>2, <1>3, <1>4, <1>5, <1>6, <1>7, <1>8 DEF AgentInv

LEMMA IfNotInitedKeeps ==
    ASSUME AgentInv, NEW t \in Threads, IfNotInited(t)
    PROVE  AgentInv'
<1> USE AgentConstants DEF JobNames, Owners, setupVars, lazyVars, madeVars, moduleVars, Module, InsideInit, Sources
<1>1. AgentTypeOK'
  BY DEF AgentInv, AgentTypeOK, OwnerInv, FactoryInv, IfNotInited, Goes
<1>2. LockInv'
  BY DEF AgentInv, AgentTypeOK, LockInv, JobInv, IfNotInited, Goes
<1>3. JobInv'
  BY DEF AgentInv, AgentTypeOK, JobInv, IfNotInited, Goes
<1>4. FactoryInv'
  BY DEF AgentInv, AgentTypeOK, FactoryInv, JobInv, IfNotInited, Goes
<1>5. OwnerInv'
  BY DEF AgentInv, AgentTypeOK, OwnerInv, FactoryInv, JobInv, IfNotInited, Goes, Enabled, Source
<1>6. SetupInv'
  BY DEF AgentInv, AgentTypeOK, SetupInv, OwnerInv, IfNotInited, Goes
<1>7. InitInv'
  BY DEF AgentInv, AgentTypeOK, InitInv, LockInv, JobInv, FactoryInv, OwnerInv, IfNotInited, Goes,
     Enabled, Source
<1>8. ModuleInv'
  BY DEF AgentInv, AgentTypeOK, ModuleInv, LockInv, JobInv, FactoryInv, OwnerInv, SetupInv,
     OnlyModules, IfNotInited, Goes, Enabled, Source
<1> QED
  BY <1>1, <1>2, <1>3, <1>4, <1>5, <1>6, <1>7, <1>8 DEF AgentInv

LEMMA EnterInitKeeps ==
    ASSUME AgentInv, NEW t \in Threads, EnterInit(t)
    PROVE  AgentInv'
<1> USE AgentConstants DEF JobNames, Owners, setupVars, lazyVars, madeVars, moduleVars, Module, InsideInit, Sources
<1>1. AgentTypeOK'
  BY DEF AgentInv, AgentTypeOK, OwnerInv, FactoryInv, EnterInit, EnsureInitialized, Goes
<1>2. LockInv'
  BY DEF AgentInv, AgentTypeOK, LockInv, JobInv, EnterInit, EnsureInitialized, Goes
<1>3. JobInv'
  BY DEF AgentInv, AgentTypeOK, JobInv, EnterInit, EnsureInitialized, Goes
<1>4. FactoryInv'
  BY DEF AgentInv, AgentTypeOK, FactoryInv, JobInv, EnterInit, EnsureInitialized, Goes
<1>5. OwnerInv'
  BY DEF AgentInv, AgentTypeOK, OwnerInv, FactoryInv, JobInv, EnterInit, EnsureInitialized, Goes,
     Enabled, Source
<1>6. SetupInv'
  BY DEF AgentInv, AgentTypeOK, SetupInv, OwnerInv, EnterInit, EnsureInitialized, Goes
<1>7. InitInv'
  BY DEF AgentInv, AgentTypeOK, InitInv, LockInv, JobInv, FactoryInv, OwnerInv, EnterInit,
     EnsureInitialized, Goes, Enabled, Source
<1>8. ModuleInv'
  BY DEF AgentInv, AgentTypeOK, ModuleInv, LockInv, JobInv, FactoryInv, OwnerInv, SetupInv,
     OnlyModules, EnterInit, EnsureInitialized, Goes, Enabled, Source
<1> QED
  BY <1>1, <1>2, <1>3, <1>4, <1>5, <1>6, <1>7, <1>8 DEF AgentInv

LEMMA SubscribeFailsKeeps ==
    ASSUME AgentInv, NEW t \in Threads, SubscribeFails(t)
    PROVE  AgentInv'
<1> USE AgentConstants DEF JobNames, Owners, setupVars, lazyVars, madeVars, moduleVars, Module, InsideInit, Sources
<1>1. AgentTypeOK'
  BY DEF AgentInv, AgentTypeOK, OwnerInv, FactoryInv, SubscribeFails, Throws, ReleaseInit
<1>2. LockInv'
  BY DEF AgentInv, AgentTypeOK, LockInv, JobInv, SubscribeFails, Throws, ReleaseInit
<1>3. JobInv'
  BY DEF AgentInv, AgentTypeOK, JobInv, SubscribeFails, Throws, ReleaseInit
<1>4. FactoryInv'
  BY DEF AgentInv, AgentTypeOK, FactoryInv, JobInv, SubscribeFails, Throws, ReleaseInit
<1>5. OwnerInv'
  BY DEF AgentInv, AgentTypeOK, OwnerInv, FactoryInv, JobInv, SubscribeFails, Throws, ReleaseInit,
     Enabled, Source
<1>6. SetupInv'
  BY DEF AgentInv, AgentTypeOK, SetupInv, OwnerInv, SubscribeFails, Throws, ReleaseInit
<1>7. InitInv'
  BY DEF AgentInv, AgentTypeOK, InitInv, LockInv, JobInv, FactoryInv, OwnerInv, SubscribeFails,
     Throws, ReleaseInit, Enabled, Source
<1>8. ModuleInv'
  BY DEF AgentInv, AgentTypeOK, ModuleInv, LockInv, JobInv, FactoryInv, OwnerInv, SetupInv,
     OnlyModules, SubscribeFails, Throws, ReleaseInit, Enabled, Source
<1> QED
  BY <1>1, <1>2, <1>3, <1>4, <1>5, <1>6, <1>7, <1>8 DEF AgentInv

LEMMA SubscribeKeeps ==
    ASSUME AgentInv, NEW t \in Threads, Subscribe(t)
    PROVE  AgentInv'
<1> USE AgentConstants DEF JobNames, Owners, setupVars, lazyVars, madeVars, moduleVars, Module, InsideInit, Sources
<1>1. AgentTypeOK'
  BY DEF AgentInv, AgentTypeOK, OwnerInv, FactoryInv, Subscribe, Goes
<1>2. LockInv'
  BY DEF AgentInv, AgentTypeOK, LockInv, JobInv, Subscribe, Goes
<1>3. JobInv'
  BY DEF AgentInv, AgentTypeOK, JobInv, Subscribe, Goes
<1>4. FactoryInv'
  BY DEF AgentInv, AgentTypeOK, FactoryInv, JobInv, Subscribe, Goes
<1>5. OwnerInv'
  BY DEF AgentInv, AgentTypeOK, OwnerInv, FactoryInv, JobInv, Subscribe, Goes, Enabled, Source
<1>6. SetupInv'
  BY DEF AgentInv, AgentTypeOK, SetupInv, OwnerInv, Subscribe, Goes
<1>7. InitInv'
  BY DEF AgentInv, AgentTypeOK, InitInv, LockInv, JobInv, FactoryInv, OwnerInv, Subscribe, Goes,
     Enabled, Source
<1>8. ModuleInv'
  BY DEF AgentInv, AgentTypeOK, ModuleInv, LockInv, JobInv, FactoryInv, OwnerInv, SetupInv,
     OnlyModules, Subscribe, Goes, Enabled, Source
<1> QED
  BY <1>1, <1>2, <1>3, <1>4, <1>5, <1>6, <1>7, <1>8 DEF AgentInv

LEMMA HookKeeps ==
    ASSUME AgentInv, NEW t \in Threads, Hook(t)
    PROVE  AgentInv'
<1> USE AgentConstants DEF JobNames, Owners, setupVars, lazyVars, madeVars, moduleVars, Module, InsideInit, Sources
<1>1. AgentTypeOK'
  BY DEF AgentInv, AgentTypeOK, OwnerInv, FactoryInv, Hook, Goes
<1>2. LockInv'
  BY DEF AgentInv, AgentTypeOK, LockInv, JobInv, Hook, Goes
<1>3. JobInv'
  BY DEF AgentInv, AgentTypeOK, JobInv, Hook, Goes
<1>4. FactoryInv'
  BY DEF AgentInv, AgentTypeOK, FactoryInv, JobInv, Hook, Goes
<1>5. OwnerInv'
  BY DEF AgentInv, AgentTypeOK, OwnerInv, FactoryInv, JobInv, Hook, Goes, Enabled, Source
<1>6. SetupInv'
  BY DEF AgentInv, AgentTypeOK, SetupInv, OwnerInv, Hook, Goes
<1>7. InitInv'
  BY DEF AgentInv, AgentTypeOK, InitInv, LockInv, JobInv, FactoryInv, OwnerInv, Hook, Goes, Enabled,
     Source
<1>8. ModuleInv'
  BY DEF AgentInv, AgentTypeOK, ModuleInv, LockInv, JobInv, FactoryInv, OwnerInv, SetupInv,
     OnlyModules, Hook, Goes, Enabled, Source
<1> QED
  BY <1>1, <1>2, <1>3, <1>4, <1>5, <1>6, <1>7, <1>8 DEF AgentInv

LEMMA BeginKeeps ==
    ASSUME AgentInv, NEW t \in Threads, NEW j \in Jobs, Begin(t, j)
    PROVE  AgentInv'
<1> USE AgentConstants DEF JobNames, Owners, setupVars, lazyVars, madeVars, moduleVars, Module, InsideInit, Sources
<1>0. pc[t] = "idle" /\ j # None
  BY DEF Begin, Goes
<1>1. AgentTypeOK'
  BY <1>0 DEF AgentInv, AgentTypeOK, OwnerInv, FactoryInv, Begin, Goes
<1>2. LockInv'
  BY <1>0 DEF AgentInv, AgentTypeOK, LockInv, JobInv, Begin, Goes
<1>3. JobInv'
  BY <1>0 DEF AgentInv, AgentTypeOK, JobInv, Begin, Goes
<1>4. FactoryInv'
  BY <1>0 DEF AgentInv, AgentTypeOK, FactoryInv, JobInv, Begin, Goes
<1>5. OwnerInv'
  BY <1>0 DEF AgentInv, AgentTypeOK, OwnerInv, FactoryInv, JobInv, Begin, Goes, Enabled, Source
<1>6. SetupInv'
  BY <1>0 DEF AgentInv, AgentTypeOK, SetupInv, OwnerInv, Begin, Goes
<1>7. InitInv'
  BY <1>0 DEF AgentInv, AgentTypeOK, InitInv, LockInv, JobInv, FactoryInv, OwnerInv, Begin, Goes, Enabled,
     Source
<1>8. ModuleInv'
  BY <1>0 DEF AgentInv, AgentTypeOK, ModuleInv, LockInv, JobInv, FactoryInv, OwnerInv, SetupInv,
     OnlyModules, Begin, Goes, Enabled, Source
<1> QED
  BY <1>1, <1>2, <1>3, <1>4, <1>5, <1>6, <1>7, <1>8 DEF AgentInv

LEMMA AgentInitial == AgentInit => AgentInv
<1> SUFFICES ASSUME AgentInit PROVE AgentInv
  OBVIOUS
<1> USE AgentConstants DEF AgentInit, NoFactory, JobNames, Owners, Sources
<1>1. AgentTypeOK
  BY DEF AgentTypeOK
<1>2. LockInv /\ JobInv /\ SetupInv
  BY DEF LockInv, JobInv, SetupInv, InsideInit
<1>3. OwnerInv /\ FactoryInv
  BY DEF OwnerInv, FactoryInv
<1>4. InitInv /\ ModuleInv
  BY DEF InitInv, ModuleInv, Module
<1> QED
  BY <1>1, <1>2, <1>3, <1>4 DEF AgentInv

LEMMA StepKeeps ==
    ASSUME AgentInv, AgentNext
    PROVE  AgentInv'
<1> PICK t \in Threads : ThreadStep(t) \/ Fails(t) \/ \E j \in Jobs : Begin(t, j)
  BY DEF AgentNext
<1>1. CASE ThreadStep(t)
  BY <1>1, BuildKeeps, ResolveKeeps, CheckNotCreatedKeeps, AlreadyCreatedKeeps, AssignComponentsKeeps,
     SetConfiguredKeeps, EnterFactoryKeeps, CreateInstanceKeeps, GetInstanceKeeps, IfNotInitedKeeps,
     EnterInitKeeps, SubscribeKeeps, HookKeeps, GetThrowsKeeps
     DEF ThreadStep, SetupStep, InstanceStep, ModuleStep
<1>2. CASE Fails(t)
  BY <1>2, BuildFailsKeeps, FactoryFailsKeeps, SubscribeFailsKeeps DEF Fails
<1>3. CASE \E j \in Jobs : Begin(t, j)
  BY <1>3, BeginKeeps
<1> QED
  BY <1>1, <1>2, <1>3

LEMMA StutterKeeps ==
    ASSUME AgentInv, UNCHANGED agentVars
    PROVE  AgentInv'
BY DEF AgentInv, AgentTypeOK, LockInv, JobInv, FactoryInv, OwnerInv, SetupInv, InitInv, ModuleInv, Module,
       OnlyModules, Enabled, Source, agentVars, setupVars, lazyVars, madeVars, moduleVars

LEMMA AgentInvariant == AgentSpec => []AgentInv
<1>1. AgentInv /\ [AgentNext]_agentVars => AgentInv'
  BY StepKeeps, StutterKeeps
<1> QED
  BY <1>1, AgentInitial, PTL DEF AgentSpec

(* Type correctness of the static agent, for any threads and jobs. *)
THEOREM AgentTypes == AgentSpec => []AgentTypeOK
<1>1. AgentInv => AgentTypeOK
  BY DEF AgentInv
<1> QED
  BY <1>1, AgentInvariant, PTL

(* ElasticApmModule.InitOnceForAllInstancesUnderLock: one module at most   *)
(* subscribes, and requests are handled only by an agent that is enabled.  *)
THEOREM ModulesInitialiseOnce == AgentSpec => []ModulesInitOnce
<1>1. AgentInv => ModulesInitOnce
  BY DEF AgentInv, AgentTypeOK, InitInv, ModulesInitOnce
<1> QED
  BY <1>1, AgentInvariant, PTL

(* ElasticApmModule.SafeAgentSetup, in a process where nobody but modules  *)
(* sets up or uses the agent: what runs and belongs to no module that is   *)
(* still setting up is the agent's, whatever failed before.  Without that  *)
(* condition it is not so: Setup may overlap a first use or another Setup. *)
THEOREM NothingIsAbandoned == AgentSpec => []NoAbandonedComponents
<1>1. ASSUME AgentInv PROVE NoAbandonedComponents
  <2> SUFFICES ASSUME OnlyModules, NEW c \in running
               PROVE  \/ c = instance
                      \/ c \in Threads /\ pc[c] \in {"check", "assign", "publish", "get"}
    BY DEF NoAbandonedComponents
  <2>1. CASE c = Default
    BY <1>1, <2>1 DEF AgentInv, OwnerInv
  <2>2. CASE c \in Threads
    BY <1>1, <2>2 DEF AgentInv, ModuleInv
  <2> QED
    BY <1>1, <2>1, <2>2 DEF AgentInv, AgentTypeOK, Owners
<1> QED
  BY <1>1, AgentInvariant, PTL

(* Agent.Setup: IsConfigured is never seen before the components are.      *)
THEOREM ConfiguredHasComponents == AgentSpec => []ConfiguredMeansComponents
<1>1. AgentInv => ConfiguredMeansComponents
  BY DEF AgentInv, SetupInv, ConfiguredMeansComponents
<1> QED
  BY <1>1, AgentInvariant, PTL

(* LazyApmAgent: once there is an instance everybody gets that one, and    *)
(* once its factory has thrown nobody ever gets one.                       *)
THEOREM InstanceIsKept ==
    AgentSpec => [][/\ instance # None => instance' = instance
                    /\ lazyFailed => lazyFailed' /\ instance' = None]_agentVars
<1>1. AgentInv /\ [AgentNext]_agentVars =>
         [/\ instance # None => instance' = instance
          /\ lazyFailed => lazyFailed' /\ instance' = None]_agentVars
  <2> SUFFICES ASSUME AgentInv, AgentNext, instance # None \/ lazyFailed
               PROVE  instance' = instance /\ (lazyFailed => lazyFailed' /\ instance = None)
    BY DEF agentVars
  <2> PICK t \in Threads : ThreadStep(t) \/ Fails(t) \/ \E j \in Jobs : Begin(t, j)
    BY DEF AgentNext
  <2>1. factory.by = None /\ (lazyFailed => instance = None)
    BY DEF AgentInv, FactoryInv
  <2>2. ~CreateInstance(t) /\ ~FactoryFails(t)
    BY <2>1, AgentConstants DEF CreateInstance, FactoryFails
  <2>3. instance' = instance /\ lazyFailed' = lazyFailed
    BY <2>2 DEF ThreadStep, SetupStep, InstanceStep, ModuleStep, lazyVars, Begin, Build, Resolve, CheckNotCreated,
       AlreadyCreated, AssignComponents, SetConfigured, EnterFactory, GetInstance, GetThrows, IfNotInited,
       EnterInit, Fails, BuildFails, SubscribeFails, Subscribe, Hook
  <2> QED
    BY <2>1, <2>3
<1> QED
  BY <1>1, AgentInvariant, PTL DEF AgentSpec

-----------------------------------------------------------------------------
(* Why every call ends (EveryCallEnds, without the fairness): whatever the *)
(* threads are doing, one of those inside a call can go on, and each step  *)
(* brings the call of its thread nearer to its end and no other one        *)
(* further from it.                                                        *)
Busy(t) == pc[t] \notin {"idle", "done", "threw"}

(* The guards of ThreadStep. *)
CanStep(t) ==
    \/ factory.by = t
    \/ pc[t] \in {"build", "resolve", "check", "assign", "publish", "fast", "subscribe"}
    \/ pc[t] = "get" /\ (instance # None \/ lazyFailed \/ factory = NoFactory)
    \/ pc[t] = "init" /\ initLock = None
    \/ pc[t] = "hook" /\ instance # None

SomeoneCanStep == (\E t \in Threads : Busy(t)) => \E t \in Threads : CanStep(t)

(* At most so many steps are left of a call. *)
StepsLeft(t) ==
    CASE pc[t] = "fast" -> 11
      [] pc[t] \in {"init", "resolve"} -> 10
      [] pc[t] = "build" -> 9
      [] pc[t] = "check" -> 8
      [] pc[t] = "assign" -> 7
      [] pc[t] = "publish" -> 6
      [] pc[t] = "get" -> IF instance # None \/ lazyFailed THEN 3 ELSE IF factory.by = t THEN 4 ELSE 5
      [] pc[t] = "subscribe" -> 2
      [] pc[t] = "hook" -> 1
      [] OTHER -> 0

(* LazyContextualInit and ElasticApmModule: no thread holds one of the two *)
(* locks and waits for the other while somebody else does the opposite.    *)
THEOREM NobodyBlocksEverybody == AgentSpec => []SomeoneCanStep
<1>1. AgentInv => SomeoneCanStep
  <2> SUFFICES ASSUME AgentInv, NEW t \in Threads, Busy(t), \A s \in Threads : ~CanStep(s) PROVE FALSE
    BY DEF SomeoneCanStep
  <2>1. ASSUME NEW s \in Threads PROVE pc[s] # "get"
    <3> SUFFICES ASSUME pc[s] = "get" PROVE FALSE
      OBVIOUS
    <3>1. factory # NoFactory
      BY DEF CanStep
    <3> QED
      BY <3>1 DEF CanStep, AgentInv, FactoryInv
  <2>2. pc[t] # "init"
    <3> SUFFICES ASSUME pc[t] = "init" PROVE FALSE
      OBVIOUS
    <3>1. initLock \in Threads
      BY DEF CanStep, AgentInv, AgentTypeOK
    <3>2. pc[initLock] \in InsideInit
      BY <3>1 DEF AgentInv, LockInv
    <3> QED
      BY <2>1, <3>1, <3>2 DEF CanStep, InsideInit
  <2>3. pc[t] # "hook"
    BY DEF CanStep, AgentInv, InitInv
  <2> QED
    BY <2>1, <2>2, <2>3 DEF Busy, CanStep, AgentInv, AgentTypeOK
<1> QED
  BY <1>1, AgentInvariant, PTL


(* A step of another thread leaves a thread where it is; at most it has    *)
(* made the instance.                                                      *)
LEMMA OtherStep ==
    ASSUME AgentInv, NEW u \in Threads, NEW t \in Threads, t # u,
           ThreadStep(u) \/ Fails(u) \/ \E j \in Jobs : Begin(u, j)
    PROVE  StepsLeft(t)' <= StepsLeft(t)
<1> USE AgentConstants DEF AgentInv, AgentTypeOK, OwnerInv, FactoryInv, Goes, NoFactory, Owners, lazyVars
<1>1. pc'[t] = pc[t]
  BY DEF ThreadStep, SetupStep, InstanceStep, ModuleStep, Build, Resolve, CheckNotCreated, AlreadyCreated,
     AssignComponents, SetConfigured, EnterFactory, CreateInstance, GetInstance, GetThrows, IfNotInited,
     EnsureInitialized, EnterInit, Subscribe, Hook, Fails, BuildFails, FactoryFails, SubscribeFails, Throws,
     Begin
<1>2. /\ instance # None \/ lazyFailed => instance' # None \/ lazyFailed'
      /\ factory.by = t => factory'.by = t
  <2>1. CASE EnterFactory(u)
    BY <2>1 DEF EnterFactory
  <2>2. CASE CreateInstance(u)
    BY <2>2 DEF CreateInstance
  <2>3. CASE UNCHANGED lazyVars
    BY <2>3
  <2>4. CASE FactoryFails(u)
    BY <2>4 DEF FactoryFails
  <2> QED
    BY <2>1, <2>2, <2>3, <2>4 DEF ThreadStep, SetupStep, InstanceStep, ModuleStep, Build, Resolve, CheckNotCreated,
       AlreadyCreated, AssignComponents, SetConfigured, GetInstance, GetThrows, IfNotInited, EnterInit,
       Subscribe, Hook, Fails, BuildFails, SubscribeFails, Begin
<1>3. CASE pc[t] = "get"
  BY <1>1, <1>2, <1>3 DEF StepsLeft
<1>4. CASE pc[t] # "get"
  BY <1>1, <1>4 DEF StepsLeft
<1> QED
  BY <1>3, <1>4

LEMMA OwnStep ==
    ASSUME AgentInv, NEW t \in Threads, ThreadStep(t)
    PROVE  StepsLeft(t)' < StepsLeft(t)
<1> USE AgentConstants DEF AgentInv, AgentTypeOK, FactoryInv, Goes, NoFactory, Owners, lazyVars
<1>1. CASE Build(t) \/ Resolve(t)
  BY <1>1 DEF Build, Resolve, StepsLeft
<1>2. CASE CheckNotCreated(t) \/ AlreadyCreated(t) \/ AssignComponents(t) \/ SetConfigured(t)
  BY <1>2 DEF CheckNotCreated, AlreadyCreated, AssignComponents, SetConfigured, AfterSetup, StepsLeft
<1>3. CASE EnterFactory(t)
  BY <1>3 DEF EnterFactory, StepsLeft
<1>4. CASE CreateInstance(t)
  BY <1>4 DEF CreateInstance, OwnerInv, StepsLeft
<1>5. CASE GetInstance(t)
  BY <1>5 DEF GetInstance, StepsLeft
<1>8. CASE GetThrows(t)
  BY <1>8 DEF GetThrows, Throws, StepsLeft
<1>6. CASE IfNotInited(t) \/ EnterInit(t)
  BY <1>6 DEF IfNotInited, EnterInit, EnsureInitialized, StepsLeft
<1>7. CASE Subscribe(t) \/ Hook(t)
  BY <1>7 DEF Subscribe, Hook, StepsLeft
<1> QED
  BY <1>1, <1>2, <1>3, <1>4, <1>5, <1>6, <1>7, <1>8 DEF ThreadStep, SetupStep, InstanceStep, ModuleStep

(* What is thrown ends the call; out of the factory of the Lazy with the   *)
(* next step.                                                              *)
LEMMA EndedByFailure ==
    ASSUME AgentInv, NEW t \in Threads, Fails(t)
    PROVE  StepsLeft(t)' <= StepsLeft(t)
BY DEF AgentInv, AgentTypeOK, FactoryInv, Fails, BuildFails, FactoryFails, SubscribeFails, Throws, StepsLeft

(* A call takes at most eleven steps, whatever the other threads do, and   *)
(* none that goes back: nobody retries inside a call.  Threads that are in *)
(* a call and are scheduled therefore get to the end of it, because as     *)
(* long as there is one, one of them can go on (NobodyBlocksEverybody).    *)
THEOREM CallsAreBounded ==
    AgentSpec => [][\A t \in Threads : /\ pc[t] # "idle" => StepsLeft(t)' <= StepsLeft(t)
                                       /\ ThreadStep(t) => StepsLeft(t)' < StepsLeft(t)]_agentVars
<1>1. AgentInv /\ [AgentNext]_agentVars =>
         [\A t \in Threads : /\ pc[t] # "idle" => StepsLeft(t)' <= StepsLeft(t)
                             /\ ThreadStep(t) => StepsLeft(t)' < StepsLeft(t)]_agentVars
  <2> SUFFICES ASSUME AgentInv, AgentNext, NEW t \in Threads
               PROVE  /\ pc[t] # "idle" => StepsLeft(t)' <= StepsLeft(t)
                      /\ ThreadStep(t) => StepsLeft(t)' < StepsLeft(t)
    OBVIOUS
  <2> PICK u \in Threads : ThreadStep(u) \/ Fails(u) \/ \E j \in Jobs : Begin(u, j)
    BY DEF AgentNext
  <2>1. CASE t # u
    BY <2>1, OtherStep, OwnStep
  <2>2. CASE t = u /\ ThreadStep(t)
    <3>1. StepsLeft(t) \in Int /\ StepsLeft(t)' \in Int
      BY DEF StepsLeft
    <3> QED
      BY <2>2, <3>1, OwnStep
  <2>3. CASE t = u /\ Fails(t)
    BY <2>3, EndedByFailure, OwnStep
  <2>4. CASE t = u /\ \E j \in Jobs : Begin(t, j)
    BY <2>4, OwnStep DEF Begin, Goes
  <2> QED
    BY <2>1, <2>2, <2>3, <2>4
<1> QED
  BY <1>1, AgentInvariant, PTL DEF AgentSpec
=============================================================================
