----------------------------- MODULE UsageProofs -----------------------------
(***************************************************************************)
(* Proofs about ProviderConfigUsage: type correctness, and that no config   *)
(* goes over a usage its controller could have counted.                     *)
(***************************************************************************)
EXTENDS ProviderConfigUsage, FiniteSetTheorems, TLAPS

-----------------------------------------------------------------------------
(* The inductive invariant. *)

(* Who is at work knows the config it is at work for. *)
AtWork ==
  /\ keeper.pc # "idle" => keeper.config \in Configs
  /\ \A c \in CRs : worker[c].pc # "idle" => worker[c].ref \in Configs /\ worker[c].reads \in Configs

(* A synced usage is in the informer as it is. *)
CacheSound == \A c \in CRs : c \in usageSynced => usageCache[c] = usages[c]

(* A config that is gone has no finalizer to lose, and nobody has a current *)
(* copy of it.                                                               *)
GoneSound == \A k \in Configs : configs[k].phase = "gone" => ~configs[k].finalizer

FreshSound ==
  /\ \A k \in configSynced : configCache[k] = configs[k]
  /\ keeper.pc # "idle" /\ keeper.fresh => configs[keeper.config].phase = "present"

(* If the count found no user, each usage of the config that is there came to *)
(* be so behind its back, or is one of those it is about to delete.           *)
CountSound ==
  /\ keeper.pc = "finish" => keeper.drop = {}
  /\ keeper.pc \in {"drop", "finish"} /\ keeper.users = 0 =>
       \A c \in CRs : usages[c].config = keeper.config => c \in keeper.missed \cup keeper.drop

TypeInv == TypeOK /\ AtWork

UsageInv == TypeInv /\ CacheSound /\ GoneSound /\ FreshSound /\ CountSound

-----------------------------------------------------------------------------
(* Type correctness. *)

(* However many resources use a config, they can be counted. *)
LEMMA Counted ==
  /\ Cardinality(CRs) \in Nat
  /\ \A S \in SUBSET CRs : /\ Cardinality(S) \in 0 .. Cardinality(CRs)
                           /\ Cardinality(S) = 0 => S = {}
<1>1. Cardinality(CRs) \in Nat
  BY ResourcesAssumption, FS_CardinalityType
<1>2. ASSUME NEW S \in SUBSET CRs
      PROVE  Cardinality(S) \in 0 .. Cardinality(CRs) /\ (Cardinality(S) = 0 => S = {})
  <2>1. IsFiniteSet(S) /\ Cardinality(S) <= Cardinality(CRs)
    BY ResourcesAssumption, FS_Subset
  <2>2. Cardinality(S) \in Nat /\ (Cardinality(S) = 0 => S = {})
    BY <2>1, FS_CardinalityType, FS_EmptySet
  <2> QED
    BY <1>1, <2>1, <2>2
<1> QED
  BY <1>1, <1>2

(* What a reconcile begins and ends with. *)
LEMMA Idle ==
  /\ NoUsage \in Usage /\ NoUsage.config = NoConfig
  /\ KeeperIdle \in Keeper /\ KeeperIdle.pc = "idle"
  /\ WorkerIdle \in Worker /\ WorkerIdle.pc = "idle"
BY Counted DEF NoUsage, Usage, KeeperIdle, Keeper, WorkerIdle, Worker

LEMMA InitTypeInv == Init => TypeInv
<1> SUFFICES ASSUME Init PROVE TypeInv
  OBVIOUS
<1>1. configs \in [Configs -> Config]
  <2>1. [phase |-> "present", finalizer |-> FALSE, deleting |-> FALSE] \in Config
    BY DEF Config
  <2> QED
    BY <2>1 DEF Init
<1>2. resources \in [CRs -> Resource]
  <2>1. ASSUME NEW k \in Configs
        PROVE  [phase |-> "present", ref |-> Default, reads |-> k, finalizer |-> FALSE,
                node |-> FALSE] \in Resource
    BY NamesAssumption DEF Resource
  <2> QED
    BY <2>1 DEF Init
<1> QED
  BY <1>1, <1>2, Idle, BoundsAssumption DEF Init, TypeInv, TypeOK, AtWork

(* The worker of a resource goes on, or gives up. *)
LEMMA WorkerType ==
  ASSUME TypeInv, NEW c \in CRs, worker[c].pc # "idle",
         (\E pc \in {"get", "use"} : SetWorker(c, pc)) \/ Quit(c)
  PROVE  /\ worker' \in [CRs -> Worker]
         /\ \A d \in CRs : worker'[d].pc # "idle" => worker'[d].ref \in Configs /\ worker'[d].reads \in Configs
<1>1. CASE Quit(c)
  BY <1>1, Idle DEF Quit, TypeInv, TypeOK, AtWork
<1>2. ASSUME NEW pc \in {"get", "use"}, SetWorker(c, pc)
      PROVE  /\ worker' \in [CRs -> Worker]
             /\ \A d \in CRs : worker'[d].pc # "idle" => worker'[d].ref \in Configs /\ worker'[d].reads \in Configs
  BY <1>2 DEF SetWorker, TypeInv, TypeOK, AtWork, Worker
<1> QED
  BY <1>1, <1>2

(* A usage is written, with or without a count going on. *)
LEMMA WriteUsageType ==
  ASSUME TypeInv, NEW c \in CRs, NEW u \in Usage, WriteUsage(c, u)
  PROVE  /\ usages' \in [CRs -> Usage] /\ usageSynced' \subseteq CRs
         /\ keeper' \in Keeper /\ keeper'.pc = keeper.pc /\ keeper'.config = keeper.config
BY DEF WriteUsage, TypeInv, TypeOK, Keeper

LEMMA FaultType ==
  ASSUME TypeInv, Fault \/ NoFault
  PROVE  faults' \in 0 .. MaxFaults
BY BoundsAssumption DEF TypeInv, TypeOK, Fault, NoFault

LEMMA TrackType ==
  ASSUME TypeInv, NEW c \in CRs, Track(c)
  PROVE  TypeInv'
<1> DEFINE u == [config |-> worker[c].ref, owned |-> TRUE]
<1>1. worker[c].pc # "idle" /\ ((\E pc \in {"get", "use"} : SetWorker(c, pc)) \/ Quit(c))
      /\ (Fault \/ NoFault)
  BY DEF Track
<1>2. u \in Usage
  BY <1>1 DEF TypeInv, AtWork, Usage
<1>3. WriteUsage(c, u) \/ UNCHANGED <<usages, usageSynced, keeper>>
  BY DEF Track
<1>4. /\ usages' \in [CRs -> Usage] /\ usageSynced' \subseteq CRs
      /\ keeper' \in Keeper /\ keeper'.pc = keeper.pc /\ keeper'.config = keeper.config
  BY <1>2, <1>3, WriteUsageType DEF TypeInv, TypeOK
<1>5. UNCHANGED <<configVars, usageCache, queue, resources, edits>>
  BY DEF Track
<1> QED
  BY <1>1, <1>4, <1>5, WorkerType, FaultType DEF TypeInv, TypeOK, AtWork, configVars

LEMMA GetConfigType ==
  ASSUME TypeInv, NEW c \in CRs, GetConfig(c)
  PROVE  TypeInv'
<1>1. worker[c].pc # "idle" /\ ((\E pc \in {"get", "use"} : SetWorker(c, pc)) \/ Quit(c))
      /\ (Fault \/ NoFault)
  BY DEF GetConfig
<1>2. UNCHANGED <<configVars, usageVars, queue, keeper, resources, edits>>
  BY DEF GetConfig
<1> QED
  BY <1>1, <1>2, WorkerType, FaultType DEF TypeInv, TypeOK, AtWork, configVars, usageVars

LEMMA UseType ==
  ASSUME TypeInv, NEW c \in CRs, Use(c)
  PROVE  TypeInv'
<1>1. worker[c].pc # "idle" /\ Quit(c) /\ (Fault \/ NoFault)
  BY DEF Use
<1>2. UNCHANGED <<configVars, usageVars, queue, keeper, edits>>
  BY DEF Use
<1>3. resources' \in [CRs -> Resource]
  <2>1. \A o \in Resource : Reconciled(o) \in Resource
    BY DEF Resource, Reconciled
  <2> QED
    BY <2>1 DEF Use, TypeInv, TypeOK
<1> QED
  BY <1>1, <1>2, <1>3, WorkerType, FaultType DEF TypeInv, TypeOK, AtWork, configVars, usageVars

LEMMA StartType ==
  ASSUME TypeInv, NEW c \in CRs, StartReconcile(c)
  PROVE  TypeInv'
<1> DEFINE w == [pc |-> "track", ref |-> resources[c].ref, reads |-> resources[c].reads, fresh |-> TRUE]
<1>1. w \in Worker /\ w.ref \in Configs /\ w.reads \in Configs
  BY DEF TypeInv, TypeOK, Resource, Worker
<1>2. worker' = [worker EXCEPT ![c] = w]
      /\ UNCHANGED <<configVars, usageVars, queue, keeper, resources, faults, edits>>
  BY DEF StartReconcile
<1> HIDE DEF w
<1> QED
  BY <1>1, <1>2 DEF TypeInv, TypeOK, AtWork, configVars, usageVars

LEMMA UsageSyncType ==
  ASSUME TypeInv, NEW c \in CRs, UsageSync(c)
  PROVE  TypeInv'
<1>1. Enqueued(usageCache[c], usages[c]) \subseteq Configs
  BY DEF TypeInv, TypeOK, Usage, Enqueued
<1> QED
  BY <1>1 DEF UsageSync, TypeInv, TypeOK, AtWork, configVars

LEMMA GarbageCollectType ==
  ASSUME TypeInv, NEW c \in CRs, GarbageCollect(c)
  PROVE  TypeInv'
BY Idle DEF GarbageCollect, TypeInv, TypeOK, AtWork, configVars

LEMMA UserStepType ==
  ASSUME TypeInv, NEW c \in CRs, UserStep(c)
  PROVE  TypeInv'
<1>1. ASSUME NEW o \in Resource, WriteResource(c, o), edits' \in 0 .. MaxEdits
      PROVE  TypeInv'
  <2>1. /\ worker' \in [CRs -> Worker]
        /\ \A d \in CRs : /\ worker'[d].pc = worker[d].pc /\ worker'[d].ref = worker[d].ref
                          /\ worker'[d].reads = worker[d].reads
    BY <1>1 DEF WriteResource, TypeInv, TypeOK, Worker
  <2> QED
    BY <1>1, <2>1 DEF WriteResource, TypeInv, TypeOK, AtWork, configVars, usageVars
<1>2. CASE EditResource(c)
  <2>1. PICK p \in References(c) : WriteResource(c, [resources[c] EXCEPT !.ref = p[1], !.reads = p[2]])
    BY <1>2 DEF EditResource
  <2>2. [resources[c] EXCEPT !.ref = p[1], !.reads = p[2]] \in Resource
    BY DEF References, TypeInv, TypeOK, Resource
  <2>3. edits' \in 0 .. MaxEdits
    BY <1>2, BoundsAssumption DEF EditResource, TypeInv, TypeOK
  <2> QED
    BY <1>1, <2>1, <2>2, <2>3
<1>3. CASE DeleteResource(c)
  <2> DEFINE o == [resources[c] EXCEPT !.phase = IF resources[c].finalizer THEN "deleting" ELSE "gone"]
  <2>1. o \in Resource
    BY DEF TypeInv, TypeOK, Resource
  <2>2. WriteResource(c, o) /\ edits' \in 0 .. MaxEdits
    BY <1>3 DEF DeleteResource, TypeInv, TypeOK
  <2> QED
    BY <1>1, <2>1, <2>2
<1>4. CASE RestoreUsage(c)
  <2>1. usages' \in [CRs -> Usage]
    BY <1>4 DEF RestoreUsage, TypeInv, TypeOK, Usage
  <2>2. edits' \in 0 .. MaxEdits
    BY <1>4, BoundsAssumption DEF RestoreUsage, TypeInv, TypeOK
  <2> QED
    BY <1>4, <2>1, <2>2 DEF RestoreUsage, TypeInv, TypeOK, AtWork, configVars
<1> QED
  BY <1>2, <1>3, <1>4 DEF UserStep

LEMMA GetFromQueueType ==
  ASSUME TypeInv, NEW k \in Configs, GetFromQueue(k)
  PROVE  TypeInv'
<1> DEFINE m == [KeeperIdle EXCEPT !.pc = "list", !.config = k,
                   !.deleting = configCache[k].deleting, !.fresh = (k \in configSynced)]
<1>1. m \in Keeper /\ m.config = k
  <2>1. configCache[k].deleting \in BOOLEAN
    BY DEF TypeInv, TypeOK, Config
  <2>2. ASSUME NEW d \in BOOLEAN, NEW fr \in BOOLEAN,
               NEW x, x = [KeeperIdle EXCEPT !.pc = "list", !.config = k, !.deleting = d, !.fresh = fr]
        PROVE  x \in Keeper /\ x.config = k
    BY <2>2, Idle DEF Keeper
  <2>3. (k \in configSynced) \in BOOLEAN
    OBVIOUS
  <2> QED
    BY <2>1, <2>2, <2>3
<1>2. keeper' \in Keeper /\ (keeper'.pc # "idle" => keeper'.config \in Configs)
  BY <1>1, Idle DEF GetFromQueue
<1> QED
  BY <1>2 DEF GetFromQueue, TypeInv, TypeOK, AtWork, configVars, usageVars

LEMMA ConfigSyncType ==
  ASSUME TypeInv, NEW k \in Configs, ConfigSync(k)
  PROVE  TypeInv'
BY DEF ConfigSync, Requeue, TypeInv, TypeOK, AtWork, usageVars

LEMMA DeleteConfigType ==
  ASSUME TypeInv, NEW k \in Configs, DeleteConfig(k)
  PROVE  TypeInv'
<1> DEFINE o == IF configs[k].finalizer THEN [configs[k] EXCEPT !.deleting = TRUE]
                                        ELSE [configs[k] EXCEPT !.phase = "gone"]
<1>1. o \in Config
  BY DEF TypeInv, TypeOK, Config
<1>2. WriteConfig(k, o)
  BY DEF DeleteConfig
<1>3. keeper' \in Keeper /\ keeper'.pc = keeper.pc /\ keeper'.config = keeper.config
  BY <1>2 DEF WriteConfig, TypeInv, TypeOK, Keeper
<1> QED
  BY <1>1, <1>2, <1>3 DEF WriteConfig, TypeInv, TypeOK, AtWork, usageVars

LEMMA KeeperStepType ==
  ASSUME TypeInv, KeeperStep
  PROVE  TypeInv'
<1>1. CASE ListUsages
  <2> DEFINE mine == {c \in CRs : usageCache[c].config = keeper.config}
             unowned == {c \in mine : ~usageCache[c].owned}
             m == [keeper EXCEPT !.pc = IF unowned = {} THEN "finish" ELSE "drop",
                     !.users = Cardinality(mine \ unowned), !.drop = unowned,
                     !.missed = CRs \ usageSynced]
  <2>1. Cardinality(mine \ unowned) \in 0 .. Cardinality(CRs) /\ unowned \in SUBSET CRs
    BY Counted
  <2>2. m \in Keeper /\ m.config = keeper.config /\ keeper.pc = "list"
    BY <1>1, <2>1 DEF ListUsages, TypeInv, TypeOK, Keeper
  <2>3. \/ keeper' = m /\ UNCHANGED queue
        \/ keeper' = KeeperIdle /\ Requeue(keeper.config)
    BY <1>1 DEF ListUsages
  <2>4. keeper' \in Keeper /\ (keeper'.pc # "idle" => keeper'.config \in Configs)
    BY <2>2, <2>3, Idle DEF TypeInv, AtWork
  <2>5. queue' \subseteq Configs
    BY <2>2, <2>3 DEF TypeInv, TypeOK, AtWork, Requeue
  <2>6. (Fault \/ NoFault) /\ UNCHANGED <<configVars, usageVars, resources, worker, edits>>
    BY <1>1 DEF ListUsages
  <2> QED
    BY <2>4, <2>5, <2>6, FaultType DEF TypeInv, TypeOK, AtWork, configVars, usageVars
<1>2. CASE DropUsages
  <2>1. \/ /\ \E c \in keeper.drop :
                /\ keeper' = [keeper EXCEPT !.drop = @ \ {c},
                                !.pc = IF keeper.drop = {c} THEN "finish" ELSE "drop"]
                /\ usages' = [usages EXCEPT ![c] = NoUsage] /\ usageSynced' = usageSynced \ {c}
           /\ UNCHANGED queue
        \/ keeper' = KeeperIdle /\ Requeue(keeper.config) /\ UNCHANGED <<usages, usageSynced>>
    BY <1>2 DEF DropUsages
  <2>2. keeper.pc = "drop" /\ (Fault \/ NoFault)
        /\ UNCHANGED <<configVars, usageCache, resources, worker, edits>>
    BY <1>2 DEF DropUsages
  <2>3. keeper' \in Keeper /\ (keeper'.pc # "idle" => keeper'.config \in Configs)
    <3>1. ASSUME NEW c \in CRs, NEW pc \in {"drop", "finish"},
                 keeper' = [keeper EXCEPT !.drop = @ \ {c}, !.pc = pc]
          PROVE  keeper' \in Keeper /\ keeper'.config = keeper.config
      BY <3>1 DEF TypeInv, TypeOK, Keeper
    <3>2. keeper.drop \subseteq CRs /\ keeper.config \in Configs
      BY <2>2 DEF TypeInv, TypeOK, AtWork, Keeper
    <3> QED
      BY <2>1, <3>1, <3>2, Idle
  <2>4. usages' \in [CRs -> Usage] /\ usageSynced' \subseteq CRs
    BY <2>1, Idle DEF TypeInv, TypeOK
  <2>5. queue' \subseteq Configs
    BY <2>1, <2>2 DEF TypeInv, TypeOK, AtWork, Requeue
  <2> QED
    BY <2>2, <2>3, <2>4, <2>5, FaultType DEF TypeInv, TypeOK, AtWork, configVars
<1>3. CASE FinishConfig
  <2> DEFINE k == keeper.config
  <2>1. k \in Configs
    BY <1>3 DEF FinishConfig, TypeInv, AtWork
  <2>2. Kept(k) \in Config
    <3>1. configs[k] \in Config
      BY <2>1 DEF TypeInv, TypeOK
    <3>2. \/ Kept(k) = [configs[k] EXCEPT !.finalizer = TRUE]
          \/ Kept(k) = configs[k]
          \/ Kept(k) = [configs[k] EXCEPT !.finalizer = FALSE, !.phase = "gone"]
      BY DEF Kept
    <3> QED
      BY <3>1, <3>2 DEF Config
  <2>3. /\ \/ configs' = [configs EXCEPT ![k] = Kept(k)] /\ configSynced' \subseteq configSynced
           \/ UNCHANGED <<configs, configSynced>>
        /\ queue' = queue \/ Requeue(k)
        /\ Fault \/ NoFault
    BY <1>3 DEF FinishConfig
  <2>4. keeper' = KeeperIdle /\ UNCHANGED <<configCache, usageVars, resources, worker, edits>>
    BY <1>3 DEF FinishConfig
  <2> HIDE DEF k
  <2>5. /\ configs' \in [Configs -> Config] /\ configSynced' \subseteq Configs
        /\ queue' \subseteq Configs
    BY <2>1, <2>2, <2>3 DEF TypeInv, TypeOK, Requeue
  <2> QED
    BY <2>3, <2>4, <2>5, Idle, FaultType DEF TypeInv, TypeOK, AtWork, usageVars
<1> QED
  BY <1>1, <1>2, <1>3 DEF KeeperStep

LEMMA CrashType ==
  ASSUME TypeInv, CrashRestart
  PROVE  TypeInv'
BY Idle, FaultType DEF CrashRestart, TypeInv, TypeOK, AtWork

LEMMA NextTypeInv == TypeInv /\ [Next]_vars => TypeInv'
<1> SUFFICES ASSUME TypeInv, [Next]_vars PROVE TypeInv'
  OBVIOUS
<1>1. ASSUME NEW c \in CRs, WorkerStep(c)
      PROVE  TypeInv'
  BY <1>1, TrackType, GetConfigType, UseType DEF WorkerStep
<1>2. CASE UNCHANGED vars
  BY <1>2 DEF vars, configVars, usageVars, TypeInv, TypeOK, AtWork
<1> QED
  BY <1>1, <1>2, StartType, UsageSyncType, GarbageCollectType, UserStepType, GetFromQueueType,
     ConfigSyncType, DeleteConfigType, KeeperStepType, CrashType DEF Next

(* What the configs, their usages, the queue, the workers and the controller of *)
(* configs hold is always what the code can put there.                          *)
THEOREM TypeCorrect == Spec => []TypeOK
<1>1. TypeInv => TypeOK
  BY DEF TypeInv
<1> QED
  BY <1>1, InitTypeInv, NextTypeInv, PTL DEF Spec

-----------------------------------------------------------------------------
(* The count. *)

LEMMA InitUsageInv == Init => UsageInv
<1> SUFFICES ASSUME Init PROVE UsageInv
  OBVIOUS
<1>1. CacheSound
  BY DEF Init, CacheSound
<1>2. GoneSound
  BY DEF Init, GoneSound
<1>3. FreshSound
  BY Idle DEF Init, FreshSound
<1>4. CountSound
  BY Idle DEF Init, CountSound
<1> QED
  BY <1>1, <1>2, <1>3, <1>4, InitTypeInv DEF UsageInv

(* Usages only come to be behind the back of the count, or go. *)
UsagesKnown ==
  \A c \in CRs : /\ usages'[c].config # usages[c].config =>
                      usages'[c] = NoUsage \/ c \in keeper'.missed
                 /\ c \in keeper.missed \cup keeper.drop =>
                      c \in keeper'.missed \cup keeper'.drop \/ usages'[c] = NoUsage

(* A step of which the controller of configs knows nothing but that. *)
LEMMA CountGoesOn ==
  ASSUME UsageInv, TypeInv', UsagesKnown,
         keeper'.pc = keeper.pc, keeper'.config = keeper.config,
         keeper'.users = keeper.users, keeper'.drop = keeper.drop
  PROVE  CountSound'
<1>1. keeper.pc = "finish" => keeper'.drop = {}
  BY DEF UsageInv, CountSound
<1>2. ASSUME keeper.pc \in {"drop", "finish"}, keeper.users = 0,
             NEW c \in CRs, usages'[c].config = keeper.config
      PROVE  c \in keeper'.missed \cup keeper'.drop
  <2>1. usages'[c] # NoUsage
    BY <1>2, Idle, NamesAssumption DEF UsageInv, TypeInv, AtWork
  <2>2. CASE usages'[c].config = usages[c].config
    BY <1>2, <2>1, <2>2 DEF UsageInv, CountSound, UsagesKnown
  <2>3. CASE usages'[c].config # usages[c].config
    BY <2>1, <2>3 DEF UsagesKnown
  <2> QED
    BY <2>2, <2>3
<1> QED
  BY <1>1, <1>2 DEF CountSound

LEMMA WriteUsageSound ==
  ASSUME UsageInv, TypeInv', NEW c \in CRs, NEW u \in Usage, WriteUsage(c, u), UNCHANGED <<configVars, usageCache>>
  PROVE  UsageInv'
<1>1. /\ usages' = [usages EXCEPT ![c] = u] /\ usageSynced' = usageSynced \ {c}
      /\ keeper' = IF keeper.pc \in {"drop", "finish"} THEN [keeper EXCEPT !.missed = @ \cup {c}]
                                                        ELSE keeper
  BY DEF WriteUsage
<1>2. keeper \in Keeper
  BY DEF UsageInv, TypeInv, TypeOK
<1>3. CacheSound'
  BY <1>1 DEF UsageInv, TypeInv, TypeOK, CacheSound
<1>4. ASSUME keeper.pc \in {"drop", "finish"}
      PROVE  CountSound'
  <2>1. /\ keeper'.pc = keeper.pc /\ keeper'.config = keeper.config /\ keeper'.drop = keeper.drop
        /\ keeper'.users = keeper.users /\ keeper'.missed = keeper.missed \cup {c}
    BY <1>1, <1>2, <1>4 DEF Keeper
  <2>2. UsagesKnown
    BY <1>1, <2>1 DEF UsagesKnown, UsageInv, TypeInv, TypeOK
  <2> QED
    BY <1>3, <2>1, <2>2, CountGoesOn
<1>5. ASSUME keeper.pc \notin {"drop", "finish"}
      PROVE  CountSound'
  BY <1>1, <1>5 DEF CountSound
<1>6. FreshSound'
  BY <1>1, <1>2 DEF Keeper, UsageInv, FreshSound, configVars
<1> QED
  BY <1>3, <1>4, <1>5, <1>6 DEF UsageInv, GoneSound, configVars

(* Steps that leave configs alone, and with them what is known of those gone. *)
LEMMA TrackSound ==
  ASSUME UsageInv, TypeInv', NEW c \in CRs, Track(c)
  PROVE  UsageInv'
<1> DEFINE u == [config |-> worker[c].ref, owned |-> TRUE]
<1>1. u \in Usage
  BY DEF Track, UsageInv, TypeInv, AtWork, Usage
<1>2. WriteUsage(c, u) \/ UNCHANGED <<usages, usageSynced, keeper>>
  BY DEF Track
<1>3. UNCHANGED <<configVars, usageCache>>
  BY DEF Track
<1>4. CASE WriteUsage(c, u)
  BY <1>1, <1>3, <1>4, WriteUsageSound
<1>5. CASE UNCHANGED <<usages, usageSynced, keeper>>
  BY <1>3, <1>5 DEF UsageInv, CacheSound, GoneSound, FreshSound, CountSound, configVars
<1> QED
  BY <1>2, <1>4, <1>5

(* A reconcile of a config that is over, or has not counted yet. *)
LEMMA NothingCounted ==
  ASSUME keeper'.pc \notin {"drop", "finish"}
  PROVE  CountSound'
BY DEF CountSound

(* Steps that touch neither configs nor usages, nor what is counted. *)
LEMMA ElsewhereSound ==
  ASSUME UsageInv, TypeInv', UNCHANGED <<configVars, usageVars, keeper>>
  PROVE  UsageInv'
BY DEF UsageInv, CacheSound, GoneSound, FreshSound, CountSound, configVars, usageVars

LEMMA GetFromQueueSound ==
  ASSUME UsageInv, TypeInv', NEW k \in Configs, GetFromQueue(k)
  PROVE  UsageInv'
<1> DEFINE m == [KeeperIdle EXCEPT !.pc = "list", !.config = k,
                   !.deleting = configCache[k].deleting, !.fresh = (k \in configSynced)]
<1>1. m.pc = "list" /\ m.config = k /\ m.fresh = (k \in configSynced)
  BY DEF KeeperIdle
<1>2. keeper' = KeeperIdle \/ (keeper' = m /\ configCache[k].phase = "present")
  BY DEF GetFromQueue
<1>3. UNCHANGED <<configVars, usageVars>>
  BY DEF GetFromQueue
<1> HIDE DEF m
<1>4. FreshSound'
  BY <1>1, <1>2, <1>3, Idle DEF UsageInv, FreshSound, configVars
<1>5. CountSound'
  BY <1>1, <1>2, Idle, NothingCounted
<1> QED
  BY <1>3, <1>4, <1>5 DEF UsageInv, CacheSound, GoneSound, configVars, usageVars

LEMMA ConfigSyncSound ==
  ASSUME UsageInv, TypeInv', NEW k \in Configs, ConfigSync(k)
  PROVE  UsageInv'
<1>1. FreshSound'
  BY DEF ConfigSync, UsageInv, TypeInv, TypeOK, FreshSound
<1> QED
  BY <1>1 DEF ConfigSync, UsageInv, CacheSound, GoneSound, CountSound, usageVars

LEMMA CrashSound ==
  ASSUME UsageInv, TypeInv', CrashRestart
  PROVE  UsageInv'
<1>1. CountSound'
  BY Idle, NothingCounted DEF CrashRestart
<1> QED
  BY <1>1, Idle DEF CrashRestart, UsageInv, CacheSound, GoneSound, FreshSound

LEMMA UsageSyncSound ==
  ASSUME UsageInv, TypeInv', NEW c \in CRs, UsageSync(c)
  PROVE  UsageInv'
<1>1. CacheSound'
  BY DEF UsageSync, UsageInv, TypeInv, TypeOK, CacheSound
<1>2. GoneSound' /\ FreshSound' /\ CountSound'
  BY DEF UsageSync, UsageInv, GoneSound, FreshSound, CountSound, configVars
<1> QED
  BY <1>1, <1>2 DEF UsageInv

LEMMA GarbageCollectSound ==
  ASSUME UsageInv, TypeInv', NEW c \in CRs, GarbageCollect(c)
  PROVE  UsageInv'
<1>1. CacheSound'
  BY DEF GarbageCollect, UsageInv, TypeInv, TypeOK, CacheSound
<1>2. UsagesKnown
  BY DEF GarbageCollect, UsageInv, TypeInv, TypeOK, UsagesKnown
<1>3. CountSound'
  BY <1>2, CountGoesOn DEF GarbageCollect
<1> QED
  BY <1>1, <1>3 DEF GarbageCollect, UsageInv, GoneSound, FreshSound, configVars

LEMMA RestoreUsageSound ==
  ASSUME UsageInv, TypeInv', NEW c \in CRs, RestoreUsage(c)
  PROVE  UsageInv'
<1>1. CacheSound'
  BY DEF RestoreUsage, UsageInv, TypeInv, TypeOK, CacheSound
<1>2. \A d \in CRs : usages'[d].config = usages[d].config
  BY DEF RestoreUsage, UsageInv, TypeInv, TypeOK, Usage
<1>3. UsagesKnown
  BY <1>2 DEF RestoreUsage, UsagesKnown
<1>4. CountSound'
  BY <1>3, CountGoesOn DEF RestoreUsage
<1> QED
  BY <1>1, <1>4 DEF RestoreUsage, UsageInv, GoneSound, FreshSound, configVars

LEMMA DeleteConfigSound ==
  ASSUME UsageInv, TypeInv', NEW k \in Configs, DeleteConfig(k)
  PROVE  UsageInv'
<1>1. PICK o \in Config : WriteConfig(k, o) /\ (o.phase = "gone" => ~o.finalizer)
  <2> DEFINE o == IF configs[k].finalizer THEN [configs[k] EXCEPT !.deleting = TRUE]
                                          ELSE [configs[k] EXCEPT !.phase = "gone"]
  <2>1. o \in Config /\ (o.phase = "gone" => ~o.finalizer)
    BY DEF DeleteConfig, UsageInv, TypeInv, TypeOK, Config
  <2>2. WriteConfig(k, o)
    BY DEF DeleteConfig
  <2> QED
    BY <2>1, <2>2
<1>2. GoneSound'
  BY <1>1 DEF WriteConfig, UsageInv, TypeInv, TypeOK, GoneSound
<1>3. /\ keeper'.pc = keeper.pc /\ keeper'.config = keeper.config /\ keeper'.drop = keeper.drop
      /\ keeper'.users = keeper.users /\ keeper'.missed = keeper.missed
  BY <1>1 DEF WriteConfig, UsageInv, TypeInv, TypeOK, Keeper
<1>4. UNCHANGED usageVars
  BY <1>1 DEF WriteConfig
<1>5. CacheSound' /\ UsagesKnown
  BY <1>3, <1>4 DEF usageVars, UsageInv, CacheSound, UsagesKnown
<1>6. CountSound'
  BY <1>3, <1>5, CountGoesOn
<1>7. FreshSound'
  <2>1. /\ configs' = [configs EXCEPT ![k] = o] /\ configSynced' = configSynced \ {k}
        /\ configCache' = configCache /\ (keeper.config = k => ~keeper'.fresh)
        /\ (keeper'.fresh => keeper.fresh)
    BY <1>1 DEF WriteConfig, UsageInv, TypeInv, TypeOK, Keeper
  <2> QED
    BY <1>3, <2>1 DEF UsageInv, TypeInv, TypeOK, AtWork, FreshSound
<1> QED
  BY <1>2, <1>5, <1>6, <1>7 DEF UsageInv

LEMMA KeeperStepSound ==
  ASSUME UsageInv, TypeInv', KeeperStep
  PROVE  UsageInv'
<1>1. CASE ListUsages
  <2> DEFINE mine == {c \in CRs : usageCache[c].config = keeper.config}
             unowned == {c \in mine : ~usageCache[c].owned}
             m == [keeper EXCEPT !.pc = IF unowned = {} THEN "finish" ELSE "drop",
                     !.users = Cardinality(mine \ unowned), !.drop = unowned,
                     !.missed = CRs \ usageSynced]
  <2>1. UNCHANGED <<configVars, usageVars>>
    BY <1>1 DEF ListUsages
  <2>2. CASE keeper' = KeeperIdle
    BY <2>1, <2>2, Idle, NothingCounted DEF UsageInv, CacheSound, GoneSound, FreshSound, configVars, usageVars
  <2>3. CASE keeper' = m
    <3>1. /\ keeper'.pc = IF unowned = {} THEN "finish" ELSE "drop"
          /\ keeper'.config = keeper.config /\ keeper'.users = Cardinality(mine \ unowned)
          /\ keeper'.drop = unowned /\ keeper'.missed = CRs \ usageSynced
          /\ keeper'.fresh = keeper.fresh /\ keeper.pc # "idle"
      BY <1>1, <2>3 DEF ListUsages, UsageInv, TypeInv, TypeOK, Keeper
    <3>2. ASSUME keeper'.users = 0, NEW c \in CRs, usages[c].config = keeper.config, c \in usageSynced
          PROVE  c \in unowned
      <4>1. mine \ unowned = {}
        BY <3>1, <3>2, Counted
      <4>2. c \in mine
        BY <3>2 DEF UsageInv, CacheSound
      <4> QED
        BY <4>1, <4>2
    <3>3. CountSound'
      BY <2>1, <3>1, <3>2 DEF CountSound, usageVars
    <3> QED
      BY <2>1, <3>1, <3>3 DEF UsageInv, CacheSound, GoneSound, FreshSound, configVars, usageVars
  <2> QED
    BY <1>1, <2>2, <2>3 DEF ListUsages
<1>2. CASE DropUsages
  <2>1. keeper.pc = "drop" /\ UNCHANGED <<configVars, usageCache>>
    BY <1>2 DEF DropUsages
  <2>2. CASE keeper' = KeeperIdle /\ UNCHANGED <<usages, usageSynced>>
    BY <2>1, <2>2, Idle, NothingCounted DEF UsageInv, CacheSound, GoneSound, FreshSound, configVars
  <2>3. ASSUME NEW c \in keeper.drop,
               keeper' = [keeper EXCEPT !.drop = @ \ {c},
                            !.pc = IF keeper.drop = {c} THEN "finish" ELSE "drop"],
               usages' = [usages EXCEPT ![c] = NoUsage], usageSynced' = usageSynced \ {c}
        PROVE  UsageInv'
    <3>1. /\ keeper'.pc = IF keeper.drop = {c} THEN "finish" ELSE "drop"
          /\ keeper'.config = keeper.config /\ keeper'.users = keeper.users
          /\ keeper'.drop = keeper.drop \ {c} /\ keeper'.missed = keeper.missed
          /\ c \in CRs /\ keeper'.fresh = keeper.fresh
      BY <2>3 DEF UsageInv, TypeInv, TypeOK, Keeper
    <3>2. CacheSound'
      BY <2>1, <2>3, <3>1 DEF UsageInv, TypeInv, TypeOK, CacheSound
    <3>3. keeper.config # NoConfig
      BY <2>1, NamesAssumption DEF UsageInv, TypeInv, AtWork
    <3>4. ASSUME keeper.users = 0, NEW d \in CRs, usages'[d].config = keeper.config
          PROVE  d \in keeper'.missed \cup keeper'.drop
      <4>1. d # c /\ usages[d].config = keeper.config
        BY <2>3, <3>1, <3>3, <3>4, Idle DEF UsageInv, TypeInv, TypeOK
      <4> QED
        BY <2>1, <3>1, <3>4, <4>1 DEF UsageInv, CountSound
    <3>5. CountSound'
      BY <3>1, <3>4 DEF CountSound
    <3> QED
      BY <2>1, <3>1, <3>2, <3>5 DEF UsageInv, GoneSound, FreshSound, configVars
  <2> QED
    BY <1>2, <2>2, <2>3 DEF DropUsages
<1>3. CASE FinishConfig
  <2> DEFINE k == keeper.config
  <2>1. k \in Configs /\ keeper' = KeeperIdle /\ UNCHANGED usageVars
    BY <1>3 DEF FinishConfig, UsageInv, TypeInv, AtWork
  <2> HIDE DEF k
  <2>2. ASSUME configs' = [configs EXCEPT ![k] = Kept(k)], keeper.fresh
        PROVE  GoneSound'
    <3>1. configs[k] \in Config /\ configs[k].phase = "present"
      BY <1>3, <2>1, <2>2 DEF k, FinishConfig, UsageInv, TypeInv, TypeOK, FreshSound
    <3>2. Kept(k).phase = "gone" => ~Kept(k).finalizer
      BY <3>1 DEF Kept, Config
    <3> QED
      BY <2>1, <2>2, <3>2 DEF UsageInv, TypeInv, TypeOK, GoneSound
  <2>3. /\ \/ keeper.fresh /\ configs' = [configs EXCEPT ![k] = Kept(k)]
              /\ configSynced' = IF Kept(k) = configs[k] THEN configSynced ELSE configSynced \ {k}
           \/ UNCHANGED <<configs, configSynced>>
        /\ UNCHANGED configCache
    BY <1>3 DEF k, FinishConfig
  <2>4. GoneSound'
    BY <2>2, <2>3 DEF UsageInv, GoneSound
  <2>5. \A j \in configSynced' : configCache'[j] = configs'[j]
    BY <2>1, <2>3 DEF UsageInv, TypeInv, TypeOK, FreshSound
  <2>6. FreshSound' /\ CacheSound' /\ CountSound'
    BY <2>1, <2>5, Idle, NothingCounted DEF UsageInv, FreshSound, CacheSound, usageVars
  <2> QED
    BY <2>4, <2>6 DEF UsageInv
<1> QED
  BY <1>1, <1>2, <1>3 DEF KeeperStep


LEMMA UserStepSound ==
  ASSUME UsageInv, TypeInv', NEW c \in CRs, UserStep(c)
  PROVE  UsageInv'
<1>1. CASE EditResource(c) \/ DeleteResource(c)
  <2>1. UNCHANGED <<configVars, usageVars, keeper>>
    BY <1>1 DEF EditResource, DeleteResource, WriteResource
  <2> QED
    BY <2>1, ElsewhereSound
<1> QED
  BY <1>1, RestoreUsageSound DEF UserStep

LEMMA NextUsageInv == UsageInv /\ [Next]_vars => UsageInv'
<1> SUFFICES ASSUME UsageInv, [Next]_vars PROVE UsageInv'
  OBVIOUS
<1> USE DEF UsageInv
<1>1. TypeInv'
  BY NextTypeInv
<1> HIDE DEF UsageInv
<1>2. ASSUME NEW c \in CRs, StartReconcile(c) \/ WorkerStep(c)
      PROVE  UsageInv'
  <2>1. CASE Track(c)
    BY <1>1, <2>1, TrackSound
  <2>2. CASE StartReconcile(c) \/ GetConfig(c) \/ Use(c)
    BY <1>1, <2>2, ElsewhereSound DEF StartReconcile, GetConfig, Use
  <2> QED
    BY <1>2, <2>1, <2>2 DEF WorkerStep
<1>3. CASE UNCHANGED vars
  BY <1>1, <1>3, ElsewhereSound DEF vars
<1> QED
  BY <1>1, <1>2, <1>3, UsageSyncSound, GarbageCollectSound, UserStepSound, GetFromQueueSound,
     ConfigSyncSound, DeleteConfigSound, KeeperStepSound, CrashSound DEF Next

-----------------------------------------------------------------------------
(* The property. *)

(* Who lets go of a config is its controller, having found no user. *)
LEMMA GoesUncounted ==
  ASSUME UsageInv, [Next]_vars, NEW k \in Configs, Goes(k)
  PROVE  keeper.pc = "finish" /\ keeper.config = k /\ keeper.users = 0
<1>1. configs'[k] # configs[k]
  BY DEF Goes, UsageInv, GoneSound
<1>2. CASE FinishConfig
  <2> DEFINE j == keeper.config
  <2>1. keeper.pc = "finish" /\ j \in Configs /\ keeper.users \in Nat
    BY <1>2, Counted DEF FinishConfig, UsageInv, TypeInv, TypeOK, AtWork, Keeper
  <2>2. configs' = [configs EXCEPT ![j] = Kept(j)]
    BY <1>1, <1>2 DEF FinishConfig
  <2> HIDE DEF j
  <2>3. j = k /\ Kept(k).phase = "gone"
    BY <1>1, <2>1, <2>2 DEF Goes, UsageInv, TypeInv, TypeOK
  <2>4. configs[k] \in Config /\ configs[k].phase # "gone"
    BY DEF Goes, UsageInv, TypeInv, TypeOK, GoneSound
  <2>5. ~(keeper.users > 0)
    BY <2>3, <2>4 DEF Kept, Config
  <2> QED
    BY <2>1, <2>3, <2>5 DEF j
<1>3. ASSUME NEW j \in Configs, DeleteConfig(j)
      PROVE  FALSE
  BY <1>1, <1>3 DEF DeleteConfig, WriteConfig, Goes, UsageInv, TypeInv, TypeOK, Config
<1>4. ASSUME configs' = configs
      PROVE  FALSE
  BY <1>1, <1>4
<1>5. CASE UNCHANGED vars
  BY <1>4, <1>5 DEF vars, configVars
<1>6. ASSUME NEW c \in CRs, StartReconcile(c) \/ WorkerStep(c) \/ UsageSync(c) \/ GarbageCollect(c)
      PROVE  FALSE
  BY <1>4, <1>6 DEF StartReconcile, WorkerStep, Track, GetConfig, Use, UsageSync, GarbageCollect,
     configVars
<1>7. ASSUME NEW c \in CRs, UserStep(c)
      PROVE  FALSE
  BY <1>4, <1>7 DEF UserStep, EditResource, DeleteResource, WriteResource, RestoreUsage, configVars
<1>8. ASSUME NEW j \in Configs, GetFromQueue(j) \/ ConfigSync(j)
      PROVE  FALSE
  BY <1>4, <1>8 DEF GetFromQueue, ConfigSync, configVars
<1>9. CASE ListUsages \/ DropUsages
  BY <1>4, <1>9 DEF ListUsages, DropUsages, configVars
<1>10. CASE CrashRestart
  BY <1>4, <1>10 DEF CrashRestart
<1> QED
  BY <1>2, <1>3, <1>5, <1>6, <1>7, <1>8, <1>9, <1>10 DEF Next, KeeperStep

LEMMA StepCounts ==
  ASSUME UsageInv, [Next]_vars, NEW k \in Configs, NEW c \in CRs, Goes(k), usages[c].config = k
  PROVE  c \in keeper.missed
<1>1. keeper.pc = "finish" /\ keeper.config = k /\ keeper.users = 0
  BY GoesUncounted
<1> QED
  BY <1>1 DEF UsageInv, CountSound

(* The controller of configs lets go of a config only if each usage of it was *)
(* written after the count, or so shortly before that the informer did not    *)
(* show it: stale caches, refused and failed writes, restored usages and      *)
(* restarts make no other usage be overlooked.                                *)
THEOREM CountHolds == Spec => CountedConfigStays
<1>1. UsageInv /\ [Next]_vars =>
        \A k \in Configs, c \in CRs : Goes(k) /\ usages[c].config = k => c \in keeper.missed
  BY StepCounts
<1>2. UsageInv /\ [Next]_vars =>
        [\A k \in Configs, c \in CRs : Goes(k) /\ usages[c].config = k => c \in keeper.missed]_vars
  BY <1>1
<1> QED
  BY <1>2, InitUsageInv, NextUsageInv, PTL DEF Spec, CountedConfigStays

=============================================================================
