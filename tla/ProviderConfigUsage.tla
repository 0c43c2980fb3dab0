------------------------- MODULE ProviderConfigUsage -------------------------
(***************************************************************************)
(* Who may still need a ProviderConfig.  The Connect of every controller     *)
(* tracks, before it reads a config, that its resource uses it: a            *)
(* ProviderConfigUsage object, named after the resource and labelled with    *)
(* the config of its providerConfigRef.  The controller of ProviderConfigs   *)
(* puts an in-use finalizer on each config and, when a config is deleted,    *)
(* keeps the finalizer as long as it counts usages.                          *)
(*                                                                          *)
(* Everybody reads through informer caches that lag behind the API server,  *)
(* and the config controller works only when something is in its queue: a   *)
(* config, or the config of a usage, that the informer saw change.          *)
(*                                                                          *)
(* The resources here are of different kinds, so that each has a worker of   *)
(* its own.  What a reconcile does once it is connected is ManagedReconciler; *)
(* here it is whether a node is made, deleted, or found.  A resource version *)
(* is abstracted to the comparison it serves, as there.                     *)
(***************************************************************************)
EXTENDS Naturals, FiniteSets

CONSTANTS
  Configs,    \* names of the ProviderConfigs
  CRs,        \* the managed resources
  Users,      \* those of kind User
  Default,    \* the config a providerConfigRef that is left out refers to
  NoConfig,   \* no config
  MaxFaults,  \* bound: failed calls and crashes
  MaxEdits    \* bound: edits of a spec, usages restored without their owner

ASSUME NamesAssumption == NoConfig \notin Configs /\ Default \in Configs /\ Users \subseteq CRs
ASSUME ResourcesAssumption == IsFiniteSet(CRs)
ASSUME BoundsAssumption == MaxFaults \in Nat /\ MaxEdits \in Nat

VARIABLES
  configs,      \* ProviderConfigs in the API server
  configCache,  \* ... in the informer
  configSynced, \* those the informer has the latest version of
  usages,       \* ProviderConfigUsages in the API server, by resource
  usageCache,   \* ... in the informer
  usageSynced,  \* those the informer has the latest version of
  queue,        \* configs that wait for their controller
  keeper,       \* the worker of the config controller
  resources,    \* managed resources in the API server, and whether they have a node
  worker,       \* for each resource, its reconcile
  faults,       \* faults so far
  edits         \* edits so far

configVars == <<configs, configCache, configSynced>>
usageVars == <<usages, usageCache, usageSynced>>
vars == <<configVars, usageVars, queue, keeper, resources, worker, faults, edits>>

-----------------------------------------------------------------------------
Config == [phase: {"present", "gone"}, finalizer: BOOLEAN, deleting: BOOLEAN]

(* config is NoConfig where there is no usage; owned: it has its owner reference. *)
Usage == [config: Configs \cup {NoConfig}, owned: BOOLEAN]
NoUsage == [config |-> NoConfig, owned |-> FALSE]

(* ref is providerConfigRef; Connect reads the config named by `reads', which *)
(* is providerConfigRef too, but for a User the deprecated providerRef.       *)
Resource == [phase: {"present", "deleting", "gone"}, ref: Configs, reads: Configs,
             finalizer: BOOLEAN, node: BOOLEAN]

(* The pairs of references a resource may have; only a User has two that may differ. *)
References(c) == {p \in Configs \X Configs : c \in Users \/ p[1] = p[2]}

(* missed is history: the resources whose usage changed since it was counted, *)
(* or was not in the cache as it is.                                          *)
Keeper == [pc: {"idle", "list", "drop", "finish"}, config: Configs \cup {NoConfig},
           deleting: BOOLEAN, fresh: BOOLEAN, users: 0 .. Cardinality(CRs), drop: SUBSET CRs,
           missed: SUBSET CRs]

KeeperIdle == [pc |-> "idle", config |-> NoConfig, deleting |-> FALSE, fresh |-> FALSE,
               users |-> 0, drop |-> {}, missed |-> {}]

(* The references of its copy, and whether that is of the latest version. *)
Worker == [pc: {"idle", "track", "get", "use"}, ref: Configs \cup {NoConfig},
           reads: Configs \cup {NoConfig}, fresh: BOOLEAN]
WorkerIdle == [pc |-> "idle", ref |-> NoConfig, reads |-> NoConfig, fresh |-> FALSE]

(* Configs and resources have just been applied, with providerConfigRef left out. *)
Init ==
  /\ configs = [k \in Configs |-> [phase |-> "present", finalizer |-> FALSE, deleting |-> FALSE]]
  /\ configCache = configs /\ configSynced = Configs
  /\ usages = [c \in CRs |-> NoUsage]
  /\ usageCache = usages /\ usageSynced = CRs
  /\ queue = Configs
  /\ keeper = KeeperIdle
  /\ resources \in [CRs -> {[phase |-> "present", ref |-> Default, reads |-> k,
                            finalizer |-> FALSE, node |-> FALSE] : k \in Configs}]
  /\ \A c \in CRs : <<Default, resources[c].reads>> \in References(c)
  /\ worker = [c \in CRs |-> WorkerIdle]
  /\ faults = 0 /\ edits = 0

NoFault == UNCHANGED faults
Fault == faults < MaxFaults /\ faults' = faults + 1

-----------------------------------------------------------------------------
(* Connect. *)

SetWorker(c, pc) == worker' = [worker EXCEPT ![c].pc = pc]
Quit(c) == worker' = [worker EXCEPT ![c] = WorkerIdle]

StartReconcile(c) ==
  /\ worker[c].pc = "idle"
  /\ resources[c].phase \in {"present", "deleting"}
  /\ worker' = [worker EXCEPT ![c] = [pc |-> "track", ref |-> resources[c].ref,
                                      reads |-> resources[c].reads, fresh |-> TRUE]]
  /\ UNCHANGED <<configVars, usageVars, queue, keeper, resources, faults, edits>>

(* A write of a usage; a count that is over has not seen it. *)
WriteUsage(c, u) ==
  /\ usages' = [usages EXCEPT ![c] = u]
  /\ usageSynced' = usageSynced \ {c}
  /\ keeper' = IF keeper.pc \in {"drop", "finish"} THEN [keeper EXCEPT !.missed = @ \cup {c}]
                                                    ELSE keeper

(* The write Track makes, for what the cache shows: the creation is refused *)
(* where a usage exists, the update where the cached copy is out of date.   *)
Accepted(c) == IF usageCache[c] = NoUsage THEN usages[c] = NoUsage ELSE c \in usageSynced

(* Mutant: a usage that is there is left as it is. *)
TrackOnce(c) ==
  LET u == [config |-> worker[c].ref, owned |-> TRUE] IN
  /\ worker[c].pc = "track"
  /\ \/ /\ usageCache[c] = NoUsage /\ usages[c] = NoUsage
        /\ WriteUsage(c, u) /\ SetWorker(c, "get") /\ NoFault
     \/ /\ usageCache[c] # NoUsage
        /\ SetWorker(c, "get") /\ NoFault /\ UNCHANGED <<usages, usageSynced, keeper>>
     \/ /\ usageCache[c] = NoUsage /\ usages[c] # NoUsage
        /\ Quit(c) /\ NoFault /\ UNCHANGED <<usages, usageSynced, keeper>>
  /\ UNCHANGED <<configVars, usageCache, queue, resources, edits>>

(* Track: create or update the usage.  An update that would not change the   *)
(* config is not allowed, and Track takes that for a success.                *)
Track(c) ==
  LET u == [config |-> worker[c].ref, owned |-> TRUE] IN
  /\ worker[c].pc = "track"
  /\ \/ /\ usageCache[c].config = worker[c].ref
        /\ SetWorker(c, "get") /\ NoFault /\ UNCHANGED <<usages, usageSynced, keeper>>
     \/ /\ usageCache[c].config # worker[c].ref /\ Accepted(c)
        /\ WriteUsage(c, u)
        /\ (SetWorker(c, "get") /\ NoFault) \/ (Quit(c) /\ Fault)
     \/ /\ usageCache[c].config # worker[c].ref /\ ~Accepted(c)
        /\ Quit(c) /\ NoFault /\ UNCHANGED <<usages, usageSynced, keeper>>
     \/ Quit(c) /\ Fault /\ UNCHANGED <<usages, usageSynced, keeper>>
  /\ UNCHANGED <<configVars, usageCache, queue, resources, edits>>

(* Mutant: no new connection to a config that is going. *)
GetLivingConfig(c) ==
  /\ worker[c].pc = "get"
  /\ LET k == configCache[worker[c].reads]
     IN  IF k.phase = "present" /\ ~k.deleting THEN SetWorker(c, "use") ELSE Quit(c)
  /\ UNCHANGED <<configVars, usageVars, queue, keeper, resources, faults, edits>>

(* The config is read, and its credentials, which may fail. *)
GetConfig(c) ==
  /\ worker[c].pc = "get"
  /\ \/ configCache[worker[c].reads].phase = "present" /\ SetWorker(c, "use") /\ NoFault
     \/ configCache[worker[c].reads].phase # "present" /\ Quit(c) /\ NoFault
     \/ Quit(c) /\ Fault
  /\ UNCHANGED <<configVars, usageVars, queue, keeper, resources, edits>>

(* What the rest of a reconcile makes of a resource and its node: a deleted  *)
(* one loses first the node, then the finalizer; another one gets both. A    *)
(* stale copy gets neither: the write of the finalizer is refused.           *)
Reconciled(o) ==
  IF o.phase = "deleting" THEN IF o.node THEN [o EXCEPT !.node = FALSE]
                                         ELSE [o EXCEPT !.finalizer = FALSE, !.phase = "gone"]
  ELSE [o EXCEPT !.finalizer = TRUE, !.node = TRUE]

Use(c) ==
  /\ worker[c].pc = "use"
  /\ Quit(c)
  /\ \/ resources' = [resources EXCEPT ![c] = IF worker[c].fresh THEN Reconciled(@) ELSE @]
        /\ NoFault
     \/ Fault /\ UNCHANGED resources
  /\ UNCHANGED <<configVars, usageVars, queue, keeper, edits>>

-----------------------------------------------------------------------------
(* Reconcile of a ProviderConfig. *)

Requeue(k) == queue' = queue \cup {k}

GetFromQueue(k) ==
  /\ keeper.pc = "idle"
  /\ k \in queue
  /\ queue' = queue \ {k}
  /\ keeper' = IF configCache[k].phase # "present" THEN KeeperIdle
               ELSE [KeeperIdle EXCEPT !.pc = "list", !.config = k,
                       !.deleting = configCache[k].deleting, !.fresh = (k \in configSynced)]
  /\ UNCHANGED <<configVars, usageVars, resources, worker, faults, edits>>

(* The usages the cache has of this config are counted; those without an *)
(* owner are to be deleted and do not count.                             *)
ListUsages ==
  LET mine    == {c \in CRs : usageCache[c].config = keeper.config}
      unowned == {c \in mine : ~usageCache[c].owned}
  IN
  /\ keeper.pc = "list"
  /\ \/ /\ keeper' = [keeper EXCEPT !.pc = IF unowned = {} THEN "finish" ELSE "drop",
                        !.users = Cardinality(mine \ unowned), !.drop = unowned,
                        !.missed = CRs \ usageSynced]
        /\ NoFault /\ UNCHANGED queue
     \/ Fault /\ keeper' = KeeperIdle /\ Requeue(keeper.config)
  /\ UNCHANGED <<configVars, usageVars, resources, worker, edits>>

(* A deletion by name takes whatever usage has that name now. *)
DropUsages ==
  /\ keeper.pc = "drop"
  /\ \/ \E c \in keeper.drop :
          /\ keeper' = [keeper EXCEPT !.drop = @ \ {c},
                          !.pc = IF keeper.drop = {c} THEN "finish" ELSE "drop"]
          /\ usages' = [usages EXCEPT ![c] = NoUsage]
          /\ usageSynced' = usageSynced \ {c}
          /\ NoFault /\ UNCHANGED queue
     \/ /\ Fault /\ keeper' = KeeperIdle /\ Requeue(keeper.config)
        /\ UNCHANGED <<usages, usageSynced>>
  /\ UNCHANGED <<configVars, usageCache, resources, worker, edits>>

(* Mutant: off by one. *)
KeptForSeveral(k) ==
  IF ~keeper.deleting THEN [configs[k] EXCEPT !.finalizer = TRUE]
  ELSE IF keeper.users > 1 THEN configs[k]
  ELSE [configs[k] EXCEPT !.finalizer = FALSE, !.phase = "gone"]

(* What becomes of the config: its deletion waits for its users, or it ends; *)
(* a config that is not deleted is kept by the finalizer.                    *)
Kept(k) ==
  IF ~keeper.deleting THEN [configs[k] EXCEPT !.finalizer = TRUE]
  ELSE IF keeper.users > 0 THEN configs[k]
  ELSE [configs[k] EXCEPT !.finalizer = FALSE, !.phase = "gone"]

(* The update of the config, with that of its status: a stale copy is       *)
(* refused and tried again.  That a status with another number of users     *)
(* makes a new version, and so one look more at the config, is left out.    *)
FinishConfig ==
  LET k == keeper.config
      written == /\ configs' = [configs EXCEPT ![k] = Kept(k)]
                 /\ configSynced' = IF Kept(k) = configs[k] THEN configSynced
                                                           ELSE configSynced \ {k}
  IN
  /\ keeper.pc = "finish"
  /\ keeper' = KeeperIdle
  /\ \/ keeper.fresh /\ written /\ NoFault /\ UNCHANGED queue
     \/ keeper.fresh /\ written /\ Fault /\ Requeue(k)
     \/ ~keeper.fresh /\ Requeue(k) /\ NoFault /\ UNCHANGED <<configs, configSynced>>
     \/ Fault /\ Requeue(k) /\ UNCHANGED <<configs, configSynced>>
  /\ UNCHANGED <<configCache, usageVars, resources, worker, edits>>

-----------------------------------------------------------------------------
(* The informers, which fill the queue, and what follows of itself. *)

ConfigSync(k) ==
  /\ k \notin configSynced
  /\ configCache' = [configCache EXCEPT ![k] = configs[k]]
  /\ configSynced' = configSynced \cup {k}
  /\ Requeue(k)
  /\ UNCHANGED <<configs, usageVars, keeper, resources, worker, faults, edits>>

(* Mutants: only the new one; also that of a usage that is not there. *)
EnqueuedNew(old, new) == {new.config} \ {NoConfig}
EnqueuedAny(old, new) == {old.config, new.config}

(* EnqueueRequestForProviderConfig: the config the usage had and the one it has. *)
Enqueued(old, new) == {old.config, new.config} \ {NoConfig}

UsageSync(c) ==
  /\ c \notin usageSynced
  /\ usageCache' = [usageCache EXCEPT ![c] = usages[c]]
  /\ usageSynced' = usageSynced \cup {c}
  /\ queue' = queue \cup Enqueued(usageCache[c], usages[c])
  /\ UNCHANGED <<configVars, usages, keeper, resources, worker, faults, edits>>

(* The usage goes with the resource that owns it. *)
GarbageCollect(c) ==
  /\ resources[c].phase = "gone" /\ usages[c].owned
  /\ usages' = [usages EXCEPT ![c] = NoUsage]
  /\ usageSynced' = usageSynced \ {c}
  /\ UNCHANGED <<configVars, usageCache, queue, keeper, resources, worker, faults, edits>>

CrashRestart ==
  /\ Fault
  /\ configCache' = configs /\ configSynced' = Configs
  /\ usageCache' = usages /\ usageSynced' = CRs
  /\ queue' = {k \in Configs : configs[k].phase = "present"}
  /\ keeper' = KeeperIdle
  /\ worker' = [c \in CRs |-> WorkerIdle]
  /\ UNCHANGED <<configs, usages, resources, edits>>

-----------------------------------------------------------------------------
(* The people. *)

WriteConfig(k, o) ==
  /\ configs' = [configs EXCEPT ![k] = o]
  /\ configSynced' = configSynced \ {k}
  /\ keeper' = IF keeper.config = k THEN [keeper EXCEPT !.fresh = FALSE] ELSE keeper
  /\ UNCHANGED <<configCache, usageVars, queue, resources, worker, faults, edits>>

(* Without a finalizer the config goes at once. *)
DeleteConfig(k) ==
  /\ configs[k].phase = "present" /\ ~configs[k].deleting
  /\ WriteConfig(k, IF configs[k].finalizer THEN [configs[k] EXCEPT !.deleting = TRUE]
                                            ELSE [configs[k] EXCEPT !.phase = "gone"])

(* A write of a resource: the worker's copy is no longer current. *)
WriteResource(c, o) ==
  /\ resources' = [resources EXCEPT ![c] = o]
  /\ worker' = [worker EXCEPT ![c].fresh = FALSE]
  /\ UNCHANGED <<configVars, usageVars, queue, keeper, faults>>

EditResource(c) ==
  /\ resources[c].phase = "present"
  /\ edits < MaxEdits /\ edits' = edits + 1
  /\ \E p \in References(c) \ {<<resources[c].ref, resources[c].reads>>} :
       WriteResource(c, [resources[c] EXCEPT !.ref = p[1], !.reads = p[2]])

DeleteResource(c) ==
  /\ resources[c].phase = "present"
  /\ WriteResource(c, [resources[c] EXCEPT !.phase = IF resources[c].finalizer
                                                     THEN "deleting" ELSE "gone"])
  /\ UNCHANGED edits

(* A restored backup: the usage is there, without its owner. *)
RestoreUsage(c) ==
  /\ usages[c].owned
  /\ edits < MaxEdits /\ edits' = edits + 1
  /\ usages' = [usages EXCEPT ![c].owned = FALSE]
  /\ usageSynced' = usageSynced \ {c}
  /\ UNCHANGED <<configVars, usageCache, queue, keeper, resources, worker, faults>>

-----------------------------------------------------------------------------
WorkerStep(c) == Track(c) \/ GetConfig(c) \/ Use(c)
KeeperStep == ListUsages \/ DropUsages \/ FinishConfig
UserStep(c) == EditResource(c) \/ DeleteResource(c) \/ RestoreUsage(c)

Next ==
  \/ \E c \in CRs : StartReconcile(c) \/ WorkerStep(c) \/ UsageSync(c) \/ GarbageCollect(c)
                    \/ UserStep(c)
  \/ \E k \in Configs : GetFromQueue(k) \/ ConfigSync(k) \/ DeleteConfig(k)
  \/ KeeperStep
  \/ CrashRestart

Spec == Init /\ [][Next]_vars

(* Resources are polled; a config is looked at only when it is in the queue, *)
(* from which each gets its turn.                                            *)
Fairness ==
  /\ \A c \in CRs : /\ WF_vars(StartReconcile(c)) /\ WF_vars(WorkerStep(c))
                    /\ WF_vars(UsageSync(c)) /\ WF_vars(GarbageCollect(c))
  /\ \A k \in Configs : SF_vars(GetFromQueue(k)) /\ WF_vars(ConfigSync(k))
  /\ WF_vars(KeeperStep)

FairSpec == Spec /\ Fairness

-----------------------------------------------------------------------------
(* Properties. *)

(* Every variable holds what the code can put there. *)
TypeOK ==
  /\ configs \in [Configs -> Config] /\ configCache \in [Configs -> Config]
  /\ configSynced \subseteq Configs
  /\ usages \in [CRs -> Usage] /\ usageCache \in [CRs -> Usage]
  /\ usageSynced \subseteq CRs
  /\ queue \subseteq Configs
  /\ keeper \in Keeper
  /\ resources \in [CRs -> Resource]
  /\ worker \in [CRs -> Worker]
  /\ faults \in 0 .. MaxFaults /\ edits \in 0 .. MaxEdits

Goes(k) == configs[k].finalizer /\ configs'[k].phase = "gone"

(* The config controller lets go of a config only if each usage of it was      *)
(* written after the usages were counted, or so shortly before that the cache *)
(* did not show it.                                                           *)
CountedConfigStays ==
  [][\A k \in Configs, c \in CRs : Goes(k) /\ usages[c].config = k => c \in keeper.missed]_vars

(* The config a resource refers to ends up being the one its usage is for, *)
(* however edits, stale caches and restored usages get in the way.         *)
UsageFollowsReference ==
  \A c \in CRs : <>[](resources[c].phase = "present" => usages[c].config = resources[c].ref)

(* A deleted config goes once nobody uses it: the queue is told of it. *)
ConfigDeletionSettles ==
  \A k \in Configs :
    <>[](configs[k].phase = "present" /\ configs[k].deleting =>
           \E c \in CRs : usages[c].config = k)

(* A deleted resource goes as long as its config is there, also when the config *)
(* is deleted: they do not wait for each other.                                *)
ResourceDeletionSettles ==
  \A c \in CRs :
    <>[](resources[c].phase = "deleting" => configs[resources[c].reads].phase # "present")

-----------------------------------------------------------------------------
(* What the code says and TLC refutes. *)

(* "It cannot be deleted until it is no longer in use": the config that Connect *)
(* reads stays while the resource has a node.  The race with the count, which  *)
(* CountedConfigStays describes, is excused.                                   *)
ConfigInUseStays ==
  [][\A k \in Configs, c \in CRs :
       Goes(k) /\ resources[c].node /\ resources[c].reads = k => c \in keeper.missed]_vars

=============================================================================
