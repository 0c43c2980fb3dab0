# powerbroker in TLA+

powerbroker is a Crossplane provider: custom resources of four kinds (User,
Persona, PermissionSet, Team) are reconciled into nodes and relationships of a
Neo4j graph. This directory holds TLA+ modules that model its control loop and
its graph transactions, TLC configurations that check them on small instances,
and TLAPS proofs of what holds for every instance.

`tlc -config <run>.cfg <module>.tla` checks one run of the tables below;
`tlapm <module>.tla` checks the proofs of `ManagedReconcilerProofs`,
`LifecycleProofs`, `PermissionSetProofs`, `PermissionSetLifecycleProofs`,
`ResolutionProofs`, `UsageProofs`, `ProviderProofs` and `ProviderLifecycleProofs`.

## Inventory

| part | state | operations | what is hard | where |
|---|---|---|---|---|
| managed reconcile loop (crossplane-runtime, `reconciler/managed`) | the private copy of one object | Get, initialize, resolve, observe, create / update / delete, three kinds of write to the API server | a crash between any two calls; a cached copy older than the last write; lost answers; one-second times | `ManagedReconciler` |
| Persona and User controllers (`internal/controller/{persona,user}`) | none of their own | Connect, Observe, Create, Update, Delete | existence derived from neighbours; two transactions per creation; update by name; each other's names and nodes | `ManagedReconciler`, `Provider` |
| PermissionSet controller | none of its own | the same, four transactions per creation | accounts and roles shared between resources; an observation that fails for ever | `PermissionSetReconciler`, `Provider` |
| Team controller | none of its own | the same | a second transaction that never compiles, after a first that commits; an observation that panics | `ManagedReconciler` (Kind "Team"), `Provider`, except the branches no Team reaches |
| Neo4j store and transactions (`internal/storage/neo4j`) | the graph | `Create*`, `Get*`, `Update*`, `Delete*`, each one or more transactions | partial commits; MATCH that silently does less | `GraphStore`, `ManagedReconciler`, `Provider` |
| reference resolution (`zz_generated.resolvers.go`, crossplane-runtime's `reference`) | references and resolved values in specs | ResolveReferences of three kinds | one Get at a time, one write at the end; names that change; a value resolved once and never again | `ReferenceResolution` |
| ProviderConfig controller (`internal/controller/config`) and the tracking in every `Connect` | usages, in-use finalizer, its queue | track, count, remove the finalizer | counting against tracking, both through caches; only events make it look again | `ProviderConfigUsage` |
| provider process (`cmd/provider`) | the informer cache, one workqueue per controller | start, watch, enqueue | restart; a panic of one controller ends all | `Provider`, `ManagedReconciler` |
| storage factory (`internal/storage/storage.go`) | a driver | NewNeo4jStorage | credentials that do not work hold up everything | `Provider` (`usable`) |
| service layer, generated code, manifests | none | pass-through | nothing | not modelled |

The parts meet in five places. A controller reads objects through the informer
cache and writes them to the API server, where a stale copy is refused. It
reads and writes the graph in transactions. And controllers meet each other in
the graph: a Persona is deleted by its own controller while the relationships
of Users lead to it; and in the API server, where references read the external
names of other controllers' resources, and usages hold back a ProviderConfig. And
all controllers are goroutines of one process: nothing recovers from a panic in
one of them.

What makes each part correct:

- *reconcile loop*: nothing is created before the API server knows that it is
  about to be; a creation of unknown outcome is not repeated; a finalizer stays
  as long as the node; deletions end.
- *User and Persona*: the external name is a node of this resource; grants are
  those of its spec, made and revoked for it alone; edits arrive.
- *PermissionSet*: delegates to the account and the role of its spec; one
  resource's accounts do not disturb another's; its deletion reaches its node.
- *Team*: as User; a failed attempt leaves nothing.
- *all four together*: a User has access to what a PermissionSet delegates along a
  Persona that both name; access arrives, and none is left through recorded nodes of
  what is gone.
- *ProviderConfig*: it stays as long as somebody uses it.
- *references*: what is resolved is a name the referenced resource has or had;
  the user's references are kept; resolution ends.

The `hazards` of PROJECT.json list, line by line, where each of these could go
wrong.

## Modules

### GraphStore

The effect of one committed transaction on a set of relationships
`[from, type, to]`, one operator for each `*TxFunc`. It has no state, so that a
state machine may let a transaction commit, fail, or commit without its caller
hearing of it. A MATCH without a row makes the rest of the statement do
nothing: `live` says which nodes of the other label exist. Lists of uuids are
sets (MERGE makes repetitions no-ops; the order matters only to `cmp.Equal`,
which `Observations` models).

### ManagedReconciler

One controller and everything that moves around it.

| variable | code |
|---|---|
| `api` | the objects in the API server: spec references, external name, the three create annotations, finalizer, deletion timestamp |
| `cache`, `synced` | the informer's copies, and which of them are of the latest resource version |
| `w` | the worker: the call it makes next, its copy of the object and whether that copy is of the latest version, the observation, the uuid just created |
| `nodes`, `edges`, `targets` | the graph: nodes of this kind, relationships, the nodes specs refer to |
| `now` | the second the wall clock shows; annotations hold seconds (`time.RFC3339`) |
| `attempt` | history: who created a node, when, and what was recorded of it |
| `faults`, `edits` | how much of the bounds is used |

Actions are the calls of `Reconcile` in their order: `Start`, `Initialize`,
`RefuseIncomplete` or `ResolveReferences`, `Observe`, `AwaitGrace` or `Decide`,
then `Delete` or `RemoveFinalizer` for a deleted object, and otherwise
`AddFinalizer` followed by `WritePending`, `CreateNode`, `CreateEdges`,
`RecordSucceeded` or `RecordFailed`, or by `UpToDate` or `UpdateExternal`. The
environment is `CrashRestart`, `CacheSync`, the users (`ApplyResource`,
`EditSpec`, `DeleteResource`), another controller (`DeleteTarget`) and `Tick`.

Every call may fail before or after its effect (`Fault`). A write to the API
server is refused if the copy it starts from is stale; the status update at the
end of most paths (`Return`) makes a new version of the object, or not, or is
refused. `UpdateCriticalAnnotations` reads again through the cache and retries;
that it gives up, because the API server fails or because the cache lags behind
all the retries (about fifty milliseconds), counts as a fault.

A resource version is compared and never used otherwise, so the model keeps the
comparison: `c \in synced` and `w.fresh` say that a copy is of the latest
version.

Abstractions, each of them deliberate:

- The provider config reference is set by the API server's defaulting
  (`ResourceSpec` has a kubebuilder default), so `DefaultProviderConfig` does
  nothing; a User has the provider reference its `Connect` reads.
- A Team's `CreateTeam` commits its node and then fails, whatever its spec says:
  the statement of its second transaction does not compile. No Team therefore
  gets an external name from its controller; `Provider` has the Teams that
  users gave one.
- Specs name uuids; resolving references to resources is in `ReferenceResolution`
  and `Provider`.
- A resource name is applied once; applying it again after it is gone would be
  another resource with blank annotations.
- Connection secrets, events, conditions and the rest of the status are left
  out; a status update is a new version.
- One worker for each controller (`MaxConcurrentReconciles` is 1 by default)
  and one process.
- The name of a node is the one its owner's spec had at creation, `NodeName`. The
  code creates with `spec.forProvider.name` and updates by `metadata.name`, and nothing
  keeps these equal: `NodeName` is a constant about which nothing is assumed. Where a
  node has the `metadata.name` of another resource, that resource's update rewires it
  too; `RewiredByName` says so. `Converges` holds where the names agree: otherwise the
  update of a resource never finds the resource's own node.

### ExternalLifecycle

What the controller of one kind promises about nodes, without saying how: there
is no worker, cache, clock, finalizer or process. A resource is absent, present,
deleting or gone and names at most one node. A node is made for one resource; it is
in flight until it is recorded (in one step with being named), given up as failed,
or destroyed; it grants references, and one that grants nothing never gains any.
The promises are the guards: only a resource whose node grants nothing goes, names
another node or begins another creation, and only the node of a resource that is
being deleted is destroyed.

`ManagedReconciler` implements it under the refinement mapping at its end:

| abstract | concrete |
|---|---|
| `phase` | `api[c].phase`, with the deletion timestamp for "deleting" |
| `name` | the external name, if it is a uuid: the provisional name of a User is none |
| `status` | "destroyed" for a deleted node, otherwise what was recorded of its creation |
| `owner` | for whom it was created |
| `grants` | what `GetUser` or `GetPersona` would return |

`CreateNode` is `Make`, `CreateEdges` is `Grant`, `RecordSucceeded` is `Name`,
`RecordFailed` is `Abandon`, `RemoveFinalizer` is `Vanish`, `Delete` is `Destroy`,
`UpdateExternal` is `Rewire`, `DeleteTarget` is `LoseReferent`; every other step
stutters. A node whose second transaction failed keeps the status "failed" and what
it is worth: the abstract node is never destroyed, which is the leak that
`FailedCreateLeaks` shows.

Two more modules implement it, each for what `ManagedReconciler` leaves out:
`PermissionSetLifecycle`, where several resources share what nodes grant, and
`ProviderLifecycle`, where other controllers make and delete it.

### MCManagedReconciler

Small instances: `SameNames` (metadata.name is spec.forProvider.name), `OneName` (the
nodes of all resources have the metadata.name of one of them, used by PersonaPair) and
the symmetry of uuids and of targets, which nothing tells apart. The liveness runs use
no symmetry.

### ManagedReconcilerProofs

The theorems and their lemmas, see below.

### LifecycleProofs

That `ManagedReconciler` implements `ExternalLifecycle`, and the two invariants that
come with it, see below.

### PermissionSetReconciler

The PermissionSet controller, with what it shares: accounts and roles belong to
no resource, and are merged by the first creation that asks for them.

| variable | code |
|---|---|
| `objects` | the objects in the API server: binding, external name, whether a creation is incomplete, finalizer, phase |
| `w` | the worker: its step, its copy of the object, the observation, the uuid just created |
| `accounts`, `roles`, `sets` | the nodes of the three labels; an account holds its id and its alias; history adds to a permission set its resource and the binding it was created for |
| `to`, `with` | the relationships DELEGATES_ACCESS_TO (an account) and DELEGATES_ACCESS_WITH (a role) |
| `strays` | the nodes without label that updates make |
| `spelled` | history: the accounts and the aliases specs have named |
| `faults`, `edits` | how much of the bounds is used |

`MergeAccount`, `MergeRole`, `CreateNode` and `Link` are the four transactions
of `CreatePermissionSet`; any of them can fail, or commit without its answer
(`Committed`). `Rows` is what the MATCH of `GetPermissionSet` finds, and
`Ambiguous` the case that `result.Single()` refuses.

The reconcile loop around them is cut down to what decides which transactions
run, because `ManagedReconciler` treats it in full: the worker's copy is compared
with the object where the code compares resource versions, the three create
annotations become one mark (`incomplete`), and the cache, the clock and the
deletion policy are left out. With the clock goes the exception of `meta.go:342`, under
which a creation cut short in the second of an earlier failure is not incomplete; it
is in `ManagedReconciler` and `Provider`, whose properties state it. Alias stands for alias and class, which the code
treats alike. Nodes are numbered in the order of their creation and a number stands
for a uuid, so that nothing bounds how many there are. A relationship is a pair; that
a second MERGE could double one does not matter to a query that asks for none, one or
several.

### PermissionSetProofs

The theorems and their lemmas, see below.

### PermissionSetLifecycle and PermissionSetLifecycleProofs

`PermissionSetReconciler` as an implementation of `ExternalLifecycle`, and the proof
that it is one.

| abstract | concrete |
|---|---|
| `phase`, `name`, `owner` | phase and external name of the object, the resource the node was made for |
| `status` | "destroyed" for a deleted node, "recorded" for one that a resource names, otherwise "inflight": nothing tells a failed creation from a forgotten one |
| `grants` | account id and role of each row of `GetPermissionSet` |

`CreateNode` is `Make`, `Link` is `Grant`, `RecordSucceeded` is `Name`,
`RemoveFinalizer` is `Vanish` and `DeletePermissionSet` is `Destroy`. `Rewire`,
`LoseReferent` and `Abandon` do not occur: an update moves no relationship, nothing
deletes an account or a role, and a failed creation may be linked all the same.

### ProviderConfigUsage

The Connect of several resources, the controller of ProviderConfigs and the two
informers between them.

| variable | code |
|---|---|
| `configs`, `configCache`, `configSynced` | the ProviderConfigs in the API server, the informer's copies, and which of these are of the latest version |
| `usages`, `usageCache`, `usageSynced` | the same for ProviderConfigUsages, by the resource they are named after: the config of their label, and whether they have their owner |
| `queue` | the configs that wait in the controller's workqueue |
| `keeper` | the worker of that controller: its step, the config, what its copy says and whether it is of the latest version, the users counted, the usages to drop; history adds which usages the count could not see (`missed`) |
| `resources`, `worker` | the managed resources, and the reconcile of each: the references of its copy |
| `faults`, `edits` | how much of the bounds is used |

`Track`, `GetConfig` and `Use` are the reconcile of a resource: `Use` stands for
everything after Connect and does what `ManagedReconciler` describes in full, as
far as it decides whether a node exists. `GetFromQueue`, `ListUsages`,
`DropUsages` and `FinishConfig` are that of a config. `ConfigSync` and
`UsageSync` are the informers, which also put configs into the queue
(`Enqueued`). The cluster contributes `GarbageCollect`, `CrashRestart` and the
users: `DeleteConfig`, `EditResource`, `DeleteResource`, `RestoreUsage`.

Abstractions: configs and resources are there from the start and are not made
again; each resource has a worker of its own, as resources of different kinds
have; a `providerConfigRef` that is left out is the default `Default` of the API
server. Only a User (`Users`) has a `providerRef` that may differ from it. That a
status with another number of users is a new version of the config, for which
its controller looks once more, is left out: it changes nothing but the number.

### UsageProofs

The theorems about `ProviderConfigUsage` and their lemmas, see below.

### ReferenceResolution

One referring resource, `from`, the resources it may refer to, and their copies
in the informer.

| variable | code |
|---|---|
| `policy` | for each field, whether it has a selector, and the policies Always and Optional; fixed |
| `from` | the referring object in the API server: references and values of each field |
| `edited` | history: fields whose references a user changed and whose values were not cleared since |
| `worker` | `ResolveReferences`: its copy, whether that is of the latest version, the fields to do, the values read so far |
| `targets`, `cache` | the resources referred to, with their external names, in the API server and in the informer |
| `faults`, `edits` | how much of the bounds is used |

`KeepField` is a field that `IsNoOp` leaves alone, `GetReference` one Get of a
reference, `ListSelected` the List of a selector, and `UpdateResolved` the write of
the whole object. A field is a list of references and a list of values; in the
fields of `Single` there is at most one of either, and an empty string is no value
(`Stored`). An external name is a pair: the resource that has or had it, and a
number, 0 for the provisional name of a User.

Abstractions: all resources that exist have the labels of every selector; the
references of a field have one policy; a field with a selector gets no references
from users; a deleted referrer is not resolved and does not appear. The Persona
and the User have one field, the Team three: the run takes two, one of each sort.

### ResolutionProofs

The theorems about `ReferenceResolution` and their lemmas, see below.

### Provider

The composition: the controllers of all four kinds in one process, on one graph,
resolving each other's names. Its subject is the access path
`(User) -GRANTED-> (Persona) <-ATTACHED_TO- (PermissionSet)`, to which three
controllers contribute a node each and two a relationship each.

| variable | code |
|---|---|
| `objects` | the objects of all kinds in the API server: references, the values they were resolved to, external name, provider reference, whether a creation is taken for incomplete and whether the last one failed, finalizer, phase |
| `usable` | whether the ProviderConfig leads to the graph: its storage type, and the credentials `NewNeo4jStorage` reads |
| `w` | the workers of the User and the Persona controller: step, resource, copy of the object, observation, node made |
| `nodes`, `edges` | the graph; history adds to a node its resource and what was recorded of its creation |
| `upsets` | how much of the bound on failures, crashes, edits and imports of Teams is used |

Of the three create annotations `Provider` keeps what the check before a creation makes
of them: `incomplete`, and `failed`, that the last outcome is a failure. The check compares
one-second times strictly (`meta.go:342`). A creation that begins in the second in which an
earlier one failed is therefore not taken for incomplete (`Marks` leaves open whether the
second has passed), and if it is cut short its node is `hidden`: unknown to everybody, and
not in the way of the next creation. The second of a success is longer ago than that, by
the grace period at least, before a reconcile can find the node gone.

`NewNeo4jStorage` is what the `Connect` of each controller comes down to, `ConnectUser`
after the provider reference has been read. Nodes have names, `NodeName`, about which
nothing is assumed; `Named` is what an update by `metadata.name` finds. The run has equal
names, which `AccessArrives` needs; all that is proved holds for any.

A reconcile is `ResolveReferences` (which ends with the write of the object) or
`Observe`, and after `Observe` the steps of `ManagedReconciler`, cut down to what
controllers see of each other: a creation is `WritePending`, `AddUser` or
`AddPersona`, `CreateUser` or `CreatePersona`, and `RecordSucceeded` or
`RecordFailed`, each a step between which other controllers run or the process ends.
A PermissionSet is created (its outcome recorded as a success, as a failure, or not),
deleted and released in one step each: `PermissionSetReconciler` has what is between. `PanicInConnect` (a User without
provider reference) and `PanicInObserve` (a Team that users gave an external name)
end the reconciles of all controllers, as often as those resources come up, and are
not counted as faults: nothing has failed when they happen. `EditConfig` breaks the
ProviderConfig and repairs it.

Abstractions, beside those the module names: all resources share one ProviderConfig,
which is there (`ProviderConfigUsage` has the rest); `ResolveReferences` reads all
references at once (`ReferenceResolution` has the single reads); the informer cache
is exact, and the deletion policy is Delete (`ManagedReconciler` has both).

### ProviderProofs

The theorems about `Provider` and their lemmas.

### ProviderLifecycle, MCProvider and ProviderLifecycleProofs

`Provider` as an implementation of `ExternalLifecycle`, seen from the User controller or
from the Persona controller (`Kind`), and the proof that it is one. The nodes with the
label of that kind are the abstract nodes; all others, by their uuids, are referents.

| abstract | concrete |
|---|---|
| `phase`, `name`, `owner` | phase and external name of the object, the resource the node was made for |
| `status` | "destroyed" for a deleted node, otherwise what was recorded of its creation |
| `grants` | what `GetUser` or `GetPersona` would return |

Of this controller, `AddUser` or `AddPersona` is `Make`, `CreateUser` or
`CreatePersona` is `Grant`, `UpdatePersona` is `Rewire` and `Delete` is `Destroy`, the
rest as in `ManagedReconciler`. `UpdateUser` stutters: it changes relationships that
nobody makes. Of the others, `DeletePersona` (for Users) and
`DeletePermissionSet` (for Personas) are `LoseReferent`, and whatever else they do, a
panic included, stutters.
`MCProvider` has the module once for each kind, so that one run checks both.

## Runs

| run | instance | question |
|---|---|---|
| PersonaPair | 2 Personas, one of policy Orphan, nodes all of one name, 2 nodes, 1 target, 1 fault, 1 edit | do names, grants and deletions stay with their resource, what may an update by name reach, is `ExternalLifecycle` implemented? |
| PersonaLiveness | 1 Persona, 3 nodes, 2 targets, 2 seconds, 1 fault, 1 edit, fair | do deletions end and edits arrive? |
| UserLife | 1 User, 4 nodes, 1 target, 2 seconds, 2 faults, 1 edit, fair | is a creation announced before it is made, does one of unknown outcome block the next, do names and grants stay with the resource, whose external name is provisional at first, do creations and deletions end? |
| BareNodeReportedDeleted | violated | is a node that is reported deleted gone? |
| FailedCreateLeaks | 1 Team, no fault, violated | does a creation recorded as failed leave nothing? |
| UserUpdateIgnored | violated | does an edited User converge? |

Of `PermissionSetLifecycle` (PermissionSetPair) and `PermissionSetReconciler`:

| run | instance | question |
|---|---|---|
| PermissionSetPair | 2 resources, 1 account in 2 spellings, 2 roles, 1 fault, 1 edit, fair | do permission sets delegate as asked, when is an observation ambiguous, can a live node be taken for deleted, does a deletion end, is `ExternalLifecycle` implemented by a creation in four transactions? |
| AmbiguousAccountBlocksDeletion | violated | is a deleted permission set's node deleted? |

Of `ProviderConfigUsage`:

| run | instance | question |
|---|---|---|
| ProviderConfigUse | 2 configs, 1 resource, 1 fault, 1 edit or restore, fair | does a config stay while somebody was counted, does a usage end up where its reference is, do deleted configs and resources go? |
| UserConfigUncounted | 2 configs, 1 User, violated | does the config a User reads stay while its node exists? |

Of `ReferenceResolution`:

| run | instance | question |
|---|---|---|
| References | 2 Users, a field of one value and one of several, 5 policies for each, 1 reference, 1 node each, 1 fault, 1 edit, fair | are values those of the references, are edits kept, does resolution end? |

Of `MCProvider`, that is, of `Provider` and `ProviderLifecycle`:

| run | instance | question |
|---|---|---|
| ProviderAccess | 1 User, 1 Persona, 1 PermissionSet, 1 Team, 4 nodes, 1 upset (failure, crash, edit, broken config or imported Team), any number of panics, fair | is each recorded node on an access path the one of a resource that is there, is a creation that was cut short marked, do deletions end, does access arrive, and do the User and the Persona controller each implement `ExternalLifecycle` among the others? |

The five violations show the findings of PROJECT.json, each against a sentence
of the repository.

*Bounds.* Two nodes allow a creation, a loss and a second creation, which is
what every property about creations compares; two targets allow a reference to
be added, removed and exchanged; two seconds allow a pending time before, at
and after an outcome; two faults allow a failed creation and a lost outcome in
one history. Two resources with one fault are
the largest pair that stays below a minute. When the uuids run out `CreateNode`
can only fail: the liveness runs have one node more than the faults and edits
can use up in their two seconds. The grace period is one second (zero in
PersonaPair, where the clock stands still), so that it both covers and does not
cover an observation.

In PermissionSetReconciler, two resources, two spellings and two roles are what
sharing needs; the fault repeats a creation, the edit changes an alias under
another resource or asks for another role. The violation needs no fault at all:
one misspelled account. Two resources and one fault make at most three nodes, so that
the four numbers of `Uuids` are more than a behaviour uses.

In ProviderConfigUsage, one resource and two configs are enough for a usage that
moves, is dropped, or is written between the count and the decision; the edit is
either a new reference or a usage restored without its owner. What a second
resource would add, a count above one, only keeps a config longer. In
ReferenceResolution, two names allow a reference to be exchanged and a selector to
find none, one or both, in either order; with a provisional name and one node each
external name changes once; one reference that users give meets, in the other
field, what a selector fills in.

In Provider, one resource of each kind makes one path; four nodes are one each and one
for a second creation of any of them, which the upset (a failed or lost call, a crash,
an edit) causes. That one bound stands for all of them keeps the run at two minutes. The
upset of a failure and a panic, which is none, together make a `hidden` node; a lost
answer and a deletion, a User that is gone and whose failed node has access. A Team
that is imported uses the bound as well: what it ends is cut short without further faults.

*Deadlock* is not checked: with its resources gone, the clock at its bound and
its faults used, the system may stop.

## Fairness

`WF_vars(WorkerStep)`: the worker finishes what it began unless the process
dies. `SF_vars(Start(c))`: each resource is reconciled again and again; errors
requeue, the poll and the resync of one hour come round, and the workqueue hands
resources out in order, so that one resource can not keep another one waiting
for ever. `WF_vars(CacheSync(c))`: the informer catches up. Faults, users,
other controllers and the clock are not fair: the properties hold whether or not
they go on. Since the clock may stop (it does at its bound) the two reasons to
wait that only time ends, an incomplete creation and the grace period, are
named as excuses in the liveness properties.

`PermissionSetReconciler` assumes the same: `WF_vars(WorkerStep)` and
`SF_vars(Observe(c))`, where `Observe` also stands for the part of the loop
before it. An observation that fails is no step, so that a resource whose
observation fails for ever is not helped by fairness; this is why
`DeletionSettles` names it as an excuse and `DeletionReachesNode`, which does not, is
violated.

`ProviderConfigUsage`: resources are polled and their workers go on, the informers
catch up, the garbage collector works. The controller of configs is not polled:
`SF_vars(GetFromQueue(k))` says that a config in the queue gets its turn, nothing
says that it is in the queue. This is what `ConfigDeletionSettles` rests on.
`ReferenceResolution`: the referring resource is polled, its worker goes on, the
informer catches up. That the resources referred to get names is not assumed:
`ResolutionSettles` speaks of those that have one.

`Provider`: each worker finishes what it began (`WF` of `Step`, `UserStep`,
`PersonaStep`), and each resource is reconciled again and again (`SF` of
`Reconcile(c)` and of `PermissionSetStep(s)`, for they are disabled while the worker
is busy or the ProviderConfig is broken). Panics, edits and repairs are not fair. A
panic disables nothing but may come at every moment: with a User that panics present,
or a Team, every reconcile may be cut short for ever, so that nothing is promised; this
is what `Calm` says in `DeletionSettles` and `AccessArrives`. That the properties hold
once such a resource is gone, or given its provider reference, is what they show of
the panics.

## What is proved

### ManagedReconcilerProofs

It proves, for every finite or infinite set of resources,
uuids and targets, every grace period and every bound (assumptions: the sets of
names do not overlap, bounds are natural numbers):

- `TypeCorrect`: `Spec => []TypeOK`. The induction needs `WorkerOK`: a worker
  that is not idle has a resource and a copy of an object that existed, and
  knows the uuid of the node it relates or records.
- `WriteAhead`: `Spec => []CreatedUnderDurableMark`. Inductive invariant
  `WriteAheadInv`: a copy held by the cache of a synced resource, or by a fresh
  worker, agrees with the API server (`CopiesCurrent`), and in the creating
  section the API server holds the finalizer and the pending time of the
  worker's copy. Freshness is what the argument rests on: only a write from a
  fresh copy can enter the creating section, and a user's later write keeps
  annotations and finalizer.
- `NoCreationOverUnknown`: `Spec => []UnrecordedCreateBlocks`. It needs, on top,
  that a worker past the check holds a copy that was complete when it was read
  (`CheckedCopy`) and that every creation of unknown outcome is covered by the
  pending time in the API server (`PendingCovers`).

### LifecycleProofs

Under the same assumptions, with the invariants of `ManagedReconcilerProofs`:

- `Refinement`: `Spec => ImplementsLifecycle`. Initial states map to initial states
  (`InitRefines`), and every step maps to a step or a stutter (`StepRefines`).
- `NamesOwned`: `Spec => []ExternalNameOwned`, and `NothingForgotten`:
  `Spec => []NoForgottenGrant`.
- `DeletedOnRequest`: `Spec => NodesDeletedOnRequest`.
- `Rewires`: `Spec => RewiredByName`, whatever the names of nodes are: an update of
  another resource reaches a node only by its name, and gives it the live referents of
  the spec it comes from.

One inductive invariant, `LifecycleInv`, carries all five. Its first half is about
the stores: which nodes exist agrees with what was recorded of them
(`NodesTracked`), names are owned, a resource that names a node has a finalizer and
goes only after what that node grants (`ObjectsSound`), and a cached object is one the
API server had, with the deletion and the names it had then (`CacheBehind`). Its second
half is about the worker: its copy is such an object too (`CopyBehind`), the step it is
at fits what that copy says (`PathSound`), what it has observed to be absent grants
nothing any more (`ObservationHolds`), and the node it is making is in flight,
its own, and grants nothing before `CreateEdges` (`CreationSound`). The argument rests
on one fact of the statements, `Revoked`: a node that grants nothing never grants
anything again, because updates MATCH the relationships they replace. So the answer
"absent", old as it may be by the time a finalizer is removed or a node created on its
account, is still true then.

### PermissionSetProofs

It proves, for every set of resources, accounts, aliases and roles and every
bound (assumptions: the sets of a binding are not empty, `NoCR` is no resource):

- `TypeCorrect`: `Spec => []TypeOK`, with the referential integrity that
  `TypeOK` states of relationships. The induction needs that a busy worker has a
  resource, and that the node it links and the role exist.
- `DelegationAsAsked`: `Spec => []DelegatesAsAsked`. Inductive invariant `LinkInv`:
  each single relationship agrees with the binding its permission set was created
  for, and the worker links the node it created with that binding. The lemma
  `GraphKept` carries it: an account keeps its id, a permission set its history.
- `AmbiguityNeedsMisspelling`: `Spec => []AmbiguousOnlyIfMisspelled`. Inductive
  invariant `SpellInv`: every account node is spelled as some spec spelled it, and
  two nodes have one id only if specs differ about its alias. With `LinkInv`, two
  rows of an observation are two account nodes of one id. That updates rewrite
  aliases is what makes it more than a fact about MERGE: afterwards two nodes may
  be equal.
- `NamedNodesLinked`: `Spec => []NamedNodeLinked`. Inductive invariant `NodeInv`:
  the finalizer holds the object throughout the creating section, the account to
  link stays, and a worker that has found nothing knows that the node is deleted.

### PermissionSetLifecycleProofs

- `Refinement`: `Spec => ImplementsLifecycle`, for every set of resources, accounts and
  roles and every bound, assuming `Uuids = Nat \ {0}`: nothing bounds how many nodes
  `PermissionSetReconciler` makes, and a resource that named a node outside the mapping
  would name none.

On top of `NodeInv`, the induction needs `PathInv`: relationships come from live nodes
only; a worker that decides on a deletion holds the external name the object has, and
that deletion is not taken back (`CopySound`); a creation begins only where the node
that is still named, if any, is deleted, and the node it makes is named by nobody and
linked to nothing before `Link` (`BusySound`). The lemma `DelegationKept` says that
neither another resource's node nor a rewritten alias changes what a node delegates to.

### ResolutionProofs

For every finite set of names, every non-empty set of fields and every bound
(assumptions: `NamesAssumption`, `FieldsAssumption`, policies are sets of the three
words, bounds are natural numbers):

- `TypeCorrect`: `Spec => []TypeOK`.
- `ValuesOfReferences`: `Spec => []ValuesAreOfReferences`.
- `NoEditTakenBack`: `Spec => ReferencesAsAsked`.

The inductive invariant `ResolutionInv` says that resources carry their own names, in
the informer too (`NamesSound`); that the values read so far are names of the
references they were read for, as the worker's copy has them (`ReadingSound`); and
that a copy that is not stale has, in every field, the references of the object or
what a resolver may make of them, and values that belong to these unless a user has
edited the references since they were cleared (`CopySound`). The write at the
end carries a resource version, so that what holds of a fresh copy holds of the object.

### UsageProofs

For every set of configs, every finite set of resources and every bound (assumptions:
`NamesAssumption`, `ResourcesAssumption`, bounds are natural numbers):

- `TypeCorrect`: `Spec => []TypeOK`.
- `CountHolds`: `Spec => CountedConfigStays`.

The inductive invariant `UsageInv` says that a synced usage is in the informer as it
is (`CacheSound`); that a config that is gone has no finalizer, and that nobody who
works with a current copy works on one (`GoneSound`, `FreshSound`); and that, where the
count found no user, each usage the config has came to be behind the back of the
count or is about to be dropped (`CountSound`). It excludes everything but the race the
property excuses: no refused or failed write, restart or restored usage makes the
controller overlook a usage its cache showed.

### ProviderProofs

For any number of resources of each kind and every bound (assumptions:
`NamesAssumption`, that the kinds do not overlap, and `BoundsAssumption`):

- `TypeCorrect`: `Spec => []TypeOK`. The induction needs `WorkerOK`: a worker serves a
  resource of its kind, and the node it relates or names exists.
- `UnknownMarked`: `Spec => []UnknownOutcomeMarked`. Its nodes of fate "unknown" are those
  of creations that were taken for incomplete; one that began in the second of a failure
  is "hidden" and excepted, as `UnrecordedCreateBlocks` excepts it by its times.
- `AccessAccounted`: `Spec => []AccessAccountedFor`. It speaks of nodes whose creation was
  recorded. A node of a creation that was recorded as failed, because the answer of its
  last transaction was lost, is in nobody's name: its User can be deleted and go, and the
  node keeps its access path. Nothing in the code revokes it; `FailedCreateLeaks` shows
  where such nodes come from.

One inductive invariant, `ProviderInv`, carries the last two. Relationships join live
nodes of the labels of an access path (`EdgesSound`). A node is `Linked` if it may be
part of a path: it lives, and has what an observation of it looks for, for a User any
relationship, for a Persona a permission set. A resource names a node that was recorded
for it, and what names a node or is being created keeps its finalizer
(`ObjectsSound`). A worker that has found nothing knows that the node of its copy is
not linked (`DecisionSound`); one that is creating knows that its resource is
there and has its finalizer, that it is marked if the node to come will count on it,
that the node it made is the only one of unknown outcome, and that the node its
resource still names is not linked (`CreationSound`). `Accounted` says of every
linked node what `AccessAccountedFor` says of those on a path: only this form is kept
by a controller that makes the other half of a path. As in `LifecycleProofs`, all rests
on `Revoked`: no step of any of the controllers links a recorded node again. The
creation of a Persona attaches permission sets to a node that nothing has recorded yet,
and its update only gives others to a node that has some. `RecordSound` is where a
resource changes the node it names, and where that is used.

### ProviderLifecycleProofs

Under the same assumptions, and that `Kind` is one of the two kinds:

- `Refinement`: `Spec => ImplementsLifecycle`, for the User controller and for the
  Persona controller.

The lemma `GrantsAreEnds` comes first: because relationships join live nodes of the
right labels (`EdgesSound`), what a statement finds that a node grants can be read off
the relationships alone. To `ProviderInv` the induction adds `LifeInv`, which is about this
controller's worker only: what it decides on is true still (`CopySound`), and nobody
gives its node anything between the two transactions of a creation (`FreshSound`); and
`AbsentSound`, that what has not been applied names nothing. The proof separates
interference from work. The lemma `Steps` shows that each step of the process is one of
this controller, or of users at its resources, or stays `Aside`: it leaves external
names, phases and nodes of this kind alone, and what these grant, but for one node that
may be taken away. All steps aside are then treated at once (`AsideLife`, `AsideMaps`),
and the others one by one.

### Only model-checked

Liveness, which the prover does not reach. Every invariant, action property and
refinement that a passing run checks is proved. The violations are counterexamples,
which TLC finds.

## Not modelled

- `UpdateTeam` and `DeleteTeam`, and the statements behind them: the loop calls them
  after an `Observe` that found the Team. Without external name it finds none, and with
  one it panics.
- `GetTeamTxFunc` and `AddManagerPersonaNoInheritRelationTxFunc`: nothing calls them.
- The service layer passes its arguments on to the store; the generated deep copies and
  accessors copy and return fields; the manifests are data.
- The Neo4j drivers: every `Connect` makes one, with a connection pool, and nothing
  closes it. How many a process survives is a question about the driver.
- Parsing of credentials and flags, connection secrets, conditions, events and logs.


## Plan

Done: `GraphStore`, `ManagedReconciler` and its proofs; `PermissionSetReconciler` and
its proofs; `ReferenceResolution`; `ProviderConfigUsage`; `ExternalLifecycle` and
`LifecycleProofs`; `Provider`; `ResolutionProofs`; `UsageProofs`; `ProviderProofs`;
`PermissionSetLifecycle` and `ProviderLifecycle`, each with its proofs.

Left:

1. That `Provider` may cut the PermissionSet controller down to three steps is argued,
   not checked: a mapping of `PermissionSetReconciler` to those steps would show it.
2. The informer cache of `ManagedReconciler` has no counterpart in `Provider`: what the
   properties of access paths say of stale copies rests on `LifecycleProofs`.

An update of a permission set MERGEs with `PermissionSet`, a variable bound to nothing,
where the bound one is `permissionset` (`transaction.go:443`): it makes a node
without label, or nothing, and the permission set keeps the account and role of its
creation. `UpdatePermissionSet` does the same, and `DelegationAsAsked` is proved of
what results: a permission set delegates for ever to what its resource asked for when
it was created.

Two behaviours of the resolver are worth a decision of its maintainers and are
listed as hazards: an optional reference to a resource that does not exist erases
all references of the field, and an optional reference to one without a name is
kept as an empty string. `ReferencesAsAsked` and `ValuesAreOfReferences` name both
as their exceptions.
