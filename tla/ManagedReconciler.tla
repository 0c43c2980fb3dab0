-------------------------- MODULE ManagedReconciler --------------------------
(***************************************************************************)
(* One powerbroker controller (User, Persona, Team) reconciling its custom    *)
(* resources into the graph.  Four places hold state:                        *)
(*   - the API server: one object per resource (api);                        *)
(*   - the informer cache every Get of the manager's client reads, which     *)
(*     lags behind the API server (cache, synced);                           *)
(*   - the only worker of the controller, with its private copy of the       *)
(*     object it is reconciling (w), lost when the process dies;             *)
(*   - the graph: nodes, relationships, and the nodes they lead to.          *)
(* A reconcile is a sequence of calls to the API server and to the graph;    *)
(* each call is an action, so that everything else may happen in between.    *)
(*                                                                          *)
(* A resource version is abstracted to what it is compared for: c \in synced *)
(* says that the cached copy of c carries the latest version, w.fresh that   *)
(* the worker's copy does; an Update is refused (409) when it does not.      *)
(* Annotation times are seconds, as RFC 3339 prints them; 0 is "not set".    *)
(***************************************************************************)
EXTENDS Naturals, FiniteSets, GraphStore

CONSTANTS
  Kind,          \* which controller: "User", "Persona" or "Team"
  CRs,           \* names of the custom resources of that kind
  NodeName,      \* spec.forProvider.name of each resource
  OrphanPolicy,  \* the resources whose deletionPolicy is Orphan
  Uuids,         \* what apoc.create.uuid() can return for this kind
  Targets,       \* uuids a spec may refer to (Personas, PermissionSets)
  NoCR,          \* no resource
  NoExt,         \* the empty external name
  OwnName,       \* an external name equal to metadata.name
  GracePeriod,   \* creationGracePeriod, in seconds
  MaxClock,      \* bound: the last second modelled
  MaxFaults,     \* bound: failed calls and crashes
  MaxEdits       \* bound: edits of a spec

ASSUME KindAssumption == Kind \in {"User", "Persona", "Team"}
ASSUME NamesAssumption ==
  /\ NoCR \notin CRs
  /\ NoExt # OwnName
  /\ {NoExt, OwnName} \cap Uuids = {}
  /\ Uuids \cap Targets = {}
  /\ OrphanPolicy \subseteq CRs
ASSUME BoundsAssumption ==
  /\ GracePeriod \in Nat /\ MaxClock \in Nat \ {0}
  /\ MaxFaults \in Nat /\ MaxEdits \in Nat

VARIABLES
  now,      \* the second the wall clock shows
  api,      \* the objects in the API server
  cache,    \* the copies the informer holds
  synced,   \* the resources whose cached copy is the latest version
  w,        \* the worker
  nodes,    \* nodes of this kind, by uuid: "unused", "live" or "deleted"
  edges,    \* relationships
  targets,  \* the referable nodes that exist
  attempt,  \* history: who created a node, when, and what was recorded of it
  faults,   \* faults so far
  edits     \* edits so far

vars == <<now, api, cache, synced, w, nodes, edges, targets, attempt, faults, edits>>

-----------------------------------------------------------------------------
(* The objects. *)

Times == 0 .. MaxClock
ExtNames == Uuids \cup {NoExt, OwnName}

Object == [phase: {"absent", "present", "gone"}, refs: SUBSET Targets, ext: ExtNames,
           pending: Times, succeeded: Times, failed: Times,
           finalizer: BOOLEAN, deleting: BOOLEAN]

Blank == [phase |-> "absent", refs |-> {}, ext |-> NoExt,
          pending |-> 0, succeeded |-> 0, failed |-> 0,
          finalizer |-> FALSE, deleting |-> FALSE]

(* The later of the two times at which the outcome of a creation was recorded. *)
LatestOutcome(o) == IF o.failed > o.succeeded THEN o.failed ELSE o.succeeded

(* Mutant: only the first creation of a resource can be incomplete. *)
IncompleteOnlyAtFirst(o) == o.pending # 0 /\ LatestOutcome(o) = 0

ExternalCreateIncomplete(o) == o.pending # 0 /\ o.pending > LatestOutcome(o)

ExternalCreateSucceededDuring(o) == o.succeeded # 0 /\ now < o.succeeded + GracePeriod

(* AddAnnotations: the annotations of m win over those of o. *)
AddAnnotations(o, m) ==
  [o EXCEPT !.ext = m.ext, !.pending = m.pending, !.succeeded = m.succeeded, !.failed = m.failed]

-----------------------------------------------------------------------------
(* The worker.  pc is the call it makes next; made is history while the code *)
(* has not been told the uuid of the node it created.                        *)

CreateSection == {"createNode", "createEdges", "recordFailed", "recordSucceeded"}

PastCheck == {"observe", "decide", "delete", "finalize", "addFinalizer", "pending",
              "update"} \cup CreateSection

Worker == [pc: {"idle", "initialize", "check", "orphan"} \cup PastCheck,
           cr: CRs \cup {NoCR}, mg: Object, fresh: BOOLEAN,
           obs: {"absent", "current", "outdated"}, made: Uuids \cup {NoExt}]

Idle == [pc |-> "idle", cr |-> NoCR, mg |-> Blank, fresh |-> FALSE,
         obs |-> "absent", made |-> NoExt]

Attempt == [owner: CRs \cup {NoCR}, at: Times, fate: {"none", "inflight", "recorded", "failed"}]

Init ==
  /\ now = 1
  /\ api = [c \in CRs |-> Blank]
  /\ cache = api
  /\ synced = CRs
  /\ w = Idle
  /\ nodes = [u \in Uuids |-> "unused"]
  /\ edges = {}
  /\ targets = Targets
  /\ attempt = [u \in Uuids |-> [owner |-> NoCR, at |-> 0, fate |-> "none"]]
  /\ faults = 0
  /\ edits = 0

-----------------------------------------------------------------------------
(* What the calls of a reconcile are made of. *)

NoFault == UNCHANGED faults
Fault == faults < MaxFaults /\ faults' = faults + 1

Goto(pc) == w' = [w EXCEPT !.pc = pc]

(* The reconcile ends without writing a status. *)
Quit == w' = Idle /\ UNCHANGED synced

(* The reconcile ends with a status update.  A status that says something new *)
(* makes a new version of the object; on a stale copy the update is refused.  *)
Return ==
  /\ w' = Idle
  /\ \/ UNCHANGED synced
     \/ w.fresh /\ synced' = synced \ {w.cr}

Stored(o) ==
  /\ w.fresh
  /\ api' = [api EXCEPT ![w.cr] = o]
  /\ synced' = synced \ {w.cr}

(* client.Update of the worker's object, now o, after which the worker is in *)
(* state next: stored, stored with the answer lost, refused, or failed.      *)
Update(o, next) ==
  \/ Stored(o) /\ w' = next /\ NoFault
  \/ Stored(o) /\ w' = Idle /\ Fault
  \/ ~w.fresh /\ Quit /\ NoFault /\ UNCHANGED api
  \/ Fault /\ Return /\ UNCHANGED api

(* UpdateCriticalAnnotations reads the object again, through the cache, and *)
(* writes the annotations of m over it: only a cache that has caught up makes *)
(* the write succeed.  It retries; giving up, because the cache lags behind  *)
(* all the retries or the API server fails, is a fault.  settled is what     *)
(* history records when the write succeeds.                                  *)
UpdateCriticalAnnotations(m, settled) ==
  \/ /\ w.cr \in synced
     /\ api' = [api EXCEPT ![w.cr] = AddAnnotations(api[w.cr], m)]
     /\ synced' = synced \ {w.cr}
     /\ attempt' = [u \in Uuids |-> IF u = w.made THEN [attempt[u] EXCEPT !.fate = settled]
                                                  ELSE attempt[u]]
     /\ w' = Idle
     /\ NoFault
  \/ /\ Fault /\ w' = Idle /\ UNCHANGED <<api, attempt>>
     /\ synced' \in {synced, synced \ {w.cr}}

(* What the store answers: the uuids the node with this uuid is related to. *)
GetUser(uuid) == IF uuid \in Uuids THEN GetUserRefs(edges, uuid, targets) ELSE {}
GetPersona(uuid) == IF uuid \in Uuids THEN GetPersonaRefs(edges, uuid, targets) ELSE {}

RefsOf(ext) == IF Kind = "User" THEN GetUser(ext) ELSE GetPersona(ext)

(* Mutants: whatever differs from the spec is not there. *)
DifferentIsAbsent(o) ==
  IF RefsOf(o.ext) = {} \/ RefsOf(o.ext) # o.refs THEN {"absent"} ELSE {"current"}

(* ... any external name is somebody's node. *)
NamedIsThere(o) == IF o.ext = NoExt THEN {"absent"} ELSE {"outdated"}

(* cmp.Equal compares lists: collect() gives one reference back in one way, *)
(* two or more in any order.                                                *)
Observations(o) ==
  LET refs == RefsOf(o.ext) IN
  IF refs = {} THEN {"absent"}
  ELSE IF refs # o.refs THEN {"outdated"}
       ELSE IF Cardinality(refs) = 1 THEN {"current"} ELSE {"current", "outdated"}

RelationsAdded(u, refs) ==
  IF Kind = "User" THEN AddUserPersonaRelation(edges, u, refs, targets)
                   ELSE AddPersonaPermissionSetRelation(edges, u, refs, targets)

(* Mutant: an update that matches every node of the label. *)
UpdatedEverywhere(c, refs) ==
  IF Kind = "User" THEN UpdateUser(edges, Uuids, refs, targets)
                   ELSE UpdatePersona(edges, Uuids, refs, targets)

(* The nodes an update matches are those NAMED like the custom resource; a *)
(* node has the name its owner's spec.forProvider.name gave it for good.   *)
RelationsUpdated(c, refs) ==
  LET named == {u \in Uuids : attempt[u].owner \in {d \in CRs : NodeName[d] = c}} IN
  IF Kind = "User" THEN UpdateUser(edges, named, refs, targets)
                   ELSE UpdatePersona(edges, named, refs, targets)

-----------------------------------------------------------------------------
(* Mutants.  Each is what a definition of the same parameters would be with a *)
(* plausible bug; the specification never uses them.                          *)

(* A finalizer removed without waiting for the node to be gone. *)
FinalizeAtOnce ==
  /\ w.pc = "decide"
  /\ ~(w.obs = "absent" /\ ExternalCreateSucceededDuring(w.mg))
  /\ Goto(IF w.mg.deleting THEN "finalize" ELSE "addFinalizer")
  /\ UNCHANGED <<now, api, cache, synced, nodes, edges, targets, attempt, faults, edits>>

(* A node that drifted is deleted, to be created again. *)
ReplaceDrifted ==
  /\ w.pc = "decide"
  /\ ~(w.obs = "absent" /\ ExternalCreateSucceededDuring(w.mg))
  /\ Goto(IF w.obs = "outdated" THEN "delete"
          ELSE IF ~w.mg.deleting THEN "addFinalizer"
          ELSE IF w.obs = "absent" THEN "finalize" ELSE "delete")
  /\ UNCHANGED <<now, api, cache, synced, nodes, edges, targets, attempt, faults, edits>>

(* DELETE instead of DETACH DELETE, which Neo4j refuses for a related node. *)
DeleteWithoutDetach ==
  /\ w.pc = "delete"
  /\ IF RefsOf(w.mg.ext) = {} THEN nodes' = [nodes EXCEPT ![w.mg.ext] = "deleted"]
                              ELSE UNCHANGED nodes
  /\ Return /\ NoFault
  /\ UNCHANGED <<now, api, cache, edges, targets, attempt, edits>>

(* The creation goes on although the create-pending time was not stored. *)
PendingErrorIgnored ==
  /\ w.pc = "pending"
  /\ LET o    == [w.mg EXCEPT !.pending = now]
         next == [w EXCEPT !.mg = o, !.pc = "createNode"]
     IN  Update(o, next) \/ (w' = next /\ UNCHANGED <<api, synced, faults>>)
  /\ UNCHANGED <<now, cache, nodes, edges, targets, attempt, edits>>

(* The external name is set although the creation failed half way. *)
NameDespiteError ==
  /\ w.pc = "createEdges"
  /\ \/ /\ edges' = RelationsAdded(w.made, w.mg.refs) /\ NoFault
        /\ w' = [w EXCEPT !.mg.ext = w.made, !.pc = "recordSucceeded"]
     \/ /\ Fault /\ UNCHANGED edges
        /\ w' = [w EXCEPT !.mg.ext = w.made, !.pc = "recordFailed"]
  /\ UNCHANGED <<now, api, cache, synced, nodes, targets, attempt, edits>>

(* The end of the grace period is stored instead of its beginning. *)
DeadlineRecorded ==
  /\ w.pc = "recordSucceeded"
  /\ UpdateCriticalAnnotations([w.mg EXCEPT !.succeeded = now + GracePeriod], "recorded")
  /\ UNCHANGED <<now, cache, nodes, edges, targets, edits>>

-----------------------------------------------------------------------------
(* Reconcile, call by call. *)

(* Get through the cache.  A deleted resource whose policy is Orphan skips *)
(* everything but the finalizer.                                          *)
Start(c) ==
  /\ w.pc = "idle"
  /\ cache[c].phase = "present"
  /\ w' = [Idle EXCEPT !.cr = c, !.mg = cache[c], !.fresh = (c \in synced),
             !.pc = IF cache[c].deleting /\ c \in OrphanPolicy THEN "orphan" ELSE "initialize"]
  /\ UNCHANGED <<now, api, cache, synced, nodes, edges, targets, attempt, faults, edits>>

(* NameAsExternalName, the default initializer, which only User keeps: the *)
(* other kinds replace it by one that finds the provider config set.       *)
Initialize ==
  /\ w.pc = "initialize"
  /\ IF Kind = "User" /\ w.mg.ext = NoExt
     THEN LET o == [w.mg EXCEPT !.ext = OwnName]
          IN  Update(o, [w EXCEPT !.mg = o, !.pc = "check"])
     ELSE Goto("check") /\ UNCHANGED <<api, synced, faults>>
  /\ UNCHANGED <<now, cache, nodes, edges, targets, attempt, edits>>

(* A creation that was started and whose outcome is unknown: not requeued. *)
RefuseIncomplete ==
  /\ w.pc = "check"
  /\ ExternalCreateIncomplete(w.mg)
  /\ Return
  /\ UNCHANGED <<now, api, cache, nodes, edges, targets, attempt, faults, edits>>

(* Specs here name uuids, not other resources: nothing is left to resolve. *)
ResolveReferences ==
  /\ w.pc = "check"
  /\ ~ExternalCreateIncomplete(w.mg)
  /\ Goto("observe")
  /\ UNCHANGED <<now, api, cache, synced, nodes, edges, targets, attempt, faults, edits>>

(* Connect and Observe; an error of either ends the reconcile. *)
Observe ==
  /\ w.pc = "observe"
  /\ \/ \E obs \in Observations(w.mg) :
          w' = [w EXCEPT !.obs = obs, !.pc = "decide"] /\ NoFault /\ UNCHANGED synced
     \/ Fault /\ Return
  /\ UNCHANGED <<now, api, cache, nodes, edges, targets, attempt, edits>>

(* Not there, but created a moment ago: wait until it may be believed. *)
AwaitGrace ==
  /\ w.pc = "decide"
  /\ w.obs = "absent" /\ ExternalCreateSucceededDuring(w.mg)
  /\ Quit
  /\ UNCHANGED <<now, api, cache, nodes, edges, targets, attempt, faults, edits>>

Decide ==
  /\ w.pc = "decide"
  /\ ~(w.obs = "absent" /\ ExternalCreateSucceededDuring(w.mg))
  /\ Goto(IF ~w.mg.deleting THEN "addFinalizer"
          ELSE IF w.obs = "absent" THEN "finalize" ELSE "delete")
  /\ UNCHANGED <<now, api, cache, synced, nodes, edges, targets, attempt, faults, edits>>

(* external.Delete: committed, committed with the answer lost, or failed. *)
Delete ==
  /\ w.pc = "delete"
  /\ \/ /\ nodes' = [nodes EXCEPT ![w.mg.ext] = "deleted"]
        /\ edges' = DetachDelete(edges, w.mg.ext)
        /\ NoFault \/ Fault
     \/ Fault /\ UNCHANGED <<nodes, edges>>
  /\ Return
  /\ UNCHANGED <<now, api, cache, targets, attempt, edits>>

(* The last finalizer of a deleted object: the API server lets go of it. *)
RemoveFinalizer ==
  /\ w.pc \in {"finalize", "orphan"}
  /\ IF w.mg.finalizer
     THEN Update([w.mg EXCEPT !.finalizer = FALSE, !.phase = "gone"], Idle)
     ELSE Quit /\ UNCHANGED <<api, faults>>
  /\ UNCHANGED <<now, cache, nodes, edges, targets, attempt, edits>>

AfterFinalizer(o) ==
  [w EXCEPT !.mg = o, !.pc = IF w.obs = "absent" THEN "pending" ELSE "update"]

AddFinalizer ==
  /\ w.pc = "addFinalizer"
  /\ IF w.mg.finalizer
     THEN w' = AfterFinalizer(w.mg) /\ UNCHANGED <<api, synced, faults>>
     ELSE LET o == [w.mg EXCEPT !.finalizer = TRUE] IN Update(o, AfterFinalizer(o))
  /\ UNCHANGED <<now, cache, nodes, edges, targets, attempt, edits>>

WritePending ==
  /\ w.pc = "pending"
  /\ LET o == [w.mg EXCEPT !.pending = now]
     IN  Update(o, [w EXCEPT !.mg = o, !.pc = "createNode"])
  /\ UNCHANGED <<now, cache, nodes, edges, targets, attempt, edits>>

(* The first transaction of CreateUser or CreatePersona. *)
CreateNode ==
  /\ w.pc = "createNode"
  /\ \/ \E u \in Uuids :
          /\ nodes[u] = "unused"
          /\ nodes' = [nodes EXCEPT ![u] = "live"]
          /\ attempt' = [attempt EXCEPT ![u] =
                           [owner |-> w.cr, at |-> w.mg.pending, fate |-> "inflight"]]
          /\ \/ w' = [w EXCEPT !.made = u, !.pc = "createEdges"] /\ NoFault
             \/ w' = [w EXCEPT !.made = u, !.pc = "recordFailed"] /\ Fault
     \/ Fault /\ Goto("recordFailed") /\ UNCHANGED <<nodes, attempt>>
  /\ UNCHANGED <<now, api, cache, synced, edges, targets, edits>>

(* Whether Neo4j compiles the second transaction.  That of CreateTeam uses u *)
(* after a WITH that drops it (its third and fourth do no better), so that   *)
(* no Team ever has an external name, nor relationships.                     *)
Compiles == Kind # "Team"

(* The second one, and postCreate, which sets the external name in memory. *)
CreateEdges ==
  /\ w.pc = "createEdges"
  /\ \/ /\ Compiles
        /\ edges' = RelationsAdded(w.made, w.mg.refs)
        /\ \/ w' = [w EXCEPT !.mg.ext = w.made, !.pc = "recordSucceeded"] /\ NoFault
           \/ Goto("recordFailed") /\ Fault
     \/ /\ IF Compiles THEN Fault ELSE NoFault
        /\ Goto("recordFailed") /\ UNCHANGED edges
  /\ UNCHANGED <<now, api, cache, synced, nodes, targets, attempt, edits>>

RecordFailed ==
  /\ w.pc = "recordFailed"
  /\ UpdateCriticalAnnotations([w.mg EXCEPT !.failed = now], "failed")
  /\ UNCHANGED <<now, cache, nodes, edges, targets, edits>>

RecordSucceeded ==
  /\ w.pc = "recordSucceeded"
  /\ UpdateCriticalAnnotations([w.mg EXCEPT !.succeeded = now], "recorded")
  /\ UNCHANGED <<now, cache, nodes, edges, targets, edits>>

(* Up to date: nothing to do until the next poll. *)
UpToDate ==
  /\ w.pc = "update"
  /\ w.obs = "current"
  /\ Return
  /\ UNCHANGED <<now, api, cache, nodes, edges, targets, attempt, faults, edits>>

UpdateExternal ==
  /\ w.pc = "update"
  /\ w.obs = "outdated"
  /\ \/ edges' = RelationsUpdated(w.cr, w.mg.refs) /\ (NoFault \/ Fault)
     \/ Fault /\ UNCHANGED edges
  /\ Return
  /\ UNCHANGED <<now, api, cache, nodes, targets, attempt, edits>>

-----------------------------------------------------------------------------
(* Everything else that moves. *)

(* The process dies and starts again with a fresh list of the objects. *)
CrashRestart ==
  /\ w.pc # "idle"
  /\ Fault
  /\ w' = Idle
  /\ cache' = api
  /\ synced' = CRs
  /\ UNCHANGED <<now, api, nodes, edges, targets, attempt, edits>>

CacheSync(c) ==
  /\ c \notin synced
  /\ cache' = [cache EXCEPT ![c] = api[c]]
  /\ synced' = synced \cup {c}
  /\ UNCHANGED <<now, api, w, nodes, edges, targets, attempt, faults, edits>>

(* A write of somebody else: what the worker of c holds is no longer current. *)
WrittenByOther(c, o) ==
  /\ api' = [api EXCEPT ![c] = o]
  /\ synced' = synced \ {c}
  /\ w' = IF w.cr = c THEN [w EXCEPT !.fresh = FALSE] ELSE w

ApplyResource(c) ==
  /\ api[c].phase = "absent"
  /\ \E refs \in SUBSET Targets :
       WrittenByOther(c, [Blank EXCEPT !.phase = "present", !.refs = refs])
  /\ UNCHANGED <<now, cache, nodes, edges, targets, attempt, faults, edits>>

EditSpec(c) ==
  /\ api[c].phase = "present"
  /\ edits < MaxEdits
  /\ edits' = edits + 1
  /\ \E refs \in SUBSET Targets \ {api[c].refs} :
       WrittenByOther(c, [api[c] EXCEPT !.refs = refs])
  /\ UNCHANGED <<now, cache, nodes, edges, targets, attempt, faults>>

(* Without a finalizer the object goes at once. *)
DeleteResource(c) ==
  /\ api[c].phase = "present" /\ ~api[c].deleting
  /\ WrittenByOther(c, IF api[c].finalizer THEN [api[c] EXCEPT !.deleting = TRUE]
                                           ELSE [api[c] EXCEPT !.phase = "gone"])
  /\ UNCHANGED <<now, cache, nodes, edges, targets, attempt, faults, edits>>

(* Another controller deletes a node that specs refer to. *)
DeleteTarget(t) ==
  /\ t \in targets
  /\ targets' = targets \ {t}
  /\ edges' = DetachDelete(edges, t)
  /\ UNCHANGED <<now, api, cache, synced, w, nodes, attempt, faults, edits>>

Tick ==
  /\ now < MaxClock
  /\ now' = now + 1
  /\ UNCHANGED <<api, cache, synced, w, nodes, edges, targets, attempt, faults, edits>>

-----------------------------------------------------------------------------
WorkerStep ==
  \/ Initialize \/ RefuseIncomplete \/ ResolveReferences \/ Observe \/ AwaitGrace \/ Decide
  \/ Delete \/ RemoveFinalizer \/ AddFinalizer \/ WritePending \/ CreateNode \/ CreateEdges
  \/ RecordFailed \/ RecordSucceeded \/ UpToDate \/ UpdateExternal

UserStep(c) == ApplyResource(c) \/ EditSpec(c) \/ DeleteResource(c)

Next ==
  \/ \E c \in CRs : Start(c) \/ CacheSync(c) \/ UserStep(c)
  \/ WorkerStep
  \/ CrashRestart
  \/ \E t \in Targets : DeleteTarget(t)
  \/ Tick

Spec == Init /\ [][Next]_vars

(* The workqueue hands out every resource it holds, the informer catches up, *)
(* and the worker finishes what it started unless the process dies.          *)
Fairness ==
  /\ WF_vars(WorkerStep)
  /\ \A c \in CRs : SF_vars(Start(c)) /\ WF_vars(CacheSync(c))

FairSpec == Spec /\ Fairness

-----------------------------------------------------------------------------
(* Properties. *)

(* Every variable holds what the code can put there. *)
TypeOK ==
  /\ now \in Times \ {0}
  /\ api \in [CRs -> Object]
  /\ cache \in [CRs -> Object]
  /\ synced \subseteq CRs
  /\ w \in Worker
  /\ nodes \in [Uuids -> {"unused", "live", "deleted"}]
  /\ edges \subseteq Relationships(Uuids \cup Targets)
  /\ targets \subseteq Targets
  /\ attempt \in [Uuids -> Attempt]
  /\ faults \in 0 .. MaxFaults
  /\ edits \in 0 .. MaxEdits

(* Write-ahead: while the worker creates a node, the API server already holds *)
(* the finalizer and the create-pending time of this very creation, whatever  *)
(* users do to the object and however old the copy was that the reconcile     *)
(* started from.                                                              *)
CreatedUnderDurableMark ==
  w.pc \in CreateSection =>
    /\ api[w.cr].phase = "present" /\ api[w.cr].finalizer
    /\ api[w.cr].pending = w.mg.pending /\ w.mg.pending # 0

(* A creation whose outcome was never recorded, because the process died or   *)
(* the annotations could not be written, blocks every later creation for that *)
(* resource, unless an outcome recorded in the same second or later hides it. *)
UnrecordedCreateBlocks ==
  w.pc = "createNode" =>
    \A u \in Uuids :
      attempt[u].owner = w.cr /\ attempt[u].fate = "inflight" =>
        attempt[u].at <= LatestOutcome(api[w.cr])

(* An external name is never another resource's node, nor a node of a creation *)
(* that was reported as failed or of which the outcome is unknown.            *)
ExternalNameOwned ==
  \A c \in CRs :
    api[c].ext \in Uuids =>
      attempt[api[c].ext].owner = c /\ attempt[api[c].ext].fate = "recorded"

(* A recorded node that still grants something is the one its resource names, *)
(* and that resource is still there to revoke it (or gave it up on purpose).  *)
NoForgottenGrant ==
  \A u \in Uuids :
    attempt[u].fate = "recorded" /\ RefsOf(u) # {} =>
      LET c == attempt[u].owner IN
      api[c].ext = u /\ (api[c].phase = "present" \/ c \in OrphanPolicy)

(* A node is deleted only for a resource that names it and that a user asked *)
(* to delete.                                                               *)
NodesDeletedOnRequest ==
  [][\A u \in Uuids :
       nodes[u] = "live" /\ nodes'[u] = "deleted" =>
         \E c \in CRs : api[c].ext = u /\ api[c].deleting]_vars

(* The references of a node change only by the creation or the deletion of its  *)
(* own resource, with the nodes that they lead to, or by the update of a         *)
(* resource whose metadata.name is the name of the node, and then all of them    *)
(* to those of that resource.  That may be another resource than the one that    *)
(* the node was made for: nothing keeps spec.forProvider.name to metadata.name.   *)
RewiredByName ==
  [][\A u \in Uuids :
       RefsOf(u)' # RefsOf(u) =>
         LET owner == attempt[u].owner IN
         \/ targets' # targets
         \/ w.pc \in {"createEdges", "delete"} /\ w.cr = owner
         \/ /\ w.pc = "update" /\ w.cr = NodeName[owner]
            /\ RefsOf(u)' = w.mg.refs \cap targets]_vars

(* The controller keeps the promises of ExternalLifecycle: seen as follows,    *)
(* each of its steps is one of that specification, or changes nothing there.   *)
Phase == [c \in CRs |-> IF api[c].phase = "present" /\ api[c].deleting THEN "deleting"
                                                                      ELSE api[c].phase]
Name == [c \in CRs |-> IF api[c].ext \in Uuids THEN api[c].ext ELSE NoExt]
Status == [u \in Uuids |-> IF nodes[u] = "deleted" THEN "destroyed" ELSE attempt[u].fate]
Owner == [u \in Uuids |-> attempt[u].owner]
Grants == [u \in Uuids |-> RefsOf(u)]

Lifecycle == INSTANCE ExternalLifecycle WITH
  Resources <- CRs, Keepers <- OrphanPolicy, Nodes <- Uuids, Referents <- Targets,
  NoNode <- NoExt, Nobody <- NoCR,
  phase <- Phase, name <- Name, status <- Status, owner <- Owner, grants <- Grants

ImplementsLifecycle == Lifecycle!Spec

(* Deletion ends: the object goes, or it stays for a reason the code gives, a *)
(* creation it refuses to judge or one too recent to be believed missing.     *)
DeletionSettles ==
  \A c \in CRs :
    <>[](api[c].phase = "present" /\ api[c].deleting =>
           ExternalCreateIncomplete(api[c]) \/ ExternalCreateSucceededDuring(api[c]))

(* Creation ends: once faults stop, a resource names a node of its own or is *)
(* stopped by a creation of which the outcome is unknown.                    *)
CreationSettles ==
  \A c \in CRs :
    <>[](api[c].phase = "present" /\ ~api[c].deleting =>
           api[c].ext \in Uuids \/ ExternalCreateIncomplete(api[c]))

(* Once users stop editing, the node a resource names leads to the references *)
(* of its spec that exist.  Excused: the two cases of DeletionSettles.        *)
Converges ==
  \A c \in CRs :
    <>[](api[c].phase = "present" /\ ~api[c].deleting /\ api[c].ext \in Uuids =>
           \/ RefsOf(api[c].ext) = api[c].refs \cap targets
           \/ ExternalCreateIncomplete(api[c]) \/ ExternalCreateSucceededDuring(api[c]))

-----------------------------------------------------------------------------
(* What the code, its comments or its documentation say and TLC refutes. *)

(* neo4j.go: no references left means that the deletion was successful. *)
ReportedDeletedMeansDeleted ==
  w.pc = "decide" /\ w.obs = "absent" /\ w.mg.ext \in Uuids => nodes[w.mg.ext] # "live"

(* The managed reconciler retries after a creation recorded as failed, because *)
(* it then knows that no external resource was created.                        *)
FailedCreateLeavesNothing ==
  \A u \in Uuids : attempt[u].fate = "failed" => nodes[u] # "live"

=============================================================================
