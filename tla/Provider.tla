------------------------------ MODULE Provider ------------------------------
(***************************************************************************)
(* The provider process: the controllers of Users, Personas, PermissionSets  *)
(* and Teams work side by side on one graph, and refer to each other by the   *)
(* external names of their resources.  A User has access to what a           *)
(* PermissionSet delegates along a path                                      *)
(*                                                                          *)
(*     (User) -GRANTED-> (Persona) <-ATTACHED_TO- (PermissionSet)             *)
(*                                                                          *)
(* of which three controllers make a node each and two a relationship each.  *)
(* They share one more thing: a panic in one of them ends them all.          *)
(*                                                                          *)
(* The reconcile loop is that of ManagedReconciler, cut down to what the      *)
(* controllers see of each other: no informer cache, no clock, no Orphan     *)
(* policy; an object is compared where the code compares resource versions;  *)
(* of the three create annotations it is left whether the creation is taken  *)
(* for incomplete, and whether the last outcome is a failure, in the second  *)
(* of which a next creation would not be.  That of a                         *)
(* PermissionSet, which PermissionSetReconciler has in full, is cut down to  *)
(* its effects on the graph and on the object.  Nodes are numbered in the    *)
(* order of their creation: a number stands for a uuid, 0 for the empty      *)
(* external name and the provisional one of a User, which no node has.       *)
(***************************************************************************)
EXTENDS Naturals, FiniteSets, Sequences

CONSTANTS
  Users, Personas, PermissionSets,  \* names of the resources of each kind
  Teams,      \* Teams that users apply with an external name
  NodeName,   \* spec.forProvider.name of each of the others
  NoCR,       \* no resource
  MaxNodes,   \* bound: nodes ever created
  MaxUpsets   \* bound: failed calls, crashes, edits of specs and of the ProviderConfig, imports

G == INSTANCE GraphStore

Kinds == {"User", "Persona"}
Managed == Users \cup Personas \cup PermissionSets
Resources == Managed \cup Teams

ASSUME NamesAssumption ==
  /\ NoCR \notin Resources
  /\ Users \cap (Personas \cup PermissionSets \cup Teams) = {}
  /\ Personas \cap (PermissionSets \cup Teams) = {}
  /\ PermissionSets \cap Teams = {}
ASSUME BoundsAssumption == MaxNodes \in Nat /\ MaxUpsets \in Nat

VARIABLES
  objects,  \* the objects in the API server
  usable,   \* whether the ProviderConfig of all of them leads to the graph
  w,        \* the workers of the User and of the Persona controller
  nodes,    \* the nodes, with (history) what was recorded of their creation
  edges,    \* relationships
  upsets    \* failures, crashes, edits and imports so far

vars == <<objects, usable, w, nodes, edges, upsets>>

-----------------------------------------------------------------------------
KindOf(c) == IF c \in Users THEN "User" ELSE IF c \in Personas THEN "Persona" ELSE "PermissionSet"

(* personaRefs of a User, permissionSetRefs of a Persona. *)
Referable(c) == IF c \in Users THEN Personas ELSE IF c \in Personas THEN PermissionSets ELSE {}

Uuids == 1 .. MaxNodes

(* An identifier that users got from elsewhere. *)
Foreign == MaxNodes + 1

Object == [phase: {"absent", "present", "deleting", "gone"},
           refs: SUBSET (Personas \cup PermissionSets), values: SUBSET (1 .. Foreign),
           ext: 0 .. Foreign, providerRef: BOOLEAN, incomplete: BOOLEAN, failed: BOOLEAN,
           finalizer: BOOLEAN]

Worker == [step: {"idle", "decide", "createNode", "createEdges", "recordFailed", "recordSucceeded"},
           cr: Users \cup Personas \cup {NoCR}, mg: Object, obs: {"absent", "current", "outdated"},
           made: 0 .. MaxNodes]

(* hidden: unknown too, but the resource is not taken for incomplete. *)
Node == [owner: Managed, live: BOOLEAN, fate: {"unknown", "hidden", "recorded", "failed"}]

Blank == [phase |-> "absent", refs |-> {}, values |-> {}, ext |-> 0,
          providerRef |-> TRUE, incomplete |-> FALSE, failed |-> FALSE, finalizer |-> FALSE]

Idle == [step |-> "idle", cr |-> NoCR, mg |-> Blank, obs |-> "absent", made |-> 0]

Init ==
  /\ objects = [c \in Resources |-> Blank]
  /\ usable = TRUE
  /\ w = [k \in Kinds |-> Idle]
  /\ nodes = <<>> /\ edges = {}
  /\ upsets = 0

Calmly == UNCHANGED upsets
Upset == upsets < MaxUpsets /\ upsets' = upsets + 1

Living(c) == objects[c].phase \in {"present", "deleting"}

Continue(k, next) == w' = [w EXCEPT ![k] = next]
Quit(k) == Continue(k, Idle)

(* All goroutines end with the process; the next one starts with nothing. *)
Restart == w' = [k \in Kinds |-> Idle]

-----------------------------------------------------------------------------
(* What the statements see of the graph. *)

Labelled(k) == {n \in DOMAIN nodes : nodes[n].live /\ KindOf(nodes[n].owner) = k}

(* Those with a name; metadata.name is looked for, forProvider.name is found. *)
Named(k, c) == {n \in Labelled(k) : NodeName[nodes[n].owner] = c}

(* cmp.Equal compares lists; what collect() returns has no order. *)
Compared(found, values) ==
  IF found = {} THEN {"absent"}
  ELSE IF found # values THEN {"outdated"}
       ELSE IF Cardinality(found) = 1 THEN {"current"} ELSE {"current", "outdated"}

ObserveUser(o) == Compared(G!GetUserRefs(edges, o.ext, Labelled("Persona")), o.values)

ObservePersona(o) == Compared(G!GetPersonaRefs(edges, o.ext, Labelled("PermissionSet")), o.values)

Observations(c) == IF c \in Users THEN ObserveUser(objects[c]) ELSE ObservePersona(objects[c])

-----------------------------------------------------------------------------
(* A reconcile begins. *)

(* Mutant of Ready: a deleted resource is not asked whether it is incomplete. *)
ReadyOrDeleting(c) == Living(c) /\ (objects[c].incomplete => objects[c].phase = "deleting")

Ready(c) == Living(c) /\ ~objects[c].incomplete

(* A deleted resource is not resolved, nor is one that has values. *)
Unresolved(c) ==
  objects[c].phase = "present" /\ objects[c].values = {} /\ objects[c].refs # {}

(* All references or none; the object is written before anything else happens. *)
ResolveReferences(c) ==
  /\ w[KindOf(c)].step = "idle"
  /\ Ready(c) /\ Unresolved(c)
  /\ \A d \in objects[c].refs : Living(d) /\ objects[d].ext # 0
  /\ objects' = [objects EXCEPT ![c].values = {objects[d].ext : d \in objects[c].refs}]
  /\ UNCHANGED <<usable, w, nodes, edges, upsets>>

(* The credentials parse, and lead to a graph. *)
NewNeo4jStorage == usable

(* GetProviderReference() is nil for a User that has no provider reference, *)
(* whatever the ProviderConfig; nothing recovers from the panic.            *)
ConnectPanics(c) == c \in Users /\ ~objects[c].providerRef

PanicInConnect(c) ==
  /\ w["User"].step = "idle"
  /\ Ready(c) /\ ~Unresolved(c) /\ ConnectPanics(c)
  /\ Restart
  /\ UNCHANGED <<objects, usable, nodes, edges, upsets>>

(* Connect, when it ends: with a client of the graph, or with an error. *)
ConnectUser(c) == ~ConnectPanics(c) /\ NewNeo4jStorage
ConnectPersona == NewNeo4jStorage
ConnectPermissionSet == NewNeo4jStorage
ConnectTeam == NewNeo4jStorage

Connects(c) == IF c \in Users THEN ConnectUser(c) ELSE ConnectPersona

(* GetTeam asks for a Persona with the uuid of the Team and takes the second  *)
(* value of a record that has one, whether or not there is any such node.     *)
GetTeamPanics(t) == objects[t].ext # 0

PanicInObserve(t) ==
  /\ Living(t) /\ ConnectTeam /\ GetTeamPanics(t)
  /\ Restart
  /\ UNCHANGED <<objects, usable, nodes, edges, upsets>>

Observe(c) ==
  /\ w[KindOf(c)].step = "idle"
  /\ Ready(c) /\ ~Unresolved(c) /\ Connects(c)
  /\ \E obs \in Observations(c) :
       Continue(KindOf(c), [Idle EXCEPT !.step = "decide", !.cr = c, !.mg = objects[c], !.obs = obs])
  /\ UNCHANGED <<objects, usable, nodes, edges, upsets>>

-----------------------------------------------------------------------------
(* ... and goes on, in the controller of kind k. *)

Deciding(k, phase) == w[k].step = "decide" /\ w[k].mg.phase = phase

(* A write of the worker's object, now o, refused if the object has changed. *)
Write(k, o, next) ==
  \/ /\ objects[w[k].cr] = w[k].mg
     /\ objects' = [objects EXCEPT ![w[k].cr] = o]
     /\ (Continue(k, next) /\ Calmly) \/ (Quit(k) /\ Upset)
  \/ objects[w[k].cr] # w[k].mg /\ Quit(k) /\ Calmly /\ UNCHANGED objects

(* Mutant of RemoveFinalizer: whether or not the node is still there. *)
FinalizeEarly(k) ==
  /\ Deciding(k, "deleting")
  /\ Write(k, [w[k].mg EXCEPT !.phase = "gone", !.finalizer = FALSE], Idle)
  /\ UNCHANGED <<usable, nodes, edges>>

RemoveFinalizer(k) ==
  /\ Deciding(k, "deleting") /\ w[k].obs = "absent"
  /\ Write(k, [w[k].mg EXCEPT !.phase = "gone", !.finalizer = FALSE], Idle)
  /\ UNCHANGED <<usable, nodes, edges>>

AddFinalizer(k) ==
  /\ Deciding(k, "present") /\ ~w[k].mg.finalizer
  /\ LET o == [w[k].mg EXCEPT !.finalizer = TRUE] IN Write(k, o, [w[k] EXCEPT !.mg = o])
  /\ UNCHANGED <<usable, nodes, edges>>

(* A create-pending time in the second of the last failure is not after it, so *)
(* that the creation is not taken for incomplete; a success is longer ago, by   *)
(* the grace period at least.                                                  *)
Marks(o) == IF o.failed THEN BOOLEAN ELSE {TRUE}

Unrecorded(marked) == IF marked THEN "unknown" ELSE "hidden"

WritePending(k) ==
  /\ Deciding(k, "present") /\ w[k].mg.finalizer /\ w[k].obs = "absent"
  /\ \E marked \in Marks(w[k].mg) :
       LET o == [w[k].mg EXCEPT !.incomplete = marked]
       IN  Write(k, o, [w[k] EXCEPT !.mg = o, !.step = "createNode"])
  /\ UNCHANGED <<usable, nodes, edges>>

(* A transaction of a creation commits; its answer arrives, or it is lost. *)
Committed(k, next) ==
  \/ Continue(k, next) /\ Calmly
  \/ Continue(k, [next EXCEPT !.step = "recordFailed"]) /\ Upset

(* CREATE of a node; out of numbers, it fails. *)
AddNode(k, step) ==
  /\ w[k].step = "createNode"
  /\ IF Len(nodes) < MaxNodes
     THEN /\ nodes' = Append(nodes, [owner |-> w[k].cr, live |-> TRUE,
                                     fate |-> Unrecorded(w[k].mg.incomplete)])
          /\ Committed(k, [w[k] EXCEPT !.step = step, !.made = Len(nodes')])
     ELSE Continue(k, [w[k] EXCEPT !.step = "recordFailed"]) /\ Calmly /\ UNCHANGED nodes
  /\ UNCHANGED <<objects, usable, edges>>

(* Mutant of AddUser: the second transaction is forgotten. *)
AddUserOnly == AddNode("User", "recordSucceeded")

AddUser == AddNode("User", "createEdges")
AddPersona == AddNode("Persona", "createEdges")

Relate(k, E) ==
  /\ w[k].step = "createEdges"
  /\ edges' = E
  /\ Committed(k, [w[k] EXCEPT !.step = "recordSucceeded"])
  /\ UNCHANGED <<objects, usable, nodes>>

CreateUser ==
  Relate("User", G!AddUserPersonaRelation(edges, w["User"].made, w["User"].mg.values,
                                          Labelled("Persona")))

CreatePersona ==
  Relate("Persona", G!AddPersonaPermissionSetRelation(edges, w["Persona"].made,
                                          w["Persona"].mg.values, Labelled("PermissionSet")))

(* UpdateCriticalAnnotations, over the latest object; o is what it becomes. *)
Record(k, o, fate) ==
  /\ objects' = [objects EXCEPT ![w[k].cr] = o]
  /\ nodes' = IF w[k].made = 0 THEN nodes ELSE [nodes EXCEPT ![w[k].made].fate = fate]
  /\ Quit(k)
  /\ UNCHANGED <<usable, edges, upsets>>

RecordFailed(k) ==
  /\ w[k].step = "recordFailed"
  /\ Record(k, [objects[w[k].cr] EXCEPT !.incomplete = FALSE, !.failed = TRUE], "failed")

RecordSucceeded(k) ==
  /\ w[k].step = "recordSucceeded"
  /\ Record(k, [objects[w[k].cr] EXCEPT !.incomplete = FALSE, !.failed = FALSE,
                                         !.ext = w[k].made], "recorded")

UpToDate(k) ==
  /\ Deciding(k, "present") /\ w[k].mg.finalizer /\ w[k].obs = "current"
  /\ Quit(k)
  /\ UNCHANGED <<objects, usable, nodes, edges, upsets>>

Rewire(k, E) ==
  /\ Deciding(k, "present") /\ w[k].mg.finalizer /\ w[k].obs = "outdated"
  /\ edges' = E
  /\ Quit(k)
  /\ UNCHANGED <<objects, usable, nodes, upsets>>

UpdateUser ==
  Rewire("User", G!UpdateUser(edges, Named("User", w["User"].cr), w["User"].mg.values,
                              Labelled("Persona")))

(* Mutant of UpdatePersona: MERGE, not MATCH, of the permission sets. *)
MergePersona ==
  Rewire("Persona", G!UpdatePersona(edges, Named("Persona", w["Persona"].cr),
                                    w["Persona"].mg.values, Labelled("PermissionSet") \cup {Foreign}))

UpdatePersona ==
  Rewire("Persona", G!UpdatePersona(edges, Named("Persona", w["Persona"].cr),
                                    w["Persona"].mg.values, Labelled("PermissionSet")))

(* Mutant of Delete: DELETE, not DETACH DELETE. *)
DeleteBare(k) ==
  /\ Deciding(k, "deleting") /\ w[k].obs # "absent"
  /\ G!DetachDelete(edges, w[k].mg.ext) = edges
  /\ nodes' = [nodes EXCEPT ![w[k].mg.ext].live = FALSE]
  /\ Quit(k)
  /\ UNCHANGED <<objects, usable, edges, upsets>>

Delete(k) ==
  /\ Deciding(k, "deleting") /\ w[k].obs # "absent"
  /\ nodes' = [nodes EXCEPT ![w[k].mg.ext].live = FALSE]
  /\ edges' = G!DetachDelete(edges, w[k].mg.ext)
  /\ Quit(k)
  /\ UNCHANGED <<objects, usable, upsets>>

DeleteUser == Delete("User")
DeletePersona == Delete("Persona")

(* A call fails without effect.  During a creation its failure is recorded; *)
(* otherwise, also when that can not be written, the reconcile ends.        *)
Fail(k) ==
  /\ w[k].step # "idle"
  /\ Upset
  /\ IF w[k].step \in {"createNode", "createEdges"}
     THEN Continue(k, [w[k] EXCEPT !.step = "recordFailed"])
     ELSE Quit(k)
  /\ UNCHANGED <<objects, usable, nodes, edges>>

-----------------------------------------------------------------------------
(* The controller of PermissionSets: all of a creation, of which the outcome is *)
(* recorded, as a success or as a failure, or not (the calls that only fail     *)
(* leave things as they are) ...                                               *)
NewPermissionSet(s, fate) == nodes' = Append(nodes, [owner |-> s, live |-> TRUE, fate |-> fate])

CreatePermissionSet(s) ==
  /\ Ready(s) /\ ConnectPermissionSet
  /\ objects[s].phase = "present" /\ objects[s].ext = 0
  /\ Len(nodes) < MaxNodes
  /\ \/ /\ Calmly
        /\ objects' = [objects EXCEPT ![s].ext = Len(nodes) + 1, ![s].failed = FALSE,
                                      ![s].finalizer = TRUE]
        /\ NewPermissionSet(s, "recorded")
     \/ /\ Upset
        /\ objects' = [objects EXCEPT ![s].failed = TRUE, ![s].finalizer = TRUE]
        /\ NewPermissionSet(s, "failed")
     \/ /\ Upset
        /\ \E marked \in Marks(objects[s]) :
             /\ objects' = [objects EXCEPT ![s].incomplete = marked, ![s].finalizer = TRUE]
             /\ NewPermissionSet(s, Unrecorded(marked))
  /\ UNCHANGED <<usable, w, edges>>

(* ... the deletion of its node ... *)
DeletePermissionSet(s) ==
  /\ Ready(s) /\ ConnectPermissionSet
  /\ objects[s].phase = "deleting" /\ objects[s].ext \in Labelled("PermissionSet")
  /\ nodes' = [nodes EXCEPT ![objects[s].ext].live = FALSE]
  /\ edges' = G!DetachDelete(edges, objects[s].ext)
  /\ UNCHANGED <<objects, usable, w, upsets>>

(* ... and, when that is no more to be found, of the object. *)
ReleasePermissionSet(s) ==
  /\ Ready(s) /\ ConnectPermissionSet
  /\ objects[s].phase = "deleting" /\ objects[s].ext \notin Labelled("PermissionSet")
  /\ objects' = [objects EXCEPT ![s].phase = "gone", ![s].finalizer = FALSE]
  /\ UNCHANGED <<usable, w, nodes, edges, upsets>>

-----------------------------------------------------------------------------
(* Users of the API server, and crashes. *)

WriteSpec(c, o) ==
  /\ objects' = [objects EXCEPT ![c] = o]
  /\ UNCHANGED <<w, nodes, edges>>

References(c) == IF Referable(c) = {} THEN {{}} ELSE SUBSET Referable(c) \ {{}}
ProviderRefs(c) == IF c \in Users THEN BOOLEAN ELSE {TRUE}

ApplyResource(c) ==
  /\ objects[c].phase = "absent"
  /\ \E refs \in References(c), p \in ProviderRefs(c) :
       WriteSpec(c, [Blank EXCEPT !.phase = "present", !.refs = refs, !.providerRef = p])
  /\ UNCHANGED <<usable, upsets>>

(* References, and the values that they were resolved to: cleared, to be   *)
(* looked up again, or given.                                              *)
EditSpec(c) ==
  /\ Living(c)
  /\ Upset
  /\ \E refs \in References(c), values \in {{}, {Foreign}}, p \in ProviderRefs(c) :
       LET o == [objects[c] EXCEPT !.refs = refs, !.values = values, !.providerRef = p] IN
       o # objects[c] /\ WriteSpec(c, o)
  /\ UNCHANGED usable

DeleteResource(c) ==
  /\ objects[c].phase = "present"
  /\ objects' = [objects EXCEPT ![c].phase = IF objects[c].finalizer THEN "deleting" ELSE "gone"]
  /\ UNCHANGED <<usable, w, nodes, edges, upsets>>

ImportTeam(t) ==
  /\ objects[t].phase = "absent"
  /\ objects' = [objects EXCEPT ![t].phase = "present", ![t].ext = Foreign]
  /\ Upset
  /\ UNCHANGED <<usable, w, nodes, edges>>

(* Credentials that do not parse or lead nowhere, a storage type other than *)
(* neo4j; and their repair.                                                *)
EditConfig ==
  /\ IF usable THEN Upset ELSE Calmly
  /\ usable' = ~usable
  /\ UNCHANGED <<objects, w, nodes, edges>>

CrashRestart ==
  /\ \E k \in Kinds : w[k].step # "idle"
  /\ Restart /\ Upset
  /\ UNCHANGED <<objects, usable, nodes, edges>>

-----------------------------------------------------------------------------
Reconcile(c) == ResolveReferences(c) \/ Observe(c)

Step(k) ==
  RemoveFinalizer(k) \/ AddFinalizer(k) \/ WritePending(k)
    \/ RecordFailed(k) \/ RecordSucceeded(k) \/ UpToDate(k)

UserStep == AddUser \/ CreateUser \/ UpdateUser \/ DeleteUser
PersonaStep == AddPersona \/ CreatePersona \/ UpdatePersona \/ DeletePersona
PermissionSetStep(s) == CreatePermissionSet(s) \/ DeletePermissionSet(s) \/ ReleasePermissionSet(s)

Next ==
  \/ \E c \in Users \cup Personas : Reconcile(c) \/ EditSpec(c)
  \/ \E s \in PermissionSets : PermissionSetStep(s)
  \/ \E c \in Managed : ApplyResource(c)
  \/ \E c \in Resources : DeleteResource(c)
  \/ \E c \in Users : PanicInConnect(c)
  \/ \E t \in Teams : ImportTeam(t) \/ PanicInObserve(t)
  \/ \E k \in Kinds : Step(k) \/ Fail(k)
  \/ UserStep \/ PersonaStep
  \/ EditConfig \/ CrashRestart

Spec == Init /\ [][Next]_vars

(* Each controller has a worker that finishes what it began, and a workqueue *)
(* that hands out its resources again and again.                            *)
Fairness ==
  /\ \A k \in Kinds : WF_vars(Step(k))
  /\ WF_vars(UserStep) /\ WF_vars(PersonaStep)
  /\ \A c \in Users \cup Personas : SF_vars(Reconcile(c))
  /\ \A s \in PermissionSets : SF_vars(PermissionSetStep(s))

FairSpec == Spec /\ Fairness

-----------------------------------------------------------------------------
(* Properties. *)

(* Every variable holds what the code can put there. *)
TypeOK ==
  /\ objects \in [Resources -> Object]
  /\ usable \in BOOLEAN
  /\ w \in [Kinds -> Worker]
  /\ nodes \in Seq(Node) /\ Len(nodes) <= MaxNodes
  /\ edges \subseteq G!Relationships(DOMAIN nodes)
  /\ upsets \in 0 .. MaxUpsets

(* Who has access to what: User, Persona and PermissionSet node of each path. *)
AccessPaths ==
  {<<p[1].from, p[1].to, p[2].from>> : p \in
     {q \in edges \X edges : q[1].type = "GRANTED" /\ q[2].type = "ATTACHED_TO" /\ q[1].to = q[2].to}}

(* Access is accounted for: of the nodes along an access path, each one whose  *)
(* creation was recorded is the node that its resource names, and that         *)
(* resource is still there, however the three controllers, crashes and panics  *)
(* interleave.  Nobody has access through a node whose creation was recorded   *)
(* and whose resource is gone; but a User whose creation committed and was     *)
(* recorded as failed may be gone, and its node keep its access.               *)
AccessAccountedFor ==
  \A path \in AccessPaths : \A i \in 1 .. 3 :
    LET node == nodes[path[i]] IN
    node.fate = "recorded" => objects[node.owner].ext = path[i] /\ Living(node.owner)

(* A panic in one controller may end another between two transactions: the    *)
(* resource whose node may then exist without anybody knowing is still there,  *)
(* and taken for incomplete, and no other node is made for it.  Not so where   *)
(* the creation began in the second in which an earlier one failed: that of    *)
(* pending is not after that of the failure, as UnrecordedCreateBlocks says.   *)
UnknownOutcomeMarked ==
  \A n \in DOMAIN nodes :
    nodes[n].fate = "unknown" =>
      LET c == nodes[n].owner IN
      /\ Living(c) /\ objects[c].incomplete
      /\ \A m \in DOMAIN nodes : nodes[m].owner = c => m <= n

Panics == (\E c \in Users : Living(c) /\ ConnectPanics(c)) \/ (\E t \in Teams : Living(t))

(* Nothing holds the controllers up, as they hold each other up by panics. *)
Calm == usable /\ ~Panics

(* Deletion ends, of resources that refer to each other too, once nothing ends *)
(* or refuses every reconcile: unless a creation of unknown outcome holds the   *)
(* resource.                                                                   *)
DeletionSettles ==
  \A c \in Managed : <>[](Calm /\ objects[c].phase = "deleting" => objects[c].incomplete)

(* The values a resource was resolved to are the present external names. *)
Fresh(c) == objects[c].values \in {{}, {objects[d].ext : d \in objects[c].refs}}

(* The nodes a User has been granted are other ones than its spec says: no   *)
(* update changes that (UserUpdateIgnored).                                  *)
Mismatched(u) ==
  objects[u].ext # 0 /\ G!GetUserRefs(edges, objects[u].ext, Labelled("Persona"))
                          \notin {{}, objects[u].values}

(* Access arrives: a User that refers to a Persona that refers to a           *)
(* PermissionSet ends up with a path to it, in whatever order the three were   *)
(* applied and reconciled, if each has its metadata.name as the name of its     *)
(* node.  Not so, ever, if the Persona was made again after the User was        *)
(* resolved: a Persona that lost its last permission set is taken for deleted,  *)
(* and its Users keep the uuid of the node it had.                              *)
AccessArrives ==
  \A u \in Users, p \in Personas, s \in PermissionSets :
    <>[](/\ Calm
         /\ \A c \in {u, p, s} : objects[c].ext # 0 \/ Len(nodes) < MaxNodes
         /\ \A c \in {u, p} \cup objects[u].refs \cup objects[p].refs :
              objects[c].phase = "present" /\ ~objects[c].incomplete
         /\ p \in objects[u].refs /\ s \in objects[p].refs
         /\ Fresh(u) /\ Fresh(p) /\ ~Mismatched(u)
         => <<objects[u].ext, objects[p].ext, objects[s].ext>> \in AccessPaths)

=============================================================================
