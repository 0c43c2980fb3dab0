----------------------- MODULE PermissionSetReconciler -----------------------
(***************************************************************************)
(* The PermissionSet controller and the part of the graph it shares: a       *)
(* permission set delegates to an Account and to a Role, which are created   *)
(* when they are first asked for, are never deleted, and belong to no        *)
(* resource.  Several resources may bind to one account, each spelling its   *)
(* alias (which stands for alias and class here: the code treats them alike) *)
(* in its own way.                                                           *)
(*                                                                          *)
(* The reconcile loop is that of ManagedReconciler, cut down to what decides *)
(* which transactions run: the worker's copy of the object, the writes that  *)
(* are refused if the object has changed since (its copy of the object is    *)
(* compared where the code compares resource versions), and the mark of a    *)
(* creation whose outcome is not known.                                     *)
(*                                                                          *)
(* Nodes are numbered in the order of their creation: a permission set's     *)
(* number stands for its uuid, and 0 for the empty external name.            *)
(***************************************************************************)
EXTENDS Naturals, FiniteSets, Sequences

CONSTANTS
  CRs,          \* names of the PermissionSets
  AccountIds,   \* bindTo.account
  Aliases,      \* bindTo.accountAlias and bindTo.accountClass
  RoleNames,    \* bindTo.roleName
  NoCR,         \* no resource
  MaxFaults,    \* bound: failed calls and crashes
  MaxEdits      \* bound: edits of a spec

ASSUME NamesAssumption == NoCR \notin CRs
ASSUME BindingAssumption == AccountIds # {} /\ Aliases # {} /\ RoleNames # {}
ASSUME BoundsAssumption == MaxFaults \in Nat /\ MaxEdits \in Nat

VARIABLES
  objects,  \* the objects in the API server
  w,        \* the worker
  accounts, \* Account nodes; several may have one id
  roles,    \* Role nodes, one for each name
  sets,     \* PermissionSet nodes, with (history) the resource and the binding of each
  to,       \* DELEGATES_ACCESS_TO, from permission sets to accounts
  with,     \* DELEGATES_ACCESS_WITH, from permission sets to roles
  strays,   \* account and role of the nodes without label that updates make
  spelled,  \* history: the accounts and aliases specs have named
  faults,   \* faults so far
  edits     \* edits so far

graph == <<accounts, roles, sets, to, with, strays>>
vars == <<objects, w, graph, spelled, faults, edits>>

-----------------------------------------------------------------------------
AccountRoleBinding == [account: AccountIds, alias: Aliases, role: RoleNames]

(* incomplete: the create-pending time is the latest of the three. *)
Object == [phase: {"absent", "present", "deleting", "gone"}, bindTo: AccountRoleBinding,
           ext: Nat, incomplete: BOOLEAN, finalizer: BOOLEAN]

Creating == {"mergeAccount", "mergeRole", "createNode", "link"}

Worker == [step: {"idle", "decide", "recordFailed", "recordSucceeded"} \cup Creating,
           cr: CRs \cup {NoCR}, mg: Object, obs: {"absent", "current", "outdated"},
           made: Nat]

Account == [id: AccountIds, alias: Aliases]

PermissionSet == [live: BOOLEAN, owner: CRs, bindTo: AccountRoleBinding]

Blank == [phase |-> "absent", bindTo |-> CHOOSE b \in AccountRoleBinding : TRUE,
          ext |-> 0, incomplete |-> FALSE, finalizer |-> FALSE]

Idle == [step |-> "idle", cr |-> NoCR, mg |-> Blank, obs |-> "absent", made |-> 0]

Init ==
  /\ objects = [c \in CRs |-> Blank]
  /\ w = Idle
  /\ accounts = <<>> /\ roles = {} /\ sets = <<>>
  /\ to = {} /\ with = {} /\ strays = {}
  /\ spelled = {}
  /\ faults = 0 /\ edits = 0

NoFault == UNCHANGED faults
Fault == faults < MaxFaults /\ faults' = faults + 1

Goto(step) == w' = [w EXCEPT !.step = step]

(* A transaction of a creation: its answer arrives, or it is lost. *)
Committed(next) == (w' = next /\ NoFault) \/ (w' = [next EXCEPT !.step = "recordFailed"] /\ Fault)

-----------------------------------------------------------------------------
(* The statements. *)

AccountsWith(id) == {a \in DOMAIN accounts : accounts[a].id = id}

(* The rows GetPermissionSet finds for a uuid.  An account linked twice brings *)
(* its role twice: pairs are enough to tell none, one and several.            *)
Rows(u) == {r \in (DOMAIN accounts) \X RoleNames : <<u, r[1]>> \in to /\ <<u, r[2]>> \in with}

BindingOf(row) ==
  [account |-> accounts[row[1]].id, alias |-> accounts[row[1]].alias, role |-> row[2]]

(* result.Single() refuses several rows: Observe fails. *)
Ambiguous(u) == Cardinality(Rows(u)) > 1

Observation(o) ==
  IF o.ext = 0 \/ Rows(o.ext) = {} THEN "absent"
  ELSE IF \A r \in Rows(o.ext) : BindingOf(r) = o.bindTo THEN "current" ELSE "outdated"

-----------------------------------------------------------------------------
(* Mutants of the transactions below. *)

(* The alias is left out when it is empty. *)
MergeIdOnly ==
  /\ w.step = "mergeAccount"
  /\ accounts' = Append(accounts, [id |-> w.mg.bindTo.account])
  /\ Committed([w EXCEPT !.step = "mergeRole"])
  /\ UNCHANGED <<objects, roles, sets, to, with, strays, spelled, edits>>

(* CREATE instead of MERGE. *)
CreateAccount ==
  /\ w.step = "mergeAccount"
  /\ accounts' = Append(accounts, [id |-> w.mg.bindTo.account, alias |-> w.mg.bindTo.alias])
  /\ Committed([w EXCEPT !.step = "mergeRole"])
  /\ UNCHANGED <<objects, roles, sets, to, with, strays, spelled, edits>>

(* The role is expected to be there already. *)
SkipRole ==
  /\ w.step = "mergeRole"
  /\ Committed([w EXCEPT !.step = "createNode"])
  /\ UNCHANGED <<objects, graph, spelled, edits>>

(* The update moves the relationships of every set bound to the account. *)
RebindAll ==
  /\ w.step = "decide" /\ w.mg.phase = "present" /\ w.obs = "outdated"
  /\ LET b  == w.mg.bindTo
         us == {u \in DOMAIN sets : b.role \in roles /\ \E a \in AccountsWith(b.account) : <<u, a>> \in to}
     IN  with' = {p \in with : p[1] \notin us} \cup (us \X {b.role})
  /\ NoFault
  /\ w' = Idle
  /\ UNCHANGED <<objects, accounts, roles, sets, to, strays, spelled, edits>>

(* The finalizer goes without waiting for the deletion of the node. *)
FinalizeEarly ==
  /\ w.step = "decide" /\ w.mg.phase = "deleting"
  /\ objects' = [objects EXCEPT ![w.cr].phase = "gone", ![w.cr].finalizer = FALSE]
  /\ w' = Idle /\ NoFault
  /\ UNCHANGED <<graph, spelled, edits>>

(* DELETE of a node that has relationships, which Neo4j refuses. *)
DeleteUnlinked ==
  /\ w.step = "decide" /\ w.mg.phase = "deleting" /\ w.obs # "absent"
  /\ IF Rows(w.mg.ext) = {} THEN sets' = [sets EXCEPT ![w.mg.ext].live = FALSE]
                            ELSE UNCHANGED sets
  /\ w' = Idle /\ NoFault
  /\ UNCHANGED <<objects, accounts, roles, to, with, strays, spelled, edits>>

-----------------------------------------------------------------------------
(* Reconcile. *)

(* A resource with an incomplete creation is refused, and one whose observation *)
(* fails ends there: neither changes anything.                                *)
Observe(c) ==
  /\ w.step = "idle"
  /\ objects[c].phase \in {"present", "deleting"} /\ ~objects[c].incomplete
  /\ objects[c].ext # 0 => ~Ambiguous(objects[c].ext)
  /\ w' = [Idle EXCEPT !.step = "decide", !.cr = c, !.mg = objects[c],
                       !.obs = Observation(objects[c])]
  /\ UNCHANGED <<objects, graph, spelled, faults, edits>>

(* A write of the worker's object, now o, refused if the object has changed. *)
Write(o, next) ==
  \/ /\ objects[w.cr] = w.mg
     /\ objects' = [objects EXCEPT ![w.cr] = o]
     /\ (w' = next /\ NoFault) \/ (w' = Idle /\ Fault)
  \/ objects[w.cr] # w.mg /\ w' = Idle /\ NoFault /\ UNCHANGED objects
  \/ Fault /\ w' = Idle /\ UNCHANGED objects

RemoveFinalizer ==
  /\ w.step = "decide" /\ w.mg.phase = "deleting" /\ w.obs = "absent"
  /\ Write([w.mg EXCEPT !.phase = "gone", !.finalizer = FALSE], Idle)
  /\ UNCHANGED <<graph, spelled, edits>>

AddFinalizer ==
  /\ w.step = "decide" /\ w.mg.phase = "present" /\ ~w.mg.finalizer
  /\ LET o == [w.mg EXCEPT !.finalizer = TRUE] IN Write(o, [w EXCEPT !.mg = o])
  /\ UNCHANGED <<graph, spelled, edits>>

WritePending ==
  /\ w.step = "decide" /\ w.mg.phase = "present" /\ w.mg.finalizer /\ w.obs = "absent"
  /\ LET o == [w.mg EXCEPT !.incomplete = TRUE]
     IN  Write(o, [w EXCEPT !.mg = o, !.step = "mergeAccount"])
  /\ UNCHANGED <<graph, spelled, edits>>

(* MERGE of an account with this id, this alias and this class. *)
MergeAccount ==
  /\ w.step = "mergeAccount"
  /\ LET account == [id |-> w.mg.bindTo.account, alias |-> w.mg.bindTo.alias] IN
     accounts' = IF \E a \in DOMAIN accounts : accounts[a] = account
                 THEN accounts ELSE Append(accounts, account)
  /\ Committed([w EXCEPT !.step = "mergeRole"])
  /\ UNCHANGED <<objects, roles, sets, to, with, strays, spelled, edits>>

MergeRole ==
  /\ w.step = "mergeRole"
  /\ roles' = roles \cup {w.mg.bindTo.role}
  /\ Committed([w EXCEPT !.step = "createNode"])
  /\ UNCHANGED <<objects, accounts, sets, to, with, strays, spelled, edits>>

CreateNode ==
  /\ w.step = "createNode"
  /\ sets' = Append(sets, [live |-> TRUE, owner |-> w.cr, bindTo |-> w.mg.bindTo])
  /\ Committed([w EXCEPT !.step = "link", !.made = Len(sets')])
  /\ UNCHANGED <<objects, accounts, roles, to, with, strays, spelled, edits>>

(* MATCH by id alone: every account node with the id is linked.  postCreate *)
(* sets the external name in memory.                                       *)
Link ==
  /\ w.step = "link"
  /\ LET b       == w.mg.bindTo
         matched == IF b.role \in roles THEN AccountsWith(b.account) ELSE {}
     IN  /\ to' = to \cup ({w.made} \X matched)
         /\ with' = with \cup {p \in {<<w.made, b.role>>} : matched # {}}
  /\ Committed([w EXCEPT !.step = "recordSucceeded", !.mg.ext = w.made])
  /\ UNCHANGED <<objects, accounts, roles, sets, strays, spelled, edits>>

(* A transaction of the creation fails. *)
FailCreate ==
  /\ w.step \in Creating
  /\ Fault
  /\ Goto("recordFailed")
  /\ UNCHANGED <<objects, graph, spelled, edits>>

(* UpdateCriticalAnnotations: over the latest object, or given up. *)
RecordOutcome(o) ==
  /\ \/ objects' = [objects EXCEPT ![w.cr] = o] /\ NoFault
     \/ Fault /\ UNCHANGED objects
  /\ w' = Idle
  /\ UNCHANGED <<graph, spelled, edits>>

RecordFailed ==
  w.step = "recordFailed" /\ RecordOutcome([objects[w.cr] EXCEPT !.incomplete = FALSE])

RecordSucceeded ==
  w.step = "recordSucceeded"
    /\ RecordOutcome([objects[w.cr] EXCEPT !.incomplete = FALSE, !.ext = w.made])

UpToDate ==
  /\ w.step = "decide" /\ w.mg.phase = "present" /\ w.mg.finalizer /\ w.obs = "current"
  /\ w' = Idle
  /\ UNCHANGED <<objects, graph, spelled, faults, edits>>

(* The account and the role of the new binding must exist, or nothing happens. *)
(* Every account node with the id gets the alias.  The MERGE names a variable *)
(* that is bound to nothing: unless some node is related to both, it makes a   *)
(* node without label, and the permission set keeps its relationships.        *)
UpdatePermissionSet ==
  /\ w.step = "decide" /\ w.mg.phase = "present" /\ w.mg.finalizer /\ w.obs = "outdated"
  /\ LET b       == w.mg.bindTo
         matched == IF sets[w.mg.ext].live /\ b.role \in roles
                    THEN AccountsWith(b.account) ELSE {}
         bound   == {a \in matched : \E u \in DOMAIN sets : <<u, a>> \in to /\ <<u, b.role>> \in with}
     IN  \/ /\ accounts' = [a \in DOMAIN accounts |->
                              IF a \in matched THEN [accounts[a] EXCEPT !.alias = b.alias]
                                               ELSE accounts[a]]
            /\ strays' = strays \cup ((matched \ bound) \X {b.role})
            /\ NoFault \/ Fault
         \/ Fault /\ UNCHANGED <<accounts, strays>>
  /\ w' = Idle
  /\ UNCHANGED <<objects, roles, sets, to, with, spelled, edits>>

(* DETACH DELETE; the account and the role stay. *)
DeletePermissionSet ==
  /\ w.step = "decide" /\ w.mg.phase = "deleting" /\ w.obs # "absent"
  /\ \/ /\ sets' = [sets EXCEPT ![w.mg.ext].live = FALSE]
        /\ to' = {p \in to : p[1] # w.mg.ext}
        /\ with' = {p \in with : p[1] # w.mg.ext}
        /\ NoFault \/ Fault
     \/ Fault /\ UNCHANGED <<sets, to, with>>
  /\ w' = Idle
  /\ UNCHANGED <<objects, accounts, roles, strays, spelled, edits>>

-----------------------------------------------------------------------------
(* Users and crashes. *)

Spell(b) == spelled' = spelled \cup {[id |-> b.account, alias |-> b.alias]}

ApplyResource(c) ==
  /\ objects[c].phase = "absent"
  /\ \E b \in AccountRoleBinding :
       /\ objects' = [objects EXCEPT ![c].phase = "present", ![c].bindTo = b]
       /\ Spell(b)
  /\ UNCHANGED <<w, graph, faults, edits>>

EditSpec(c) ==
  /\ objects[c].phase \in {"present", "deleting"}
  /\ edits < MaxEdits /\ edits' = edits + 1
  /\ \E b \in AccountRoleBinding \ {objects[c].bindTo} :
       objects' = [objects EXCEPT ![c].bindTo = b] /\ Spell(b)
  /\ UNCHANGED <<w, graph, faults>>

DeleteResource(c) ==
  /\ objects[c].phase = "present"
  /\ objects' = [objects EXCEPT ![c].phase = IF objects[c].finalizer THEN "deleting" ELSE "gone"]
  /\ UNCHANGED <<w, graph, spelled, faults, edits>>

CrashRestart ==
  /\ w.step # "idle" /\ Fault
  /\ w' = Idle
  /\ UNCHANGED <<objects, graph, spelled, edits>>

-----------------------------------------------------------------------------
WorkerStep ==
  \/ RemoveFinalizer \/ AddFinalizer \/ WritePending
  \/ MergeAccount \/ MergeRole \/ CreateNode \/ Link \/ FailCreate
  \/ RecordFailed \/ RecordSucceeded
  \/ UpToDate \/ UpdatePermissionSet \/ DeletePermissionSet

Next ==
  \/ \E c \in CRs : Observe(c) \/ ApplyResource(c) \/ EditSpec(c) \/ DeleteResource(c)
  \/ WorkerStep
  \/ CrashRestart

Spec == Init /\ [][Next]_vars

(* As in ManagedReconciler: the workqueue keeps handing out each resource. *)
Fairness == WF_vars(WorkerStep) /\ \A c \in CRs : SF_vars(Observe(c))

FairSpec == Spec /\ Fairness

-----------------------------------------------------------------------------
(* Properties. *)

TypeOK ==
  /\ objects \in [CRs -> Object]
  /\ w \in Worker
  /\ accounts \in Seq(Account)
  /\ roles \subseteq RoleNames
  /\ sets \in Seq(PermissionSet)
  /\ to \subseteq (DOMAIN sets) \X (DOMAIN accounts)
  /\ with \subseteq (DOMAIN sets) \X roles
  /\ strays \subseteq (DOMAIN accounts) \X roles
  /\ spelled \subseteq Account
  /\ faults \in 0 .. MaxFaults
  /\ edits \in 0 .. MaxEdits

(* An account that all specs have spelled in one way never makes the          *)
(* observation of a permission set fail, whatever was created, lost, retried,  *)
(* edited and deleted in between.                                             *)
AmbiguousOnlyIfMisspelled ==
  \A u \in DOMAIN sets :
    Ambiguous(u) => \E s, t \in spelled : s.id = t.id /\ s.alias # t.alias

(* A permission set delegates to the account and to the role its own resource *)
(* asked for when it was created, never to another resource's.               *)
DelegatesAsAsked ==
  \A u \in DOMAIN sets : \A r \in Rows(u) :
    BindingOf(r).account = sets[u].bindTo.account /\ r[2] = sets[u].bindTo.role

(* The node a resource names was created for it and is linked as long as it    *)
(* lives: an observation can not take it for deleted (as it can a Persona), so *)
(* that the object does not go before it.                                     *)
NamedNodeLinked ==
  \A c \in CRs :
    objects[c].ext # 0 =>
      LET node == sets[objects[c].ext] IN
      /\ node.owner = c
      /\ node.live => Rows(objects[c].ext) # {}
      /\ objects[c].phase = "gone" => ~node.live

(* A deleted resource goes, unless the outcome of its creation is unknown or its *)
(* observation is ambiguous.                                                    *)
DeletionSettles ==
  \A c \in CRs :
    <>[](objects[c].phase = "deleting" =>
           objects[c].incomplete \/ (objects[c].ext # 0 /\ Ambiguous(objects[c].ext)))

-----------------------------------------------------------------------------
(* What the repository says of an ExternalClient and TLC refutes. *)

(* A deleted resource ends by deleting its node: the object goes, unless the *)
(* outcome of its creation is unknown.                                      *)
DeletionReachesNode ==
  \A c \in CRs : <>[](objects[c].phase = "deleting" => objects[c].incomplete)

=============================================================================
