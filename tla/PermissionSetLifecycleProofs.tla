--------------------- MODULE PermissionSetLifecycleProofs ---------------------
(***************************************************************************)
(* PermissionSetReconciler implements ExternalLifecycle: the invariant that  *)
(* relates the worker to the nodes, and the refinement step by step.         *)
(***************************************************************************)
EXTENDS PermissionSetLifecycle, PermissionSetProofs

-----------------------------------------------------------------------------
(* The worker and the nodes, beyond NodeInv.                                 *)

(* Only this worker writes external names, and no deletion is taken back. *)
CopySound ==
  w.step = "decide" =>
    /\ objects[w.cr].ext = w.mg.ext
    /\ w.mg.phase = "deleting" => objects[w.cr].phase = "deleting"
    /\ w.obs # "absent" => w.mg.ext # 0

(* A creation replaces only a node that is gone, and what it makes is named by *)
(* nobody and delegates to nothing before it is linked.                       *)
BusySound ==
  /\ w.step \in Busy /\ objects[w.cr].ext # 0 => ~sets[objects[w.cr].ext].live
  /\ w.step \in {"link", "recordSucceeded"} => \A c \in CRs : objects[c].ext # w.made
  /\ w.step = "link" => \A p \in to \cup with : p[1] # w.made

LiveSound == \A p \in to \cup with : sets[p[1]].live

PathInv == CopySound /\ BusySound /\ LiveSound

USE NamesAssumption, BindingAssumption, BoundsAssumption

LEMMA InitPath == Init => PathInv
BY IdleType DEF Init, PathInv, CopySound, BusySound, LiveSound, Busy, Creating

-----------------------------------------------------------------------------
(* What a step does to the objects. *)

(* Users leave external names alone and take no deletion back. *)
LEMMA UsersWrite ==
  ASSUME TypeInv, NEW c \in CRs, ApplyResource(c) \/ EditSpec(c) \/ DeleteResource(c)
  PROVE  /\ w' = w /\ UNCHANGED graph
         /\ \A d \in CRs : /\ objects'[d].ext = objects[d].ext
                           /\ objects[d].phase = "deleting" => objects'[d].phase = "deleting"
<1>1. w' = w /\ UNCHANGED graph
  BY DEF ApplyResource, EditSpec, DeleteResource
<1>2. objects \in [CRs -> Object] /\ objects[c] \in Object
  BY DEF TypeInv, TypeOK
<1>3. PICK o : /\ objects' = [objects EXCEPT ![c] = o]
               /\ o.ext = objects[c].ext
               /\ objects[c].phase = "deleting" => o.phase = "deleting"
  <2>1. CASE ApplyResource(c)
    <3>1. PICK b \in AccountRoleBinding :
            objects' = [objects EXCEPT ![c].phase = "present", ![c].bindTo = b]
      BY <2>1 DEF ApplyResource
    <3>2. objects' = [objects EXCEPT ![c] = [objects[c] EXCEPT !.phase = "present", !.bindTo = b]]
      BY <1>2, <3>1
    <3> QED BY <1>2, <2>1, <3>2 DEF ApplyResource, Object
  <2>2. CASE EditSpec(c)
    <3>1. PICK b \in AccountRoleBinding : objects' = [objects EXCEPT ![c].bindTo = b]
      BY <2>2 DEF EditSpec
    <3> DEFINE o == [objects[c] EXCEPT !.bindTo = b]
    <3>2. objects' = [objects EXCEPT ![c] = o]
      BY <3>1
    <3>3. o.ext = objects[c].ext /\ o.phase = objects[c].phase
      BY <1>2 DEF Object
    <3> HIDE DEF o
    <3> QED BY <3>2, <3>3
  <2>3. CASE DeleteResource(c)
    <3> DEFINE p == IF objects[c].finalizer THEN "deleting" ELSE "gone"
    <3>1. objects' = [objects EXCEPT ![c] = [objects[c] EXCEPT !.phase = p]]
      BY <2>3 DEF DeleteResource
    <3> QED BY <1>2, <2>3, <3>1 DEF DeleteResource, Object
  <2> QED BY <2>1, <2>2, <2>3
<1> QED
  BY <1>1, <1>2, <1>3

(* A write of the worker's object that keeps its external name keeps all of them. *)
LEMMA WriteExt ==
  ASSUME TypeInv, w.step # "idle", NEW o, NEW next, Write(o, next), o.ext = w.mg.ext
  PROVE  /\ \A d \in CRs : objects'[d].ext = objects[d].ext
         /\ \/ w' = Idle
            \/ w' = next /\ objects[w.cr] = w.mg /\ objects' = [objects EXCEPT ![w.cr] = o]
BY DEF Write, TypeInv, TypeOK, WorkerOK

(* The graph does not move, and the worker is done. *)
LEMMA IdlePath ==
  ASSUME PathInv, w' = Idle, UNCHANGED <<sets, to, with>>
  PROVE  PathInv'
BY IdleType DEF PathInv, CopySound, BusySound, LiveSound, Busy, Creating

LEMMA Relations ==
  ASSUME TypeInv
  PROVE  /\ \A p \in to : p[1] \in DOMAIN sets /\ p[2] \in DOMAIN accounts /\ p = <<p[1], p[2]>>
         /\ \A p \in with : p[1] \in DOMAIN sets /\ p[2] \in RoleNames /\ p = <<p[1], p[2]>>
BY DEF TypeInv, TypeOK

LEMMA NextPath == TypeInv /\ NodeInv /\ PathInv /\ [Next]_vars => PathInv'
<1> SUFFICES ASSUME TypeInv, NodeInv, PathInv, [Next]_vars
             PROVE  PathInv'
  OBVIOUS
<1>t. objects \in [CRs -> Object] /\ w \in Worker /\ w.mg \in Object
  BY CopyType DEF TypeInv, TypeOK
<1>s. w.step # "idle" => w.cr \in CRs
  BY DEF TypeInv, WorkerOK
<1>n. \A c \in CRs : objects[c].ext # 0 => objects[c].ext \in DOMAIN sets
  BY DEF NodeInv, NamesItsNode
<1>1. ASSUME NEW c \in CRs, Observe(c)
      PROVE  PathInv'
  <2>1. /\ UNCHANGED <<objects, graph>> /\ w'.step = "decide" /\ w'.cr = c
        /\ w'.mg = objects[c] /\ w'.obs = Observation(objects[c])
    BY <1>1 DEF Observe, Idle
  <2>2. w'.obs # "absent" => w'.mg.ext # 0
    BY <2>1 DEF Observation
  <2> QED
    BY <2>1, <2>2 DEF PathInv, CopySound, BusySound, LiveSound, Busy, Creating, graph
<1>2. ASSUME NEW c \in CRs, ApplyResource(c) \/ EditSpec(c) \/ DeleteResource(c)
      PROVE  PathInv'
  <2>1. /\ w' = w /\ UNCHANGED <<sets, to, with>>
        /\ \A d \in CRs : /\ objects'[d].ext = objects[d].ext
                          /\ objects[d].phase = "deleting" => objects'[d].phase = "deleting"
    BY <1>2, UsersWrite DEF graph
  <2>2. CopySound'
    BY <1>s, <2>1 DEF PathInv, CopySound
  <2>3. BusySound' /\ LiveSound'
    BY <1>s, <2>1 DEF PathInv, BusySound, LiveSound, Busy, Creating
  <2> QED
    BY <2>2, <2>3 DEF PathInv
<1>3. CASE RemoveFinalizer
  <2>1. w' = Idle /\ UNCHANGED <<sets, to, with>>
    BY <1>3 DEF RemoveFinalizer, Write, graph
  <2> QED
    BY <2>1, IdlePath
<1>4. CASE AddFinalizer
  <2> DEFINE o == [w.mg EXCEPT !.finalizer = TRUE]
             next == [w EXCEPT !.mg = o]
  <2>1. /\ w.step = "decide" /\ w.mg.phase = "present" /\ Write(o, next)
        /\ UNCHANGED <<sets, to, with>>
    BY <1>4 DEF AddFinalizer, graph
  <2>2. /\ o.ext = w.mg.ext /\ o.phase = w.mg.phase
        /\ next.step = w.step /\ next.cr = w.cr /\ next.mg = o /\ next.obs = w.obs
    BY <1>t DEF Object, Worker
  <2> HIDE DEF o, next
  <2>3. /\ \A d \in CRs : objects'[d].ext = objects[d].ext
        /\ w' = Idle \/ w' = next
    BY <2>1, <2>2, WriteExt
  <2>4. CASE w' = next
    <3>1. CopySound'
      BY <1>s, <2>1, <2>2, <2>3, <2>4 DEF PathInv, CopySound
    <3>2. BusySound' /\ LiveSound'
      BY <2>1, <2>2, <2>4 DEF PathInv, BusySound, LiveSound, Busy, Creating
    <3> QED
      BY <3>1, <3>2 DEF PathInv
  <2> QED
    BY <2>1, <2>3, <2>4, IdlePath
<1>5. CASE WritePending
  <2> DEFINE o == [w.mg EXCEPT !.incomplete = TRUE]
             next == [w EXCEPT !.mg = o, !.step = "mergeAccount"]
  <2>1. /\ w.step = "decide" /\ w.obs = "absent" /\ Write(o, next)
        /\ UNCHANGED <<sets, to, with>>
    BY <1>5 DEF WritePending, graph
  <2>2. o.ext = w.mg.ext /\ next.step = "mergeAccount" /\ next.cr = w.cr
    BY <1>t DEF Object, Worker
  <2> HIDE DEF o, next
  <2>3. /\ \A d \in CRs : objects'[d].ext = objects[d].ext
        /\ w' = Idle \/ w' = next
    BY <2>1, <2>2, WriteExt
  <2>4. CASE w' = next
    <3>1. objects'[w.cr].ext = w.mg.ext
      BY <1>s, <2>1, <2>3 DEF PathInv, CopySound
    <3>2. w.mg.ext # 0 => ~sets[w.mg.ext].live
      BY <2>1 DEF NodeInv
    <3> QED
      BY <2>1, <2>2, <2>4, <3>1, <3>2 DEF PathInv, CopySound, BusySound, LiveSound, Busy, Creating
  <2> QED
    BY <2>1, <2>3, <2>4, IdlePath
<1>6. CASE MergeAccount \/ MergeRole \/ FailCreate
  <2>1. /\ UNCHANGED <<objects, sets, to, with>> /\ w.step \in Busy
        /\ w'.step \in {"mergeRole", "createNode", "recordFailed"} /\ w'.cr = w.cr
    BY <1>t, <1>6
       DEF MergeAccount, MergeRole, FailCreate, Committed, Goto, Worker, Busy, Creating, graph
  <2> QED
    BY <2>1 DEF PathInv, CopySound, BusySound, LiveSound, Busy, Creating
<1>7. CASE CreateNode
  <2> DEFINE node == [live |-> TRUE, owner |-> w.cr, bindTo |-> w.mg.bindTo]
             new == Len(sets) + 1
  <2>1. /\ w.step = "createNode" /\ w.step \in Busy /\ sets' = Append(sets, node)
        /\ UNCHANGED <<objects, to, with>>
    BY <1>7 DEF CreateNode, Busy, Creating
  <2>2. w'.step \in {"link", "recordFailed"} /\ w'.cr = w.cr /\ w'.made = Len(sets')
    BY <1>t, <1>7 DEF CreateNode, Committed, Worker
  <2>3. node \in PermissionSet /\ sets \in Seq(PermissionSet)
    BY <1>s, <2>1, CopyType DEF PermissionSet, TypeInv, TypeOK
  <2> HIDE DEF node
  <2>4. /\ Len(sets') = new /\ new # 0 /\ new \notin DOMAIN sets
        /\ \A u \in DOMAIN sets : sets'[u] = sets[u]
    BY <2>1, <2>3, Appended
  <2> HIDE DEF new
  <2>5. LiveSound'
    BY <2>1, <2>4, Relations DEF PathInv, LiveSound
  <2>6. /\ \A c \in CRs : objects[c].ext # new
        /\ \A p \in to \cup with : p[1] # new
    BY <1>n, <2>4, Relations
  <2>7. BusySound'
    BY <1>n, <1>s, <2>1, <2>2, <2>4, <2>6 DEF PathInv, BusySound
  <2> QED
    BY <2>2, <2>5, <2>7 DEF PathInv, CopySound
<1>8. CASE Link
  <2> DEFINE b       == w.mg.bindTo
             matched == IF b.role \in roles THEN AccountsWith(b.account) ELSE {}
  <2>1. /\ w.step = "link" /\ w.step \in Busy
        /\ to' = to \cup ({w.made} \X matched)
        /\ with' = with \cup {p \in {<<w.made, b.role>>} : matched # {}}
        /\ UNCHANGED <<objects, sets>>
    BY <1>8 DEF Link, Busy, Creating
  <2>2. w'.step \in {"recordSucceeded", "recordFailed"} /\ w'.cr = w.cr /\ w'.made = w.made
    BY <1>t, <1>8 DEF Link, Committed, Worker
  <2>3. sets[w.made].live
    BY <2>1 DEF NodeInv
  <2> HIDE DEF matched
  <2>4. \A p \in to' \cup with' : p \in to \cup with \/ p[1] = w.made
    BY <2>1
  <2>5. LiveSound'
    BY <2>1, <2>3, <2>4 DEF PathInv, LiveSound
  <2> QED
    BY <2>1, <2>2, <2>5 DEF PathInv, CopySound, BusySound
<1>9. CASE RecordFailed \/ RecordSucceeded \/ UpToDate \/ UpdatePermissionSet \/ CrashRestart
  <2>1. w' = Idle /\ UNCHANGED <<sets, to, with>>
    BY <1>9 DEF RecordFailed, RecordSucceeded, RecordOutcome, UpToDate, UpdatePermissionSet,
                CrashRestart, graph
  <2> QED
    BY <2>1, IdlePath
<1>10. CASE DeletePermissionSet
  <2>1. w' = Idle
    BY <1>10 DEF DeletePermissionSet
  <2>2. CASE UNCHANGED <<sets, to, with>>
    BY <2>1, <2>2, IdlePath
  <2>3. CASE /\ sets' = [sets EXCEPT ![w.mg.ext].live = FALSE]
             /\ to' = {p \in to : p[1] # w.mg.ext}
             /\ with' = {p \in with : p[1] # w.mg.ext}
    <3>1. \A u \in DOMAIN sets : u # w.mg.ext => sets'[u] = sets[u]
      BY <2>3
    <3>2. LiveSound'
      BY <2>3, <3>1, Relations DEF PathInv, LiveSound
    <3> QED
      BY <2>1, <3>2, IdleType DEF PathInv, CopySound, BusySound, Busy, Creating
  <2> QED
    BY <1>10, <2>2, <2>3 DEF DeletePermissionSet
<1>11. CASE UNCHANGED vars
  BY <1>11 DEF vars, graph, PathInv, CopySound, BusySound, LiveSound
<1> QED
  BY <1>1, <1>2, <1>3, <1>4, <1>5, <1>6, <1>7, <1>8, <1>9, <1>10, <1>11 DEF Next, WorkerStep

-----------------------------------------------------------------------------
(* The refinement. *)

USE UuidsAssumption

LEMMA InitRefines == Init => Lifecycle!Init
<1> SUFFICES ASSUME Init
             PROVE  Lifecycle!Init
  OBVIOUS
<1>1. DOMAIN sets = {} /\ \A u : Rows(u) = {}
  BY EmptySeq DEF Init, Rows
<1>2. Phase = [c \in CRs |-> "absent"] /\ Name = [c \in CRs |-> 0]
  BY DEF Init, Phase, Name, Blank
<1>3. /\ Status = [n \in Uuids |-> "none"] /\ Owner = [n \in Uuids |-> NoCR]
      /\ Delegations = [n \in Uuids |-> {}]
  BY <1>1 DEF Status, StatusOf, Owner, Delegations, Delegation
<1> QED
  BY <1>2, <1>3 DEF Lifecycle!Init

(* What accounts are linked is not changed by other accounts, nor by aliases. *)
LEMMA DelegationKept ==
  ASSUME TypeInv, [Next]_vars, NEW n,
         \A p : p[1] = n => (p \in to' <=> p \in to) /\ (p \in with' <=> p \in with)
  PROVE  Delegation(n)' = Delegation(n)
<1>1. /\ DOMAIN accounts \subseteq DOMAIN accounts'
      /\ \A a \in DOMAIN accounts : accounts'[a].id = accounts[a].id
  BY GraphKept
<1>2. \A a : <<n, a>> \in to => a \in DOMAIN accounts
  BY DEF TypeInv, TypeOK
<1>3. \A a, r : /\ <<n, a>> \in to' <=> <<n, a>> \in to
                /\ <<n, r>> \in with' <=> <<n, r>> \in with
  OBVIOUS
<1>4. Rows(n)' = Rows(n)
  BY <1>1, <1>2, <1>3 DEF Rows
<1>5. \A r \in Rows(n) : accounts'[r[1]].id = accounts[r[1]].id
  BY <1>1 DEF Rows
<1> QED
  BY <1>4, <1>5 DEF Delegation

LEMMA SameDelegations ==
  ASSUME TypeInv, [Next]_vars, UNCHANGED <<to, with>>
  PROVE  Delegations' = Delegations
<1>1. \A n \in Uuids : Delegation(n)' = Delegation(n)
  BY DelegationKept
<1> QED
  BY <1>1 DEF Delegations

LEMMA NothingDelegated ==
  ASSUME PathInv, NEW n, ~sets[n].live
  PROVE  Delegation(n) = {}
<1>1. \A a : <<n, a>> \notin to
  BY DEF PathInv, LiveSound
<1>2. Rows(n) = {}
  BY <1>1 DEF Rows
<1> QED
  BY <1>2 DEF Delegation

LEMMA NamedNode ==
  ASSUME TypeInv, NodeInv, NEW c \in CRs
  PROVE  /\ Name[c] = objects[c].ext /\ Phase[c] = objects[c].phase
         /\ Name[c] \in Uuids => Name[c] \in DOMAIN sets /\ Name[c] # 0
         /\ objects[c].ext # 0 => objects[c].ext \in DOMAIN sets
BY DEF Name, Phase, NodeInv, NamesItsNode

(* A resource without node, or with one that is deleted, can go or try again. *)
LEMMA HarmlessIf ==
  ASSUME TypeInv, NodeInv, PathInv, NEW c \in CRs,
         objects[c].ext # 0 => ~sets[objects[c].ext].live
  PROVE  Lifecycle!Harmless(c)
BY NamedNode, NothingDelegated DEF Lifecycle!Harmless, Delegations

(* What nobody sees. *)
LEMMA StutterMaps ==
  ASSUME TypeInv, [Next]_vars, UNCHANGED <<sets, to, with>>,
         \A c \in CRs : objects'[c].ext = objects[c].ext /\ objects'[c].phase = objects[c].phase
  PROVE  UNCHANGED Lifecycle!lifecycle
BY SameDelegations DEF Lifecycle!lifecycle, Phase, Name, Status, StatusOf, Owner

(* A write that leaves the external name alone can change the phase. *)
LEMMA WriteMaps ==
  ASSUME TypeInv, [Next]_vars, UNCHANGED <<sets, to, with>>, NEW c \in CRs, NEW o,
         objects' = [objects EXCEPT ![c] = o], o.ext = objects[c].ext
  PROVE  /\ UNCHANGED <<Name, Status, Owner, Delegations>>
         /\ Phase' = [Phase EXCEPT ![c] = o.phase]
<1>1. objects'[c] = o /\ \A d \in CRs \ {c} : objects'[d] = objects[d]
  BY DEF TypeInv, TypeOK
<1>2. UNCHANGED Delegations
  BY SameDelegations
<1>3. UNCHANGED <<Name, Status, Owner>>
  BY <1>1 DEF Name, Status, StatusOf, Owner
<1>4. Phase' = [Phase EXCEPT ![c] = o.phase]
  <2>1. PICK p : p = o.phase
    OBVIOUS
  <2>2. Phase' = [d \in CRs |-> IF d = c THEN p ELSE objects[d].phase]
    BY <1>1, <2>1 DEF Phase
  <2> QED
    BY <2>1, <2>2 DEF Phase
<1> QED
  BY <1>2, <1>3, <1>4

LEMMA GoneMaps ==
  ASSUME TypeInv, NodeInv, PathInv, [Next]_vars, UNCHANGED <<sets, to, with>>, NEW c \in CRs, NEW o,
         objects' = [objects EXCEPT ![c] = o], o.ext = objects[c].ext, o.phase = "gone",
         objects[c].phase \in {"present", "deleting"},
         objects[c].ext # 0 => ~sets[objects[c].ext].live
  PROVE  Lifecycle!Vanish(c)
<1>1. UNCHANGED <<Name, Status, Owner, Delegations>> /\ Phase' = [Phase EXCEPT ![c] = "gone"]
  BY WriteMaps
<1>2. Lifecycle!Harmless(c) /\ Phase[c] \in {"present", "deleting"}
  BY HarmlessIf, NamedNode
<1> QED
  BY <1>1, <1>2 DEF Lifecycle!Vanish

(* A write of the worker's object as it is, but for finalizer and mark. *)
LEMMA KeptMaps ==
  ASSUME TypeInv, [Next]_vars, UNCHANGED <<sets, to, with>>, w.step # "idle", NEW o, NEW next,
         Write(o, next), o.ext = w.mg.ext, o.phase = w.mg.phase
  PROVE  UNCHANGED Lifecycle!lifecycle
<1>1. w.cr \in CRs /\ objects \in [CRs -> Object]
  BY DEF TypeInv, TypeOK, WorkerOK
<1>2. \A c \in CRs : objects'[c].ext = objects[c].ext /\ objects'[c].phase = objects[c].phase
  BY <1>1 DEF Write
<1> QED
  BY <1>2, StutterMaps

(* CreateNode: an empty node of the resource that asked for it. *)
LEMMA CreateMaps ==
  ASSUME Uuids = Nat \ {0}, TypeInv, NodeInv, PathInv, [Next]_vars, CreateNode
  PROVE  Lifecycle!Make(w.cr, Len(sets) + 1) /\ w.cr \in CRs /\ Len(sets) + 1 \in Uuids
<1> DEFINE node == [live |-> TRUE, owner |-> w.cr, bindTo |-> w.mg.bindTo]
<1>0. PICK new : new = Len(sets) + 1
  OBVIOUS
<1>1. /\ w.step = "createNode" /\ w.step \in Busy /\ w.cr \in CRs
      /\ sets' = Append(sets, node) /\ UNCHANGED <<objects, to, with>>
  BY DEF CreateNode, Busy, Creating, TypeInv, WorkerOK
<1>2. node \in PermissionSet /\ node.live /\ node.owner = w.cr /\ sets \in Seq(PermissionSet)
  BY <1>1, CopyType DEF PermissionSet, TypeInv, TypeOK
<1> HIDE DEF node
<1>3. /\ new \in Nat \ {0} /\ new \notin DOMAIN sets
      /\ DOMAIN sets' = DOMAIN sets \cup {new} /\ sets'[new] = node
      /\ \A u \in DOMAIN sets : sets'[u] = sets[u]
  BY <1>0, <1>1, <1>2, Appended
<1>4. UNCHANGED <<Phase, Name>> /\ Delegations' = Delegations
  BY <1>1, SameDelegations DEF Phase, Name
<1>5. \A c \in CRs : objects[c].ext # new
  BY <1>3, NamedNode
<1>6. Status[new] = "none" /\ Status' = [Status EXCEPT ![new] = "inflight"]
  <2>1. StatusOf(new) = "none"
    BY <1>3 DEF StatusOf
  <2>2. new \in DOMAIN sets' /\ sets'[new].live /\ ~\E c \in CRs : objects'[c].ext = new
    BY <1>1, <1>2, <1>3, <1>5
  <2>3. StatusOf(new)' = "inflight"
    BY <2>2 DEF StatusOf
  <2>4. \A n \in Uuids \ {new} : StatusOf(n)' = StatusOf(n)
    BY <1>1, <1>3 DEF StatusOf
  <2>5. new \in Uuids
    BY <1>3
  <2> QED
    BY <2>1, <2>3, <2>4, <2>5 DEF Status
<1>7. Owner' = [Owner EXCEPT ![new] = w.cr]
  BY <1>2, <1>3 DEF Owner
<1>8. Phase[w.cr] \in {"present", "deleting"}
  BY <1>1, NamedNode DEF NodeInv
<1>9. Lifecycle!Harmless(w.cr)
  BY <1>1, HarmlessIf DEF PathInv, BusySound
<1>10. Lifecycle!Make(w.cr, new)
  BY <1>4, <1>6, <1>7, <1>8, <1>9 DEF Lifecycle!Make
<1> QED
  BY <1>0, <1>1, <1>3, <1>10

(* Link: the node that is in flight, and no other, comes to delegate. *)
LEMMA LinkMaps ==
  ASSUME Uuids = Nat \ {0}, TypeInv, NodeInv, PathInv, TypeInv', [Next]_vars, Link
  PROVE  \E n \in Uuids, refs \in SUBSET (AccountIds \X RoleNames) : Lifecycle!Grant(n, refs)
<1> DEFINE b       == w.mg.bindTo
           matched == IF b.role \in roles THEN AccountsWith(b.account) ELSE {}
<1>0. PICK u : u = w.made
  OBVIOUS
<1>1. /\ w.step = "link" /\ UNCHANGED <<objects, sets>>
      /\ to' = to \cup ({u} \X matched)
      /\ with' = with \cup {p \in {<<u, b.role>>} : matched # {}}
  BY <1>0 DEF Link
<1> HIDE DEF matched
<1>2. /\ u \in Uuids /\ u \in DOMAIN sets /\ sets[u].live
      /\ \A c \in CRs : objects[c].ext # u
      /\ \A p \in to \cup with : p[1] # u
  BY <1>0, <1>1, Numbers DEF TypeInv, TypeOK, WorkerOK, NodeInv, PathInv, BusySound
<1>3. Delegation(u) = {}
  <2>1. \A a : <<u, a>> \notin to
    BY <1>2
  <2>2. Rows(u) = {}
    BY <2>1 DEF Rows
  <2> QED
    BY <2>2 DEF Delegation
<1>4. \A n \in Uuids \ {u} : Delegation(n)' = Delegation(n)
  BY <1>1, DelegationKept
<1> DEFINE refs == Delegation(u)'
<1>5. refs \in SUBSET (AccountIds \X RoleNames)
  <2>1. \A a \in DOMAIN accounts' : accounts'[a] \in Account
    BY Numbers DEF TypeInv, TypeOK
  <2>2. \A a \in DOMAIN accounts' : accounts'[a].id \in AccountIds
    BY <2>1 DEF Account
  <2>3. \A r \in Rows(u)' : r[1] \in DOMAIN accounts' /\ r[2] \in RoleNames
    BY DEF Rows
  <2> QED
    BY <2>2, <2>3 DEF Delegation
<1> HIDE DEF refs
<1>6. Delegations' = [Delegations EXCEPT ![u] = refs]
  BY <1>2, <1>4 DEF Delegations, refs
<1>7. Status[u] = "inflight" /\ Delegations[u] = {}
  BY <1>2, <1>3 DEF Status, StatusOf, Delegations
<1>8. UNCHANGED <<Phase, Name, Status, Owner>>
  BY <1>1 DEF Phase, Name, Status, StatusOf, Owner
<1>9. Lifecycle!Grant(u, refs)
  BY <1>6, <1>7, <1>8 DEF Lifecycle!Grant
<1> QED
  BY <1>2, <1>5, <1>9

(* RecordSucceeded: the resource names the node it made. *)
LEMMA RecordMaps ==
  ASSUME Uuids = Nat \ {0}, TypeInv, NodeInv, PathInv, [Next]_vars, RecordSucceeded
  PROVE  \/ UNCHANGED Lifecycle!lifecycle
         \/ w.cr \in CRs /\ w.made \in Uuids /\ Lifecycle!Name(w.cr, w.made)
<1>0. PICK u : u = w.made
  OBVIOUS
<1>1. /\ w.step = "recordSucceeded" /\ w.step \in Busy /\ w.cr \in CRs
      /\ UNCHANGED <<sets, to, with>> /\ objects \in [CRs -> Object]
  BY DEF RecordSucceeded, RecordOutcome, graph, Busy, TypeInv, TypeOK, WorkerOK
<1>2. CASE UNCHANGED objects
  BY <1>1, <1>2, StutterMaps
<1>3. CASE objects' = [objects EXCEPT ![w.cr] = [objects[w.cr] EXCEPT !.incomplete = FALSE,
                                                                     !.ext = u]]
  <2>1. PICK o : o = [objects[w.cr] EXCEPT !.incomplete = FALSE, !.ext = u]
    OBVIOUS
  <2>2. /\ o.ext = u /\ o.phase = objects[w.cr].phase
        /\ objects' = [objects EXCEPT ![w.cr] = o]
    BY <1>1, <1>3, <2>1 DEF Object
  <2>3. objects'[w.cr] = o /\ \A c \in CRs \ {w.cr} : objects'[c] = objects[c]
    BY <1>1, <2>2
  <2>4. /\ u \in Uuids /\ u \in DOMAIN sets /\ sets[u].live
        /\ sets[u].owner = w.cr /\ \A c \in CRs : objects[c].ext # u
    BY <1>0, <1>1, Numbers DEF TypeInv, TypeOK, WorkerOK, NodeInv, PathInv, BusySound
  <2>5. objects[w.cr].ext # 0 => ~sets[objects[w.cr].ext].live
    BY <1>1 DEF PathInv, BusySound
  <2>6. UNCHANGED <<Phase, Owner>> /\ Name' = [Name EXCEPT ![w.cr] = u]
    BY <1>1, <2>2, <2>3 DEF Phase, Owner, Name
  <2>7. UNCHANGED Delegations
    BY <1>1, SameDelegations
  <2>8. Status[u] = "inflight" /\ Status' = [Status EXCEPT ![u] = "recorded"]
    <3>1. StatusOf(u) = "inflight"
      BY <2>4 DEF StatusOf
    <3>2. objects'[w.cr].ext = u
      BY <2>2, <2>3
    <3>3. StatusOf(u)' = "recorded"
      <4>1. sets' = sets /\ \E c \in CRs : objects'[c].ext = u
        BY <1>1, <3>2
      <4> QED
        BY <2>4, <4>1 DEF StatusOf
    <3>4. ASSUME NEW n \in Uuids \ {u}
          PROVE  StatusOf(n)' = StatusOf(n)
      <4>1. CASE n \in DOMAIN sets /\ sets[n].live
        <5>1. objects[w.cr].ext # n
          BY <2>5, <3>4, <4>1
        <5>2. \A c \in CRs : objects'[c].ext = n <=> objects[c].ext = n
          BY <2>2, <2>3, <5>1
        <5> QED
          BY <1>1, <5>2 DEF StatusOf
      <4>2. CASE ~(n \in DOMAIN sets /\ sets[n].live)
        BY <1>1, <4>2 DEF StatusOf
      <4> QED
        BY <4>1, <4>2
    <3> QED
      BY <2>4, <3>1, <3>3, <3>4 DEF Status
  <2>9. Phase[w.cr] \in {"present", "deleting"} /\ Lifecycle!Harmless(w.cr)
    BY <1>1, <2>5, HarmlessIf, NamedNode DEF NodeInv
  <2>10. Owner[u] = w.cr
    BY <2>4 DEF Owner
  <2>11. Lifecycle!Name(w.cr, u)
    BY <2>6, <2>7, <2>8, <2>9, <2>10 DEF Lifecycle!Name
  <2> QED
    BY <1>0, <1>1, <2>4, <2>11
<1> QED
  BY <1>0, <1>2, <1>3 DEF RecordSucceeded, RecordOutcome

(* DeletePermissionSet: the node of the resource that asked for it, once. *)
LEMMA DeleteMaps ==
  ASSUME Uuids = Nat \ {0}, TypeInv, NodeInv, PathInv, [Next]_vars, DeletePermissionSet
  PROVE  \/ UNCHANGED Lifecycle!lifecycle
         \/ w.cr \in CRs /\ Lifecycle!Destroy(w.cr)
<1>1. /\ w.step = "decide" /\ w.mg.phase = "deleting" /\ w.obs # "absent" /\ w.cr \in CRs
      /\ UNCHANGED objects /\ sets \in Seq(PermissionSet)
  BY DEF DeletePermissionSet, TypeInv, TypeOK, WorkerOK
<1>2. PICK u : u = w.mg.ext
  OBVIOUS
<1>3. u # 0 /\ u = objects[w.cr].ext /\ objects[w.cr].phase = "deleting"
  BY <1>1, <1>2 DEF PathInv, CopySound
<1>4. u \in DOMAIN sets /\ u \in Uuids
  BY <1>1, <1>3, NamedNode, Numbers
<1>5. CASE UNCHANGED <<sets, to, with>>
  BY <1>1, <1>5, StutterMaps
<1>6. CASE /\ sets' = [sets EXCEPT ![u].live = FALSE]
           /\ to' = {p \in to : p[1] # u}
           /\ with' = {p \in with : p[1] # u}
  <2>1. /\ DOMAIN sets' = DOMAIN sets /\ ~sets'[u].live /\ sets'[u].owner = sets[u].owner
        /\ \A n \in DOMAIN sets \ {u} : sets'[n] = sets[n]
    <3>1. sets[u] \in PermissionSet
      BY <1>1, <1>4, Numbers
    <3>2. sets' = [sets EXCEPT ![u] = [sets[u] EXCEPT !.live = FALSE]]
      BY <1>6
    <3> QED
      BY <1>4, <3>1, <3>2 DEF PermissionSet
  <2>2. Delegation(u)' = {}
    BY <1>6 DEF Delegation, Rows
  <2>3. \A n \in Uuids \ {u} : Delegation(n)' = Delegation(n)
    BY <1>6, DelegationKept
  <2>4. Delegations' = [Delegations EXCEPT ![u] = {}]
    BY <1>4, <2>2, <2>3 DEF Delegations
  <2>5. StatusOf(u)' = "destroyed" /\ \A n \in Uuids \ {u} : StatusOf(n)' = StatusOf(n)
    BY <1>1, <1>4, <2>1 DEF StatusOf
  <2>6. Status' = [Status EXCEPT ![u] = "destroyed"]
    BY <1>4, <2>5 DEF Status
  <2>7. UNCHANGED <<Phase, Name, Owner>>
    BY <1>1, <2>1 DEF Phase, Name, Owner
  <2>8. CASE sets[u].live
    <3>1. Phase[w.cr] = "deleting" /\ Name[w.cr] = u /\ Status[u] = "recorded"
      BY <1>1, <1>3, <1>4, <2>8, NamedNode DEF Status, StatusOf
    <3>2. Lifecycle!Destroy(w.cr)
      BY <1>4, <2>4, <2>6, <2>7, <3>1 DEF Lifecycle!Destroy
    <3> QED
      BY <1>1, <3>2
  <2>9. CASE ~sets[u].live
    <3>1. StatusOf(u) = "destroyed" /\ Delegation(u) = {}
      BY <1>4, <2>9, NothingDelegated DEF StatusOf
    <3>2. UNCHANGED <<Delegations, Status>>
      BY <2>2, <2>3, <2>5, <3>1 DEF Delegations, Status
    <3> QED
      BY <2>7, <3>2 DEF Lifecycle!lifecycle
  <2> QED
    BY <2>8, <2>9
<1> QED
  BY <1>2, <1>5, <1>6 DEF DeletePermissionSet


LEMMA StepRefines ==
  ASSUME Uuids = Nat \ {0}, TypeInv, NodeInv, PathInv, TypeInv', [Next]_vars
  PROVE  Lifecycle!Next \/ UNCHANGED Lifecycle!lifecycle
<1>t. objects \in [CRs -> Object] /\ w.mg \in Object /\ (w.step # "idle" => w.cr \in CRs)
  BY CopyType DEF TypeInv, TypeOK, WorkerOK
<1>1. CASE \/ \E c \in CRs : Observe(c)
           \/ MergeAccount \/ MergeRole \/ FailCreate \/ UpToDate \/ UpdatePermissionSet
           \/ CrashRestart \/ UNCHANGED vars
  <2>1. UNCHANGED <<objects, sets, to, with>>
    BY <1>1 DEF Observe, MergeAccount, MergeRole, FailCreate, UpToDate, UpdatePermissionSet,
                CrashRestart, vars, graph
  <2> QED
    BY <2>1, StutterMaps
<1>2. ASSUME NEW c \in CRs, ApplyResource(c)
      PROVE  Lifecycle!Next
  <2>1. PICK b \in AccountRoleBinding :
          objects' = [objects EXCEPT ![c].phase = "present", ![c].bindTo = b]
    BY <1>2 DEF ApplyResource
  <2>2. PICK o : o = [objects[c] EXCEPT !.phase = "present", !.bindTo = b]
    OBVIOUS
  <2>3. /\ objects' = [objects EXCEPT ![c] = o] /\ o.ext = objects[c].ext /\ o.phase = "present"
        /\ UNCHANGED <<sets, to, with>>
    BY <1>t, <1>2, <2>1, <2>2 DEF ApplyResource, Object, graph
  <2>4. UNCHANGED <<Name, Status, Owner, Delegations>> /\ Phase' = [Phase EXCEPT ![c] = "present"]
    BY <2>3, WriteMaps
  <2>5. Phase[c] = "absent"
    BY <1>2 DEF ApplyResource, Phase
  <2>6. Lifecycle!Apply(c)
    BY <2>4, <2>5 DEF Lifecycle!Apply
  <2> QED
    BY <2>6 DEF Lifecycle!Next
<1>3. ASSUME NEW c \in CRs, EditSpec(c)
      PROVE  UNCHANGED Lifecycle!lifecycle
  <2>1. PICK b \in AccountRoleBinding : objects' = [objects EXCEPT ![c].bindTo = b]
    BY <1>3 DEF EditSpec
  <2>2. PICK o : o = [objects[c] EXCEPT !.bindTo = b]
    OBVIOUS
  <2>3. o.ext = objects[c].ext /\ o.phase = objects[c].phase
    BY <1>t, <2>2 DEF Object
  <2>4. objects' = [objects EXCEPT ![c] = o] /\ UNCHANGED <<sets, to, with>>
    BY <1>3, <2>1, <2>2 DEF EditSpec, graph
  <2>5. \A d \in CRs : objects'[d].ext = objects[d].ext /\ objects'[d].phase = objects[d].phase
    BY <1>t, <2>3, <2>4
  <2> QED
    BY <2>4, <2>5, StutterMaps
<1>4. ASSUME NEW c \in CRs, DeleteResource(c)
      PROVE  Lifecycle!Next
  <2>1. PICK p : p = IF objects[c].finalizer THEN "deleting" ELSE "gone"
    OBVIOUS
  <2>2. PICK o : o = [objects[c] EXCEPT !.phase = p]
    OBVIOUS
  <2>3. /\ objects' = [objects EXCEPT ![c] = o] /\ o.ext = objects[c].ext /\ o.phase = p
        /\ UNCHANGED <<sets, to, with>> /\ objects[c].phase = "present"
    BY <1>t, <1>4, <2>1, <2>2 DEF DeleteResource, Object, graph
  <2>4. CASE objects[c].finalizer
    <3>1. UNCHANGED <<Name, Status, Owner, Delegations>> /\ Phase' = [Phase EXCEPT ![c] = "deleting"]
      <4>1. o.phase = "deleting"
        BY <2>1, <2>3, <2>4
      <4>2. UNCHANGED <<Name, Status, Owner, Delegations>> /\ Phase' = [Phase EXCEPT ![c] = o.phase]
        BY <2>3, WriteMaps
      <4> QED
        BY <4>1, <4>2
    <3>2. Lifecycle!RequestDeletion(c)
      BY <2>3, <3>1, NamedNode DEF Lifecycle!RequestDeletion
    <3> QED
      BY <3>2 DEF Lifecycle!Next
  <2>5. CASE ~objects[c].finalizer
    <3>1. objects[c].ext = 0 /\ p = "gone"
      BY <2>1, <2>3, <2>5 DEF NodeInv, NamesItsNode
    <3>2. Lifecycle!Vanish(c)
      BY <2>3, <3>1, GoneMaps
    <3> QED
      BY <3>2 DEF Lifecycle!Next
  <2> QED
    BY <2>4, <2>5
<1>5. CASE RemoveFinalizer
  <2>1. PICK o : o = [w.mg EXCEPT !.phase = "gone", !.finalizer = FALSE]
    OBVIOUS
  <2>2. /\ w.step = "decide" /\ w.mg.phase = "deleting" /\ w.obs = "absent" /\ w.cr \in CRs
        /\ Write(o, Idle) /\ UNCHANGED <<sets, to, with>>
    BY <1>t, <1>5, <2>1 DEF RemoveFinalizer, graph
  <2>3. o.ext = w.mg.ext /\ o.phase = "gone"
    BY <1>t, <2>1 DEF Object
  <2>4. CASE UNCHANGED objects
    BY <2>2, <2>4, StutterMaps
  <2>5. CASE objects[w.cr] = w.mg /\ objects' = [objects EXCEPT ![w.cr] = o]
    <3>1. objects[w.cr].ext # 0 => ~sets[objects[w.cr].ext].live
      BY <2>2, <2>5 DEF NodeInv
    <3>2. PICK c \in CRs : c = w.cr
      BY <2>2
    <3>3. Lifecycle!Vanish(c)
      BY <2>2, <2>3, <2>5, <3>1, <3>2, GoneMaps
    <3> QED
      BY <3>3 DEF Lifecycle!Next
  <2> QED
    BY <2>2, <2>4, <2>5 DEF Write
<1>6. CASE AddFinalizer
  <2> DEFINE o == [w.mg EXCEPT !.finalizer = TRUE]
             next == [w EXCEPT !.mg = o]
  <2>1. w.step # "idle" /\ Write(o, next) /\ UNCHANGED <<sets, to, with>>
    BY <1>6 DEF AddFinalizer, graph
  <2>2. o.ext = w.mg.ext /\ o.phase = w.mg.phase
    BY <1>t DEF Object
  <2> HIDE DEF o, next
  <2> QED
    BY <2>1, <2>2, KeptMaps
<1>7. CASE WritePending
  <2> DEFINE o == [w.mg EXCEPT !.incomplete = TRUE]
             next == [w EXCEPT !.mg = o, !.step = "mergeAccount"]
  <2>1. w.step # "idle" /\ Write(o, next) /\ UNCHANGED <<sets, to, with>>
    BY <1>7 DEF WritePending, graph
  <2>2. o.ext = w.mg.ext /\ o.phase = w.mg.phase
    BY <1>t DEF Object
  <2> HIDE DEF o, next
  <2> QED
    BY <2>1, <2>2, KeptMaps
<1>8. CASE CreateNode
  BY <1>8, CreateMaps DEF Lifecycle!Next
<1>9. CASE Link
  BY <1>9, LinkMaps DEF Lifecycle!Next
<1>10. CASE RecordFailed
  <2>1. PICK o : o = [objects[w.cr] EXCEPT !.incomplete = FALSE]
    OBVIOUS
  <2>2. /\ UNCHANGED <<sets, to, with>> /\ w.cr \in CRs
        /\ UNCHANGED objects \/ objects' = [objects EXCEPT ![w.cr] = o]
    BY <1>t, <1>10, <2>1 DEF RecordFailed, RecordOutcome, graph
  <2>3. o.ext = objects[w.cr].ext /\ o.phase = objects[w.cr].phase
    BY <1>t, <2>1, <2>2 DEF Object
  <2>4. \A d \in CRs : objects'[d].ext = objects[d].ext /\ objects'[d].phase = objects[d].phase
    BY <1>t, <2>2, <2>3
  <2> QED
    BY <2>2, <2>4, StutterMaps
<1>11. CASE RecordSucceeded
  BY <1>11, RecordMaps DEF Lifecycle!Next
<1>12. CASE DeletePermissionSet
  BY <1>12, DeleteMaps DEF Lifecycle!Next
<1> QED
  BY <1>1, <1>2, <1>3, <1>4, <1>5, <1>6, <1>7, <1>8, <1>9, <1>10, <1>11, <1>12
     DEF Next, WorkerStep

-----------------------------------------------------------------------------
LEMMA PathInductive == Spec => [](TypeInv /\ NodeInv /\ PathInv)
<1>1. Init => TypeInv /\ NodeInv /\ PathInv
  BY InitType, InitNode, InitPath
<1>2. TypeInv /\ NodeInv /\ PathInv /\ [Next]_vars => TypeInv' /\ NodeInv' /\ PathInv'
  BY NextType, NextNode, NextPath
<1> QED
  BY <1>1, <1>2, PTL DEF Spec

(* Every step of the PermissionSet controller, seen through the refinement      *)
(* mapping, is a step of ExternalLifecycle or changes nothing there.  Nodes      *)
(* have all the numbers there are: one that the mapping can not tell could be    *)
(* named by a resource.                                                         *)
THEOREM Refinement ==
  ASSUME Uuids = Nat \ {0}
  PROVE  Spec => ImplementsLifecycle
<1>1. TypeInv /\ NodeInv /\ PathInv /\ TypeInv' /\ [Next]_vars
        => [Lifecycle!Next]_(Lifecycle!lifecycle)
  BY Uuids = Nat \ {0}, StepRefines
<1> QED
  BY <1>1, PathInductive, InitRefines, PTL DEF Spec, ImplementsLifecycle, Lifecycle!Spec


=============================================================================
