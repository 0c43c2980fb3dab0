------------------------ MODULE PermissionSetProofs ------------------------
(***************************************************************************)
(* Theorems about PermissionSetReconciler, for every value of its constants. *)
(***************************************************************************)
EXTENDS PermissionSetReconciler, SequenceTheorems, FiniteSetTheorems, TLAPS

-----------------------------------------------------------------------------
(* Nodes are appended: the old ones keep their numbers. *)

LEMMA Appended ==
  ASSUME NEW S, NEW s \in Seq(S), NEW e \in S
  PROVE  /\ Append(s, e) \in Seq(S)
         /\ Len(Append(s, e)) = Len(s) + 1
         /\ Len(s) + 1 \in Nat \ {0}
         /\ DOMAIN Append(s, e) = DOMAIN s \cup {Len(s) + 1}
         /\ Len(s) + 1 \notin DOMAIN s
         /\ \A i \in DOMAIN s : Append(s, e)[i] = s[i]
         /\ Append(s, e)[Len(s) + 1] = e
BY AppendProperties, LenProperties

(* A sequence rewritten in place is a sequence. *)
LEMMA Rewritten ==
  ASSUME NEW S, NEW s \in Seq(S), NEW t, t \in [DOMAIN s -> S]
  PROVE  t \in Seq(S) /\ DOMAIN t = DOMAIN s /\ Len(t) = Len(s)
<1>1. Len(s) \in Nat /\ DOMAIN s = 1 .. Len(s)
  BY LenProperties
<1>2. t \in [1 .. Len(s) -> S]
  BY <1>1
<1>3. t \in Seq(S)
  BY <1>1, <1>2, SeqDef
<1>4. DOMAIN t = 1 .. Len(t) /\ Len(t) \in Nat
  BY <1>3, LenProperties
<1> QED
  BY <1>1, <1>2, <1>3, <1>4

LEMMA Numbers ==
  ASSUME NEW S, NEW s \in Seq(S), NEW i \in DOMAIN s
  PROVE  i \in Nat /\ i # 0 /\ s[i] \in S
BY LenProperties, ElementOfSeq

-----------------------------------------------------------------------------
(* Type correctness.  A busy worker has a resource and a copy of an object   *)
(* that existed; it knows the node it links or records.                      *)

WorkerOK ==
  /\ w.step # "idle" => w.cr \in CRs /\ w.mg.phase \in {"present", "deleting"}
  /\ w.step \in {"link", "recordSucceeded"} => w.made \in DOMAIN sets
  /\ w.step \in Creating \ {"mergeAccount", "mergeRole"} => w.mg.bindTo.role \in roles

TypeInv == TypeOK /\ WorkerOK

USE NamesAssumption, BindingAssumption, BoundsAssumption

LEMMA SomeBinding == Blank.bindTo \in AccountRoleBinding
<1>1. \E b : b \in AccountRoleBinding
  <2>1. PICK i \in AccountIds, a \in Aliases, r \in RoleNames : TRUE
    OBVIOUS
  <2>2. [account |-> i, alias |-> a, role |-> r] \in AccountRoleBinding
    BY DEF AccountRoleBinding
  <2> QED BY <2>2
<1> QED
  BY <1>1 DEF Blank

LEMMA BlankType == Blank \in Object
BY SomeBinding DEF Blank, Object

LEMMA IdleType == Idle \in Worker /\ Idle.step = "idle"
BY BlankType DEF Idle, Worker

LEMMA InitType == Init => TypeInv
<1>1. <<>> \in Seq(Account) /\ <<>> \in Seq(PermissionSet) /\ DOMAIN <<>> = {}
  BY EmptySeq
<1> QED
  BY <1>1, BlankType, IdleType DEF Init, TypeInv, TypeOK, WorkerOK, Creating

LEMMA WriteType ==
  ASSUME TypeInv, w.step # "idle", NEW o \in Object, NEW next \in Worker, Write(o, next)
  PROVE  /\ objects' \in [CRs -> Object]
         /\ w' \in Worker
         /\ w' \in {Idle, next}
         /\ faults' \in 0 .. MaxFaults
BY IdleType DEF Write, NoFault, Fault, TypeInv, TypeOK, WorkerOK

LEMMA CommittedType ==
  ASSUME TypeInv, NEW next \in Worker, Committed(next)
  PROVE  /\ w' \in Worker
         /\ w'.step \in {next.step, "recordFailed"}
         /\ w'.cr = next.cr /\ w'.mg = next.mg /\ w'.made = next.made
         /\ faults' \in 0 .. MaxFaults
BY DEF Committed, NoFault, Fault, TypeInv, TypeOK, Worker

LEMMA CopyType ==
  ASSUME TypeInv
  PROVE  /\ w.mg \in Object
         /\ w.mg.bindTo \in AccountRoleBinding
         /\ \A c \in CRs : objects[c] \in Object /\ objects[c].bindTo \in AccountRoleBinding
BY DEF TypeInv, TypeOK, Worker, Object

LEMMA NextType == TypeInv /\ [Next]_vars => TypeInv'
<1> SUFFICES ASSUME TypeInv, [Next]_vars PROVE TypeInv'
  OBVIOUS
<1> USE IdleType, CopyType
<1>1. ASSUME NEW c \in CRs, Observe(c) PROVE TypeInv'
  <2>1. w' \in Worker /\ w'.step = "decide" /\ w'.cr = c /\ w'.mg = objects[c]
    BY <1>1 DEF Observe, Observation, Worker, Idle, Blank
  <2> QED
    BY <1>1, <2>1 DEF Observe, graph, TypeInv, TypeOK, WorkerOK, Creating
<1>2. ASSUME NEW c \in CRs, ApplyResource(c) \/ EditSpec(c) PROVE TypeInv'
  <2>1. PICK b \in AccountRoleBinding :
          Spell(b) /\ \E o \in Object : objects' = [objects EXCEPT ![c] = o]
    BY <1>2 DEF ApplyResource, EditSpec, TypeInv, TypeOK, Object
  <2>2. objects' \in [CRs -> Object] /\ spelled' \subseteq Account
    BY <2>1 DEF Spell, Account, AccountRoleBinding, TypeInv, TypeOK
  <2>3. edits' \in 0 .. MaxEdits
    BY <1>2 DEF ApplyResource, EditSpec, TypeInv, TypeOK
  <2> QED
    BY <1>2, <2>2, <2>3 DEF ApplyResource, EditSpec, graph, TypeInv, TypeOK, WorkerOK
<1>3. ASSUME NEW c \in CRs, DeleteResource(c) PROVE TypeInv'
  <2>1. objects' \in [CRs -> Object]
    BY <1>3 DEF DeleteResource, Object, TypeInv, TypeOK
  <2> QED
    BY <1>3, <2>1 DEF DeleteResource, graph, TypeInv, TypeOK, WorkerOK
<1>4. CASE RemoveFinalizer
  <2> DEFINE o == [w.mg EXCEPT !.phase = "gone", !.finalizer = FALSE]
  <2>1. o \in Object
    BY DEF Object
  <2>2. Write(o, Idle) /\ w.step # "idle"
    BY <1>4 DEF RemoveFinalizer
  <2> QED
    BY <1>4, <2>1, <2>2, WriteType
       DEF RemoveFinalizer, graph, TypeInv, TypeOK, WorkerOK, Creating
<1>5. CASE AddFinalizer
  <2> DEFINE o == [w.mg EXCEPT !.finalizer = TRUE]
             next == [w EXCEPT !.mg = o]
  <2>1. o \in Object /\ next \in Worker /\ next.mg = o /\ next.step = w.step /\ next.cr = w.cr
        /\ o.phase = w.mg.phase
    BY DEF Object, TypeInv, TypeOK, Worker
  <2>2. Write(o, next) /\ w.step = "decide"
    BY <1>5 DEF AddFinalizer
  <2> QED
    BY <1>5, <2>1, <2>2, WriteType
       DEF AddFinalizer, graph, TypeInv, TypeOK, WorkerOK, Creating
<1>6. CASE WritePending
  <2> DEFINE o == [w.mg EXCEPT !.incomplete = TRUE]
             next == [w EXCEPT !.mg = o, !.step = "mergeAccount"]
  <2>1. o \in Object /\ next \in Worker /\ next.mg = o /\ next.step = "mergeAccount"
        /\ next.cr = w.cr /\ o.phase = w.mg.phase
    BY DEF Object, TypeInv, TypeOK, Worker, Creating
  <2>2. Write(o, next) /\ w.step = "decide"
    BY <1>6 DEF WritePending
  <2> QED
    BY <1>6, <2>1, <2>2, WriteType
       DEF WritePending, graph, TypeInv, TypeOK, WorkerOK, Creating
<1>7. CASE MergeAccount
  <2> DEFINE account == [id |-> w.mg.bindTo.account, alias |-> w.mg.bindTo.alias]
             next == [w EXCEPT !.step = "mergeRole"]
  <2>1. account \in Account /\ next \in Worker
        /\ next.step = "mergeRole" /\ next.cr = w.cr /\ next.mg = w.mg
    BY DEF Account, AccountRoleBinding, Creating, TypeInv, TypeOK, Worker
  <2>2. accounts' \in {accounts, Append(accounts, account)} /\ Committed(next)
    BY <1>7 DEF MergeAccount
  <2>a. accounts \in Seq(Account)
    BY DEF TypeInv, TypeOK
  <2> HIDE DEF account, next
  <2>3. accounts' \in Seq(Account) /\ DOMAIN accounts \subseteq DOMAIN accounts'
    BY <2>1, <2>2, <2>a, Appended
  <2>4. w' \in Worker /\ faults' \in 0 .. MaxFaults /\ w'.step \in {"mergeRole", "recordFailed"}
        /\ w'.cr = w.cr /\ w'.mg = w.mg
    BY <2>1, <2>2, CommittedType
  <2> QED
    BY <1>7, <2>3, <2>4 DEF MergeAccount, TypeInv, TypeOK, WorkerOK, Creating
<1>8. CASE MergeRole
  <2> DEFINE next == [w EXCEPT !.step = "createNode"]
  <2>1. next \in Worker /\ Committed(next)
        /\ next.step = "createNode" /\ next.cr = w.cr /\ next.mg = w.mg
    BY <1>8 DEF MergeRole, Creating, TypeInv, TypeOK, Worker
  <2> HIDE DEF next
  <2>2. w' \in Worker /\ faults' \in 0 .. MaxFaults /\ w'.step \in {"createNode", "recordFailed"}
        /\ w'.cr = w.cr /\ w'.mg = w.mg
    BY <2>1, CommittedType
  <2>3. w.mg.bindTo.role \in RoleNames
    BY DEF AccountRoleBinding
  <2> QED
    BY <1>8, <2>2, <2>3 DEF MergeRole, TypeInv, TypeOK, WorkerOK, Creating
<1>9. CASE CreateNode
  <2> DEFINE node == [live |-> TRUE, owner |-> w.cr, bindTo |-> w.mg.bindTo]
             next == [w EXCEPT !.step = "link", !.made = Len(sets')]
  <2>1. node \in PermissionSet
    BY <1>9 DEF CreateNode, PermissionSet, TypeInv, WorkerOK
  <2>2. sets' = Append(sets, node) /\ Committed(next) /\ w.step = "createNode"
    BY <1>9 DEF CreateNode
  <2>3. sets' \in Seq(PermissionSet) /\ DOMAIN sets \subseteq DOMAIN sets'
        /\ Len(sets') \in Nat /\ Len(sets') \in DOMAIN sets'
    BY <2>1, <2>2, Appended DEF TypeInv, TypeOK
  <2>4. next \in Worker /\ next.step = "link" /\ next.made = Len(sets')
        /\ next.cr = w.cr /\ next.mg = w.mg
    BY <2>3 DEF Worker, TypeInv, TypeOK, Creating
  <2> HIDE DEF next
  <2>5. w' \in Worker /\ faults' \in 0 .. MaxFaults /\ w'.step \in {"link", "recordFailed"}
        /\ w'.cr = w.cr /\ w'.mg = w.mg /\ w'.made = Len(sets')
    BY <2>2, <2>4, CommittedType
  <2> QED
    BY <1>9, <2>2, <2>3, <2>5 DEF CreateNode, TypeInv, TypeOK, WorkerOK, Creating
<1>10. CASE Link
  <2> DEFINE next == [w EXCEPT !.step = "recordSucceeded", !.mg.ext = w.made]
  <2>1. next \in Worker /\ next.step = "recordSucceeded" /\ next.cr = w.cr
        /\ next.mg.phase = w.mg.phase /\ next.made = w.made
    BY DEF Worker, Object, TypeInv, TypeOK
  <2>2. Committed(next) /\ w.step = "link"
    BY <1>10 DEF Link
  <2> HIDE DEF next
  <2>3. w' \in Worker /\ faults' \in 0 .. MaxFaults
        /\ w'.step \in {"recordSucceeded", "recordFailed"}
        /\ w'.cr = w.cr /\ w'.mg.phase = w.mg.phase /\ w'.made = w.made
    BY <2>1, <2>2, CommittedType
  <2>4. w.made \in DOMAIN sets /\ w.mg.bindTo.role \in roles
    BY <2>2 DEF TypeInv, WorkerOK, Creating
  <2>5. to' \subseteq (DOMAIN sets) \X (DOMAIN accounts)
    BY <1>10, <2>4 DEF Link, AccountsWith, TypeInv, TypeOK
  <2>6. with' \subseteq (DOMAIN sets) \X roles
    BY <1>10, <2>4 DEF Link, TypeInv, TypeOK
  <2> QED
    BY <1>10, <2>3, <2>4, <2>5, <2>6 DEF Link, TypeInv, TypeOK, WorkerOK, Creating
<1>11. CASE FailCreate \/ CrashRestart
  <2>1. faults' \in 0 .. MaxFaults /\ w.step # "idle"
    BY <1>11 DEF FailCreate, CrashRestart, Fault, Creating, TypeInv, TypeOK
  <2>2. w' = Idle \/ w' = [w EXCEPT !.step = "recordFailed"]
    BY <1>11 DEF FailCreate, CrashRestart, Goto
  <2>3. w' \in Worker
        /\ (w'.step = "idle" \/ (w'.step = "recordFailed" /\ w'.cr = w.cr /\ w'.mg = w.mg))
    <3>1. CASE w' = Idle
      BY <3>1
    <3>2. CASE w' = [w EXCEPT !.step = "recordFailed"]
      <4>1. w \in Worker
        BY DEF TypeInv, TypeOK
      <4> QED
        BY <3>2, <4>1 DEF Worker
    <3> QED
      BY <2>2, <3>1, <3>2
  <2> QED
    BY <1>11, <2>1, <2>3 DEF FailCreate, CrashRestart, graph, TypeInv, TypeOK, WorkerOK, Creating
<1>12. CASE RecordFailed \/ RecordSucceeded
  <2>1. w' = Idle /\ faults' \in 0 .. MaxFaults
        /\ UNCHANGED <<graph, spelled, edits>>
    BY <1>12 DEF RecordFailed, RecordSucceeded, RecordOutcome, NoFault, Fault, TypeInv, TypeOK
  <2>2. w.cr \in CRs /\ w.made \in Nat
    BY <1>12 DEF RecordFailed, RecordSucceeded, TypeInv, TypeOK, WorkerOK, Worker
  <2>3. objects' \in [CRs -> Object]
    <3>1. objects \in [CRs -> Object]
      BY DEF TypeInv, TypeOK
    <3>2. \A o \in Object, u \in Nat : /\ [o EXCEPT !.incomplete = FALSE] \in Object
                                     /\ [o EXCEPT !.incomplete = FALSE, !.ext = u] \in Object
      BY DEF Object
    <3>3. \/ UNCHANGED objects
          \/ objects' = [objects EXCEPT ![w.cr] = [objects[w.cr] EXCEPT !.incomplete = FALSE]]
          \/ objects' = [objects EXCEPT ![w.cr] = [objects[w.cr] EXCEPT !.incomplete = FALSE,
                                                                      !.ext = w.made]]
      BY <1>12 DEF RecordFailed, RecordSucceeded, RecordOutcome
    <3>4. objects[w.cr] \in Object
      BY <2>2, <3>1
    <3>5. CASE UNCHANGED objects
      BY <3>1, <3>5
    <3>6. CASE objects' = [objects EXCEPT ![w.cr] = [objects[w.cr] EXCEPT !.incomplete = FALSE]]
      BY <2>2, <3>1, <3>2, <3>4, <3>6
    <3>7. CASE objects' = [objects EXCEPT ![w.cr] = [objects[w.cr] EXCEPT !.incomplete = FALSE,
                                                                         !.ext = w.made]]
      BY <2>2, <3>1, <3>2, <3>4, <3>7
    <3> QED
      BY <3>3, <3>5, <3>6, <3>7
  <2> QED
    BY <2>1, <2>3 DEF graph, TypeInv, TypeOK, WorkerOK, Creating
<1>13. CASE UpToDate
  BY <1>13 DEF UpToDate, graph, TypeInv, TypeOK, WorkerOK, Creating
<1>14. CASE UpdatePermissionSet
  <2>1. /\ w' = Idle
        /\ UNCHANGED <<objects, roles, sets, to, with, spelled, edits>>
        /\ faults' \in 0 .. MaxFaults
    BY <1>14 DEF UpdatePermissionSet, NoFault, Fault, TypeInv, TypeOK
  <2>2. accounts' \in [DOMAIN accounts -> Account]
    <3>1. accounts \in [DOMAIN accounts -> Account]
      BY Numbers, LenProperties DEF TypeInv, TypeOK
    <3>2. \A a \in DOMAIN accounts, s \in Aliases : [accounts[a] EXCEPT !.alias = s] \in Account
      BY <3>1 DEF Account
    <3>3. w.mg.bindTo.alias \in Aliases
      BY DEF AccountRoleBinding
    <3> QED
      BY <1>14, <3>1, <3>2, <3>3 DEF UpdatePermissionSet
  <2>3. accounts' \in Seq(Account) /\ DOMAIN accounts' = DOMAIN accounts
    BY <2>2, Rewritten DEF TypeInv, TypeOK
  <2>4. strays' \subseteq (DOMAIN accounts) \X roles
    BY <1>14 DEF UpdatePermissionSet, AccountsWith, TypeInv, TypeOK
  <2> QED
    BY <2>1, <2>3, <2>4 DEF TypeInv, TypeOK, WorkerOK, Creating
<1>15. CASE DeletePermissionSet
  <2>1. /\ w' = Idle
        /\ UNCHANGED <<objects, accounts, roles, strays, spelled, edits>>
        /\ faults' \in 0 .. MaxFaults
        /\ to' \subseteq to /\ with' \subseteq with
    BY <1>15 DEF DeletePermissionSet, NoFault, Fault, TypeInv, TypeOK
  <2>2. sets' \in [DOMAIN sets -> PermissionSet]
    <3>1. sets \in [DOMAIN sets -> PermissionSet]
      BY Numbers, LenProperties DEF TypeInv, TypeOK
    <3>2. sets' = sets \/ sets' = [sets EXCEPT ![w.mg.ext].live = FALSE]
      BY <1>15 DEF DeletePermissionSet
    <3>3. \A s \in PermissionSet : [s EXCEPT !.live = FALSE] \in PermissionSet
      BY DEF PermissionSet
    <3> QED
      BY <3>1, <3>2, <3>3
  <2>3. sets' \in Seq(PermissionSet) /\ DOMAIN sets' = DOMAIN sets
    BY <2>2, Rewritten DEF TypeInv, TypeOK
  <2> QED
    BY <2>1, <2>3 DEF TypeInv, TypeOK, WorkerOK, Creating
<1>16. CASE UNCHANGED vars
  BY <1>16 DEF vars, graph, TypeInv, TypeOK, WorkerOK
<1> QED
  BY <1>1, <1>2, <1>3, <1>4, <1>5, <1>6, <1>7, <1>8, <1>9, <1>10, <1>11, <1>12, <1>13,
     <1>14, <1>15, <1>16 DEF Next, WorkerStep

(* Every reachable state is well typed: relationships join nodes that exist,  *)
(* and the worker links only a node it has created.                          *)
THEOREM TypeCorrect == Spec => []TypeOK
<1>1. Init => TypeInv BY InitType
<1>2. TypeInv /\ [Next]_vars => TypeInv' BY NextType
<1>3. TypeInv => TypeOK BY DEF TypeInv
<1> QED BY <1>1, <1>2, <1>3, PTL DEF Spec

-----------------------------------------------------------------------------
(* Nothing in the graph changes its identity: an account keeps its id and a   *)
(* permission set its history, and only a deletion takes relationships away.   *)

LEMMA GraphKept ==
  ASSUME TypeInv, [Next]_vars
  PROVE  /\ DOMAIN accounts \subseteq DOMAIN accounts'
         /\ \A a \in DOMAIN accounts : accounts'[a].id = accounts[a].id
         /\ DOMAIN sets \subseteq DOMAIN sets'
         /\ \A u \in DOMAIN sets : /\ sets'[u].owner = sets[u].owner
                                   /\ sets'[u].bindTo = sets[u].bindTo
         /\ ~DeletePermissionSet => /\ to \subseteq to' /\ with \subseteq with'
                                    /\ \A u \in DOMAIN sets : sets'[u].live = sets[u].live
<1> DEFINE Kept == /\ DOMAIN accounts \subseteq DOMAIN accounts'
                   /\ \A a \in DOMAIN accounts : accounts'[a].id = accounts[a].id
           SetsKept == /\ DOMAIN sets \subseteq DOMAIN sets'
                       /\ \A u \in DOMAIN sets : sets'[u] = sets[u]
<1>t. accounts \in Seq(Account) /\ sets \in Seq(PermissionSet)
  BY DEF TypeInv, TypeOK
<1>1. CASE MergeAccount
  <2> DEFINE account == [id |-> w.mg.bindTo.account, alias |-> w.mg.bindTo.alias]
  <2>1. account \in Account
    BY CopyType DEF Account, AccountRoleBinding
  <2>2. accounts' \in {accounts, Append(accounts, account)}
        /\ UNCHANGED <<sets, to, with>>
    BY <1>1 DEF MergeAccount
  <2> HIDE DEF account
  <2>3. Kept
    BY <1>t, <2>1, <2>2, Appended
  <2> QED
    BY <2>2, <2>3
<1>2. CASE CreateNode
  <2> DEFINE node == [live |-> TRUE, owner |-> w.cr, bindTo |-> w.mg.bindTo]
  <2>1. node \in PermissionSet
    BY <1>2, CopyType DEF CreateNode, PermissionSet, TypeInv, WorkerOK
  <2>2. sets' = Append(sets, node) /\ UNCHANGED <<accounts, to, with>>
    BY <1>2 DEF CreateNode
  <2> HIDE DEF node
  <2>3. SetsKept
    BY <1>t, <2>1, <2>2, Appended
  <2> QED
    BY <2>2, <2>3
<1>3. CASE UpdatePermissionSet
  <2>1. UNCHANGED <<sets, to, with>>
    BY <1>3 DEF UpdatePermissionSet
  <2>2. accounts \in [DOMAIN accounts -> Account]
    BY <1>t, Numbers, LenProperties
  <2>3. \A a \in DOMAIN accounts, s \in Aliases : [accounts[a] EXCEPT !.alias = s].id = accounts[a].id
    BY <2>2 DEF Account
  <2>4. w.mg.bindTo.alias \in Aliases
    BY CopyType DEF AccountRoleBinding
  <2>5. Kept
    BY <1>3, <2>2, <2>3, <2>4 DEF UpdatePermissionSet
  <2> QED
    BY <2>1, <2>5
<1>4. CASE DeletePermissionSet
  <2>1. UNCHANGED accounts
    BY <1>4 DEF DeletePermissionSet
  <2>2. sets \in [DOMAIN sets -> PermissionSet]
    BY <1>t, Numbers, LenProperties
  <2>3. DOMAIN sets' = DOMAIN sets
        /\ \A u \in DOMAIN sets : sets'[u].owner = sets[u].owner /\ sets'[u].bindTo = sets[u].bindTo
    BY <1>4, <2>2 DEF DeletePermissionSet, PermissionSet
  <2> QED
    BY <1>4, <2>1, <2>3
<1>5. CASE Link
  BY <1>5 DEF Link
<1>6. CASE UNCHANGED <<accounts, sets, to, with>>
  BY <1>6
<1>7. \/ MergeAccount \/ CreateNode \/ UpdatePermissionSet \/ DeletePermissionSet \/ Link
      \/ UNCHANGED <<accounts, sets, to, with>>
  <2>1. ASSUME NEW c \in CRs, Observe(c) \/ ApplyResource(c) \/ EditSpec(c) \/ DeleteResource(c)
        PROVE  UNCHANGED <<accounts, sets, to, with>>
    BY <2>1 DEF Observe, ApplyResource, EditSpec, DeleteResource, graph
  <2>2. CASE RemoveFinalizer \/ AddFinalizer \/ WritePending \/ UpToDate
    BY <2>2 DEF RemoveFinalizer, AddFinalizer, WritePending, UpToDate, graph
  <2>3. CASE MergeRole \/ FailCreate \/ CrashRestart
    BY <2>3 DEF MergeRole, FailCreate, CrashRestart, graph
  <2>4. CASE RecordFailed \/ RecordSucceeded
    BY <2>4 DEF RecordFailed, RecordSucceeded, RecordOutcome, graph
  <2>5. CASE UNCHANGED vars
    BY <2>5 DEF vars, graph
  <2> QED
    BY <2>1, <2>2, <2>3, <2>4, <2>5 DEF Next, WorkerStep
<1> QED
  BY <1>1, <1>2, <1>3, <1>4, <1>5, <1>6, <1>7

-----------------------------------------------------------------------------
(* What a permission set delegates to.  The worker links the node it created *)
(* with the binding it created it for.                                       *)

LinkInv ==
  /\ \A u \in DOMAIN sets, a \in DOMAIN accounts :
       <<u, a>> \in to => accounts[a].id = sets[u].bindTo.account
  /\ \A u \in DOMAIN sets, r \in RoleNames : <<u, r>> \in with => r = sets[u].bindTo.role
  /\ w.step = "link" => sets[w.made].bindTo = w.mg.bindTo

(* The only action that relates anything, and the only way to it. *)
LEMMA LinkOnly ==
  ASSUME TypeInv, [Next]_vars
  PROVE  /\ Link \/ (to' \subseteq to /\ with' \subseteq with)
         /\ w'.step = "link" => CreateNode \/ (w' = w /\ UNCHANGED sets)
<1> USE IdleType
<1>1. ASSUME NEW c \in CRs, Observe(c) \/ ApplyResource(c) \/ EditSpec(c) \/ DeleteResource(c)
      PROVE  /\ to' \subseteq to /\ with' \subseteq with
             /\ w'.step = "decide" \/ (w' = w /\ UNCHANGED sets)
  <2>1. CASE Observe(c)
    <3>1. w'.step = "decide"
      BY <2>1 DEF Observe, Idle
    <3> QED BY <2>1, <3>1 DEF Observe, graph
  <2>2. CASE ApplyResource(c) \/ EditSpec(c) \/ DeleteResource(c)
    BY <2>2 DEF ApplyResource, EditSpec, DeleteResource, graph
  <2> QED BY <1>1, <2>1, <2>2
<1>2. CASE RemoveFinalizer \/ AddFinalizer \/ WritePending
  <2>1. to' \subseteq to /\ with' \subseteq with /\ w.step = "decide"
    BY <1>2 DEF RemoveFinalizer, AddFinalizer, WritePending, graph
  <2>2. w \in Worker
    BY DEF TypeInv, TypeOK
  <2>3. w'.step # "link"
    BY <1>2, <2>2 DEF RemoveFinalizer, AddFinalizer, WritePending, Write, Worker
  <2> QED BY <2>1, <2>3
<1>3. CASE MergeAccount \/ MergeRole \/ FailCreate
  <2>1. w \in Worker
    BY DEF TypeInv, TypeOK
  <2>2. w'.step # "link"
    BY <1>3, <2>1 DEF MergeAccount, MergeRole, FailCreate, Committed, Goto, Worker
  <2> QED BY <1>3, <2>2 DEF MergeAccount, MergeRole, FailCreate, graph
<1>4. CASE CreateNode
  BY <1>4 DEF CreateNode
<1>5. CASE Link
  <2>1. w \in Worker
    BY DEF TypeInv, TypeOK
  <2>2. w'.step # "link"
    BY <1>5, <2>1 DEF Link, Committed, Worker
  <2> QED BY <1>5, <2>2
<1>6. CASE RecordFailed \/ RecordSucceeded \/ UpToDate \/ CrashRestart
  BY <1>6 DEF RecordFailed, RecordSucceeded, RecordOutcome, UpToDate, CrashRestart, graph
<1>7. CASE UpdatePermissionSet \/ DeletePermissionSet
  BY <1>7 DEF UpdatePermissionSet, DeletePermissionSet
<1>8. CASE UNCHANGED vars
  BY <1>8 DEF vars, graph
<1> QED
  BY <1>1, <1>2, <1>3, <1>4, <1>5, <1>6, <1>7, <1>8 DEF Next, WorkerStep

LEMMA NextLink == TypeInv /\ LinkInv /\ [Next]_vars => LinkInv'
<1> SUFFICES ASSUME TypeInv, LinkInv, [Next]_vars PROVE LinkInv'
  OBVIOUS
<1>1. /\ to \subseteq (DOMAIN sets) \X (DOMAIN accounts)
      /\ with \subseteq (DOMAIN sets) \X roles
      /\ roles \subseteq RoleNames
  BY DEF TypeInv, TypeOK
<1>2. \A u, a : <<u, a>> \in to => accounts'[a].id = sets'[u].bindTo.account
  BY <1>1, GraphKept DEF LinkInv
<1>3. \A u, r : <<u, r>> \in with => r = sets'[u].bindTo.role
  BY <1>1, GraphKept DEF LinkInv
<1>4. w'.step = "link" => sets'[w'.made].bindTo = w'.mg.bindTo
  <2>1. CASE CreateNode
    <3> DEFINE node == [live |-> TRUE, owner |-> w.cr, bindTo |-> w.mg.bindTo]
    <3>1. node \in PermissionSet /\ node.bindTo = w.mg.bindTo
      BY <2>1, CopyType DEF CreateNode, PermissionSet, TypeInv, WorkerOK
    <3>2. sets' = Append(sets, node)
      BY <2>1 DEF CreateNode
    <3>3. w'.step = "link" => w'.made = Len(sets') /\ w'.mg = w.mg
      BY <2>1 DEF CreateNode, Committed, TypeInv, TypeOK, Worker
    <3>4. sets'[Len(sets')] = node
      <4> HIDE DEF node
      <4> QED BY <3>1, <3>2, Appended DEF TypeInv, TypeOK
    <3> QED BY <3>1, <3>3, <3>4
  <2>2. CASE w' = w /\ UNCHANGED sets
    BY <2>2 DEF LinkInv
  <2> QED
    BY <2>1, <2>2, LinkOnly
<1>5. CASE Link
  <2> DEFINE b       == w.mg.bindTo
             matched == IF b.role \in roles THEN AccountsWith(b.account) ELSE {}
  <2>1. /\ to' = to \cup ({w.made} \X matched)
        /\ with' = with \cup {p \in {<<w.made, b.role>>} : matched # {}}
        /\ UNCHANGED <<accounts, sets>>
    BY <1>5 DEF Link
  <2>2. sets[w.made].bindTo = b
    BY <1>5 DEF Link, LinkInv
  <2>3. \A a \in matched : accounts[a].id = b.account
    BY DEF AccountsWith
  <2>4. \A u, a : <<u, a>> \in to' => accounts'[a].id = sets'[u].bindTo.account
    BY <1>2, <2>1, <2>2, <2>3
  <2>5. \A u, r : <<u, r>> \in with' => r = sets'[u].bindTo.role
    BY <1>3, <2>1, <2>2
  <2> QED
    BY <1>4, <2>4, <2>5 DEF LinkInv
<1>6. CASE to' \subseteq to /\ with' \subseteq with
  BY <1>2, <1>3, <1>4, <1>6 DEF LinkInv
<1> QED
  BY <1>5, <1>6, LinkOnly

LEMMA InitLink == Init => LinkInv
BY IdleType DEF Init, LinkInv

LEMMA LinkedAsAsked == TypeInv /\ LinkInv => DelegatesAsAsked
<1> SUFFICES ASSUME TypeInv, LinkInv, NEW u \in DOMAIN sets, NEW r \in Rows(u)
             PROVE  BindingOf(r).account = sets[u].bindTo.account /\ r[2] = sets[u].bindTo.role
  BY DEF DelegatesAsAsked
<1>1. r[1] \in DOMAIN accounts /\ r[2] \in RoleNames /\ <<u, r[1]>> \in to /\ <<u, r[2]>> \in with
  BY DEF Rows
<1>2. BindingOf(r).account = accounts[r[1]].id
  BY DEF BindingOf
<1> QED
  BY <1>1, <1>2 DEF LinkInv

(* Whatever is created, lost, retried, edited and deleted, and whoever shares *)
(* the account: a permission set delegates to the account and the role that   *)
(* its own resource asked for.                                                *)
THEOREM DelegationAsAsked == Spec => []DelegatesAsAsked
<1>1. Init => TypeInv /\ LinkInv BY InitType, InitLink
<1>2. TypeInv /\ LinkInv /\ [Next]_vars => TypeInv' /\ LinkInv' BY NextType, NextLink
<1>3. TypeInv /\ LinkInv => DelegatesAsAsked BY LinkedAsAsked
<1> QED BY <1>1, <1>2, <1>3, PTL DEF Spec

-----------------------------------------------------------------------------
(* Ambiguity.  Every account node is spelled as some spec has spelled it, and *)
(* two nodes have one id only if two specs have spelled it differently.       *)

Spelling(b) == [id |-> b.account, alias |-> b.alias]

Misspelled(id, S) == \E s, t \in S : s.id = id /\ t.id = id /\ s.alias # t.alias

SpecsSpelled ==
  /\ \A c \in CRs : objects[c].phase # "absent" => Spelling(objects[c].bindTo) \in spelled
  /\ w.step # "idle" => Spelling(w.mg.bindTo) \in spelled

AccountsSpelled ==
  /\ \A a \in DOMAIN accounts : accounts[a] \in spelled
  /\ \A a, b \in DOMAIN accounts :
       a # b /\ accounts[a].id = accounts[b].id => Misspelled(accounts[a].id, spelled)

SpellInv == SpecsSpelled /\ AccountsSpelled

LEMMA SpelledKept == [Next]_vars => spelled \subseteq spelled'
<1> SUFFICES ASSUME [Next]_vars PROVE spelled \subseteq spelled'
  OBVIOUS
<1>1. ASSUME NEW c \in CRs, Observe(c) \/ ApplyResource(c) \/ EditSpec(c) \/ DeleteResource(c)
      PROVE  spelled \subseteq spelled'
  BY <1>1 DEF Observe, ApplyResource, EditSpec, DeleteResource, Spell
<1>2. CASE WorkerStep
  BY <1>2 DEF WorkerStep, RemoveFinalizer, AddFinalizer, WritePending, MergeAccount, MergeRole,
       CreateNode, Link, FailCreate, RecordFailed, RecordSucceeded, RecordOutcome, UpToDate,
       UpdatePermissionSet, DeletePermissionSet
<1>3. CASE CrashRestart \/ UNCHANGED vars
  BY <1>3 DEF CrashRestart, vars
<1> QED
  BY <1>1, <1>2, <1>3 DEF Next

(* A write of the worker's object keeps bindings. *)
LEMMA WriteBinding ==
  ASSUME TypeInv, w.step # "idle", NEW o \in Object, o.bindTo = w.mg.bindTo,
         NEW next, next.mg = w.mg \/ next.mg = o \/ next = Idle, Write(o, next)
  PROVE  /\ \A c \in CRs : \/ objects'[c] = objects[c]
                           \/ objects'[c].bindTo = objects[c].bindTo
                                /\ objects[c].phase \in {"present", "deleting"}
         /\ w'.step = "idle" \/ w'.mg.bindTo = w.mg.bindTo
BY IdleType DEF Write, TypeInv, TypeOK, WorkerOK, Object

(* What each step does to the bindings the loop works with. *)
LEMMA Bindings ==
  ASSUME TypeInv, [Next]_vars
  PROVE  /\ \A c \in CRs :
              \/ objects'[c].phase = "absent"
              \/ objects'[c].bindTo = objects[c].bindTo /\ objects[c].phase # "absent"
              \/ Spelling(objects'[c].bindTo) \in spelled'
         /\ \/ w'.step = "idle"
            \/ w'.mg.bindTo = w.mg.bindTo /\ w.step # "idle"
            \/ \E c \in CRs : w'.mg = objects[c] /\ objects[c].phase # "absent"
<1> USE IdleType, CopyType
<1>t. objects \in [CRs -> Object] /\ w \in Worker
  BY DEF TypeInv, TypeOK
<1>1. ASSUME NEW c \in CRs, Observe(c) 
      PROVE  UNCHANGED objects /\ w'.mg = objects[c] /\ objects[c].phase # "absent"
  BY <1>1 DEF Observe, Idle
<1>2. ASSUME NEW c \in CRs, ApplyResource(c) \/ EditSpec(c)
      PROVE  /\ \A d \in CRs : objects'[d] = objects[d] \/ Spelling(objects'[d].bindTo) \in spelled'
             /\ w' = w
  <2>1. PICK b \in AccountRoleBinding :
          /\ Spell(b)
          /\ objects' = [objects EXCEPT ![c].phase = "present", ![c].bindTo = b]
             \/ objects' = [objects EXCEPT ![c].bindTo = b]
    BY <1>2 DEF ApplyResource, EditSpec
  <2>2. \A d \in CRs : objects'[d] = objects[d] \/ objects'[d].bindTo = b
    BY <1>t, <2>1 DEF Object
  <2>3. Spelling(b) \in spelled'
    BY <2>1 DEF Spell, Spelling
  <2>4. w' = w
    BY <1>2 DEF ApplyResource, EditSpec
  <2> QED
    BY <2>2, <2>3, <2>4
<1>3. ASSUME NEW c \in CRs, DeleteResource(c)
      PROVE  /\ \A d \in CRs : \/ objects'[d] = objects[d]
                               \/ objects'[d].bindTo = objects[d].bindTo /\ objects[d].phase # "absent"
             /\ w' = w
  BY <1>3, <1>t DEF DeleteResource, Object
<1> DEFINE Kept == /\ \A d \in CRs : \/ objects'[d] = objects[d]
                                     \/ objects'[d].bindTo = objects[d].bindTo /\ objects[d].phase # "absent"
                   /\ w'.step = "idle" \/ (w'.mg.bindTo = w.mg.bindTo /\ w.step # "idle")
<1>4. CASE RemoveFinalizer
  <2> DEFINE o == [w.mg EXCEPT !.phase = "gone", !.finalizer = FALSE]
  <2>1. o \in Object /\ o.bindTo = w.mg.bindTo
    BY DEF Object
  <2>2. Write(o, Idle) /\ w.step # "idle"
    BY <1>4 DEF RemoveFinalizer
  <2> HIDE DEF o
  <2> QED BY <2>1, <2>2, WriteBinding
<1>5. CASE AddFinalizer
  <2> DEFINE o == [w.mg EXCEPT !.finalizer = TRUE]
             next == [w EXCEPT !.mg = o]
  <2>1. o \in Object /\ o.bindTo = w.mg.bindTo /\ next.mg = o
    BY <1>t DEF Object, Worker
  <2>2. Write(o, next) /\ w.step # "idle"
    BY <1>5 DEF AddFinalizer
  <2> HIDE DEF o, next
  <2> QED BY <2>1, <2>2, WriteBinding
<1>6. CASE WritePending
  <2> DEFINE o == [w.mg EXCEPT !.incomplete = TRUE]
             next == [w EXCEPT !.mg = o, !.step = "mergeAccount"]
  <2>1. o \in Object /\ o.bindTo = w.mg.bindTo /\ next.mg = o
    BY <1>t DEF Object, Worker
  <2>2. Write(o, next) /\ w.step # "idle"
    BY <1>6 DEF WritePending
  <2> HIDE DEF o, next
  <2> QED BY <2>1, <2>2, WriteBinding
<1>7. CASE MergeAccount \/ MergeRole \/ CreateNode \/ Link
  <2>1. w.step # "idle" /\ UNCHANGED objects
    BY <1>7 DEF MergeAccount, MergeRole, CreateNode, Link
  <2>2. w'.mg.bindTo = w.mg.bindTo
    <3>1. CASE MergeAccount \/ MergeRole
      BY <1>t, <3>1 DEF MergeAccount, MergeRole, Committed, Worker
    <3>2. CASE CreateNode
      BY <1>t, <3>2 DEF CreateNode, Committed, Worker
    <3>3. CASE Link
      <4>1. w.mg \in Object
        BY <1>t DEF Worker
      <4>2. w'.mg = [w.mg EXCEPT !.ext = w.made]
        BY <1>t, <3>3 DEF Link, Committed, Worker
      <4> QED BY <4>1, <4>2 DEF Object
    <3> QED BY <1>7, <3>1, <3>2, <3>3
  <2> QED BY <2>1, <2>2
<1>8. CASE FailCreate
  <2>1. UNCHANGED objects /\ w.step # "idle" /\ w' = [w EXCEPT !.step = "recordFailed"]
    BY <1>8 DEF FailCreate, Goto, Creating
  <2>2. w'.mg = w.mg
    BY <1>t, <2>1 DEF Worker
  <2> QED BY <2>1, <2>2
<1>9. CASE RecordFailed \/ RecordSucceeded
  <2>1. w' = Idle /\ w.cr \in CRs
    BY <1>9 DEF RecordFailed, RecordSucceeded, RecordOutcome, TypeInv, WorkerOK
  <2>2. \A d \in CRs : objects'[d].bindTo = objects[d].bindTo /\ objects'[d].phase = objects[d].phase
    <3>1. PICK o : /\ o = [objects[w.cr] EXCEPT !.incomplete = FALSE]
                      \/ o = [objects[w.cr] EXCEPT !.incomplete = FALSE, !.ext = w.made]
                   /\ UNCHANGED objects \/ objects' = [objects EXCEPT ![w.cr] = o]
      BY <1>9 DEF RecordFailed, RecordSucceeded, RecordOutcome
    <3>2. o.bindTo = objects[w.cr].bindTo /\ o.phase = objects[w.cr].phase
      BY <1>t, <2>1, <3>1 DEF Object
    <3> QED BY <1>t, <2>1, <3>1, <3>2
  <2> QED BY <2>1, <2>2
<1>10. CASE UpToDate \/ UpdatePermissionSet \/ DeletePermissionSet \/ CrashRestart
  BY <1>10 DEF UpToDate, UpdatePermissionSet, DeletePermissionSet, CrashRestart
<1>11. CASE UNCHANGED vars
  BY <1>11 DEF vars
<1> QED
  BY <1>1, <1>2, <1>3, <1>4, <1>5, <1>6, <1>7, <1>8, <1>9, <1>10, <1>11 DEF Next, WorkerStep

LEMMA NextSpecsSpelled == TypeInv /\ SpecsSpelled /\ [Next]_vars => SpecsSpelled'
BY Bindings, SpelledKept DEF SpecsSpelled

LEMMA AccountsChange ==
  ASSUME [Next]_vars
  PROVE  MergeAccount \/ UpdatePermissionSet \/ UNCHANGED accounts
<1>1. ASSUME NEW c \in CRs, Observe(c) \/ ApplyResource(c) \/ EditSpec(c) \/ DeleteResource(c)
      PROVE  UNCHANGED accounts
  BY <1>1 DEF Observe, ApplyResource, EditSpec, DeleteResource, graph
<1>2. CASE WorkerStep
  BY <1>2 DEF WorkerStep, RemoveFinalizer, AddFinalizer, WritePending, MergeRole, CreateNode,
       Link, FailCreate, RecordFailed, RecordSucceeded, RecordOutcome, UpToDate,
       DeletePermissionSet, graph
<1>3. CASE CrashRestart \/ UNCHANGED vars
  BY <1>3 DEF CrashRestart, vars, graph
<1> QED
  BY <1>1, <1>2, <1>3 DEF Next

LEMMA NextAccountsSpelled == TypeInv /\ SpellInv /\ [Next]_vars => AccountsSpelled'
<1> SUFFICES ASSUME TypeInv, SpellInv, [Next]_vars PROVE AccountsSpelled'
  OBVIOUS
<1>t. accounts \in Seq(Account) /\ accounts \in [DOMAIN accounts -> Account]
  BY Numbers, LenProperties DEF TypeInv, TypeOK
<1>s. spelled \subseteq spelled' /\ \A id : Misspelled(id, spelled) => Misspelled(id, spelled')
  BY SpelledKept DEF Misspelled
<1>1. CASE MergeAccount
  <2> DEFINE account == Spelling(w.mg.bindTo)
  <2>1. account \in Account /\ account \in spelled
    BY <1>1, CopyType DEF MergeAccount, Spelling, Account, AccountRoleBinding, SpellInv, SpecsSpelled
  <2>2. \/ UNCHANGED accounts
        \/ accounts' = Append(accounts, account) /\ \A a \in DOMAIN accounts : accounts[a] # account
    BY <1>1 DEF MergeAccount, Spelling
  <2>3. CASE UNCHANGED accounts
    BY <1>s, <2>3 DEF SpellInv, AccountsSpelled
  <2>4. CASE /\ accounts' = Append(accounts, account)
             /\ \A a \in DOMAIN accounts : accounts[a] # account
    <3> HIDE DEF account
    <3> DEFINE new == Len(accounts) + 1
    <3>1. /\ DOMAIN accounts' = DOMAIN accounts \cup {new} /\ new \notin DOMAIN accounts
          /\ \A a \in DOMAIN accounts : accounts'[a] = accounts[a]
          /\ accounts'[new] = account
      BY <1>t, <2>1, <2>4, Appended
    <3> HIDE DEF new
    <3>2. \A a \in DOMAIN accounts : accounts[a].id = account.id => Misspelled(account.id, spelled')
      <4> SUFFICES ASSUME NEW a \in DOMAIN accounts, accounts[a].id = account.id
                   PROVE  Misspelled(account.id, spelled')
        OBVIOUS
      <4>1. accounts[a] \in Account /\ accounts[a] # account
        BY <1>t, <2>4
      <4>2. accounts[a].alias # account.alias
        BY <2>1, <4>1 DEF Account
      <4>3. accounts[a] \in spelled /\ account \in spelled
        BY <2>1 DEF SpellInv, AccountsSpelled
      <4>4. Misspelled(account.id, spelled)
        BY <4>2, <4>3 DEF Misspelled
      <4> QED BY <1>s, <4>4
    <3>3. \A a \in DOMAIN accounts' : accounts'[a] \in spelled'
      BY <1>s, <2>1, <3>1 DEF SpellInv, AccountsSpelled
    <3>4. ASSUME NEW a \in DOMAIN accounts', NEW b \in DOMAIN accounts', a # b,
                 accounts'[a].id = accounts'[b].id
          PROVE  Misspelled(accounts'[a].id, spelled')
      <4>1. CASE a = new
        BY <3>1, <3>2, <3>4, <4>1
      <4>2. CASE b = new
        BY <3>1, <3>2, <3>4, <4>2
      <4>3. CASE a # new /\ b # new
        BY <1>s, <3>1, <3>4, <4>3 DEF SpellInv, AccountsSpelled
      <4> QED BY <4>1, <4>2, <4>3
    <3> QED BY <3>3, <3>4 DEF AccountsSpelled
  <2> QED BY <2>2, <2>3, <2>4
<1>2. CASE UpdatePermissionSet
  <2> DEFINE b == w.mg.bindTo
  <2>1. Spelling(b) \in spelled
    BY <1>2 DEF UpdatePermissionSet, SpellInv, SpecsSpelled
  <2>2. /\ DOMAIN accounts' = DOMAIN accounts
        /\ \A a \in DOMAIN accounts :
             \/ accounts'[a] = accounts[a]
             \/ accounts[a].id = b.account /\ accounts'[a] = [accounts[a] EXCEPT !.alias = b.alias]
    BY <1>2 DEF UpdatePermissionSet, AccountsWith
  <2>3. \A a \in DOMAIN accounts : \/ accounts'[a] = accounts[a]
                                   \/ accounts'[a] = Spelling(b)
    BY <1>t, <2>2 DEF Account, Spelling
  <2>4. \A a \in DOMAIN accounts : accounts'[a].id = accounts[a].id
    BY GraphKept
  <2>5. \A a \in DOMAIN accounts' : accounts'[a] \in spelled'
    BY <1>s, <2>1, <2>2, <2>3 DEF SpellInv, AccountsSpelled
  <2>6. \A a, c \in DOMAIN accounts' :
          a # c /\ accounts'[a].id = accounts'[c].id => Misspelled(accounts'[a].id, spelled')
    BY <1>s, <2>2, <2>4 DEF SpellInv, AccountsSpelled
  <2> QED BY <2>5, <2>6 DEF AccountsSpelled
<1>3. CASE UNCHANGED accounts
  BY <1>s, <1>3 DEF SpellInv, AccountsSpelled
<1> QED BY <1>1, <1>2, <1>3, AccountsChange

LEMMA InitSpelled == Init => SpellInv
<1>1. DOMAIN <<>> = {}
  OBVIOUS
<1> QED BY <1>1, IdleType DEF Init, SpellInv, SpecsSpelled, AccountsSpelled, Blank

(* One of at most one row is no ambiguity. *)
LEMMA SeveralRows ==
  ASSUME NEW S, Cardinality(S) > 1
  PROVE  \E r, q \in S : r # q
<1> SUFFICES ASSUME \A r, q \in S : r = q PROVE FALSE
  OBVIOUS
<1>1. CASE S = {}
  BY <1>1, FS_EmptySet
<1>2. CASE S # {}
  <2>1. PICK r \in S : TRUE
    BY <1>2
  <2>2. S = {r}
    BY <2>1
  <2>3. Cardinality(S) = 1
    BY <2>2, FS_Singleton
  <2> QED BY <2>3
<1> QED BY <1>1, <1>2

LEMMA MisspelledOnly == TypeInv /\ LinkInv /\ SpellInv => AmbiguousOnlyIfMisspelled
<1> SUFFICES ASSUME TypeInv, LinkInv, SpellInv, NEW u \in DOMAIN sets, Ambiguous(u)
             PROVE  \E s, t \in spelled : s.id = t.id /\ s.alias # t.alias
  BY DEF AmbiguousOnlyIfMisspelled
<1>1. PICK r \in Rows(u), q \in Rows(u) : r # q
  BY SeveralRows DEF Ambiguous
<1>2. /\ r \in (DOMAIN accounts) \X RoleNames /\ <<u, r[1]>> \in to /\ <<u, r[2]>> \in with
      /\ q \in (DOMAIN accounts) \X RoleNames /\ <<u, q[1]>> \in to /\ <<u, q[2]>> \in with
  BY <1>1 DEF Rows
<1>3. r[2] = q[2] /\ accounts[r[1]].id = accounts[q[1]].id
  BY <1>2 DEF LinkInv
<1>4. r[1] # q[1]
  BY <1>1, <1>2, <1>3
<1>5. Misspelled(accounts[r[1]].id, spelled)
  BY <1>2, <1>3, <1>4 DEF SpellInv, AccountsSpelled
<1> QED BY <1>5 DEF Misspelled

(* An observation of a permission set fails only if two specs have spelled the *)
(* alias of one account in two ways.                                          *)
THEOREM AmbiguityNeedsMisspelling == Spec => []AmbiguousOnlyIfMisspelled
<1>1. Init => TypeInv /\ LinkInv /\ SpellInv
  BY InitType, InitLink, InitSpelled
<1>2. TypeInv /\ LinkInv /\ SpellInv /\ [Next]_vars => TypeInv' /\ LinkInv' /\ SpellInv'
  BY NextType, NextLink, NextSpecsSpelled, NextAccountsSpelled DEF SpellInv
<1>3. TypeInv /\ LinkInv /\ SpellInv => AmbiguousOnlyIfMisspelled
  BY MisspelledOnly
<1> QED BY <1>1, <1>2, <1>3, PTL DEF Spec

-----------------------------------------------------------------------------
(* The node a resource names.  While a creation is under way the finalizer   *)
(* holds the object, the account to link is there, and the node lives; a      *)
(* worker that has found nothing knows that the node is deleted.              *)

Linked(u) == \E a \in DOMAIN accounts, r \in RoleNames : <<u, a>> \in to /\ <<u, r>> \in with

(* o is what resource c is, or is about to be. *)
NamesItsNode(c, o) ==
  o.ext # 0 =>
    /\ o.ext \in DOMAIN sets /\ sets[o.ext].owner = c
    /\ o.phase = "gone" \/ (o.phase \in {"present", "deleting"} /\ o.finalizer)
    /\ sets[o.ext].live => Linked(o.ext) /\ o.phase # "gone"

Busy == Creating \cup {"recordFailed", "recordSucceeded"}

NodeInv ==
  /\ \A c \in CRs : NamesItsNode(c, objects[c])
  /\ w.step \in Busy => objects[w.cr].finalizer /\ objects[w.cr].phase \in {"present", "deleting"}
  /\ w.step \in {"mergeRole", "createNode", "link"} => AccountsWith(w.mg.bindTo.account) # {}
  /\ w.step \in {"link", "recordSucceeded"} => sets[w.made].owner = w.cr /\ sets[w.made].live
  /\ w.step = "recordSucceeded" => Linked(w.made)
  /\ w.step = "decide" /\ w.obs = "absent" /\ w.mg.ext # 0 =>
       w.mg.ext \in DOMAIN sets /\ ~sets[w.mg.ext].live

LEMMA RowsLinked == \A u : Rows(u) = {} <=> ~Linked(u)
<1> TAKE u
<1>1. ASSUME Linked(u) PROVE Rows(u) # {}
  <2>1. PICK a \in DOMAIN accounts, r \in RoleNames : <<u, a>> \in to /\ <<u, r>> \in with
    BY <1>1 DEF Linked
  <2>2. <<a, r>> \in Rows(u)
    BY <2>1 DEF Rows
  <2> QED BY <2>2
<1>2. ASSUME NEW p \in Rows(u) PROVE Linked(u)
  BY <1>2 DEF Rows, Linked
<1> QED BY <1>1, <1>2

LEMMA NamedIsLinked == NodeInv => NamedNodeLinked
BY RowsLinked DEF NodeInv, NamesItsNode, NamedNodeLinked

LEMMA InitNode == Init => NodeInv
BY IdleType DEF Init, NodeInv, NamesItsNode, Blank, Busy, Creating

(* The part of the invariant about the objects, as the graph moves on. *)
LEMMA NamesKept ==
  ASSUME TypeInv, [Next]_vars, NEW c, NEW o, NamesItsNode(c, o)
  PROVE  NamesItsNode(c, o)'
<1>1. CASE DeletePermissionSet
  <2>1. sets \in [DOMAIN sets -> PermissionSet]
    BY Numbers, LenProperties DEF TypeInv, TypeOK
  <2>2. \/ UNCHANGED <<sets, to, with>>
        \/ /\ sets' = [sets EXCEPT ![w.mg.ext].live = FALSE]
           /\ to' = {p \in to : p[1] # w.mg.ext}
           /\ with' = {p \in with : p[1] # w.mg.ext}
    BY <1>1 DEF DeletePermissionSet
  <2>3. UNCHANGED accounts
    BY <1>1 DEF DeletePermissionSet
  <2>4. CASE UNCHANGED <<sets, to, with>>
    BY <2>3, <2>4 DEF NamesItsNode, Linked
  <2>5. CASE /\ sets' = [sets EXCEPT ![w.mg.ext].live = FALSE]
             /\ to' = {p \in to : p[1] # w.mg.ext}
             /\ with' = {p \in with : p[1] # w.mg.ext}
    <3>1. \A u \in DOMAIN sets : /\ sets'[u].live => u # w.mg.ext /\ sets[u].live
                                 /\ sets'[u].owner = sets[u].owner
      BY <2>1, <2>5 DEF PermissionSet
    <3>2. \A u : u # w.mg.ext /\ Linked(u) => Linked(u)'
      BY <2>3, <2>5 DEF Linked
    <3>3. DOMAIN sets' = DOMAIN sets
      BY <2>5
    <3> QED BY <3>1, <3>2, <3>3 DEF NamesItsNode
  <2> QED BY <2>2, <2>4, <2>5
<1>2. CASE ~DeletePermissionSet
  <2>1. \A u : Linked(u) => Linked(u)'
    BY <1>2, GraphKept DEF Linked
  <2> QED BY <1>2, <2>1, GraphKept DEF NamesItsNode
<1> QED BY <1>1, <1>2

(* The objects, as other steps write them: the graph does not move then. *)
LEMMA NamesWritten ==
  ASSUME TypeInv, NodeInv, [Next]_vars, UNCHANGED graph, NEW d \in CRs, NEW o,
         objects' = [objects EXCEPT ![d] = o], NamesItsNode(d, o)
  PROVE  \A c \in CRs : NamesItsNode(c, objects[c])'
<1>1. objects \in [CRs -> Object]
  BY DEF TypeInv, TypeOK
<1>2. \A c \in CRs : (objects'[c] = o /\ c = d) \/ objects'[c] = objects[c]
  BY <1>1
<1>3. \A c \in CRs : NamesItsNode(c, objects'[c])
  BY <1>2 DEF NodeInv
<1>4. sets' = sets /\ \A u : Linked(u) => Linked(u)'
  BY DEF graph, Linked
<1> QED
  BY <1>3, <1>4 DEF NamesItsNode

(* The worker's object: the API server's, if the write succeeds. *)
LEMMA WrittenNames ==
  ASSUME TypeInv, NodeInv, [Next]_vars, UNCHANGED graph, w.step # "idle", NEW o, NEW next,
         Write(o, next), objects[w.cr] = w.mg => NamesItsNode(w.cr, o)
  PROVE  /\ \A c \in CRs : NamesItsNode(c, objects[c])'
         /\ w' = Idle \/ (w' = next /\ objects' = [objects EXCEPT ![w.cr] = o])
<1>1. w.cr \in CRs
  BY DEF TypeInv, WorkerOK
<1>2. CASE UNCHANGED objects /\ w' = Idle
  BY <1>2, NamesKept DEF NodeInv
<1>3. CASE /\ objects[w.cr] = w.mg
           /\ objects' = [objects EXCEPT ![w.cr] = o]
           /\ w' \in {next, Idle}
  BY <1>1, <1>3, NamesWritten
<1>4. \/ UNCHANGED objects /\ w' = Idle
      \/ /\ objects[w.cr] = w.mg
         /\ objects' = [objects EXCEPT ![w.cr] = o]
         /\ w' \in {next, Idle}
  BY DEF Write
<1> QED
  BY <1>2, <1>3, <1>4

LEMMA IdleNode ==
  ASSUME \A c \in CRs : NamesItsNode(c, objects[c])', w' = Idle
  PROVE  NodeInv'
BY IdleType DEF NodeInv, Busy, Creating

LEMMA NextNode == TypeInv /\ NodeInv /\ [Next]_vars => NodeInv'
<1> SUFFICES ASSUME TypeInv, NodeInv, [Next]_vars PROVE NodeInv'
  OBVIOUS
<1>t. objects \in [CRs -> Object] /\ w \in Worker /\ w.mg \in Object
  BY CopyType DEF TypeInv, TypeOK
<1>s. w.step # "idle" => w.cr \in CRs
  BY DEF TypeInv, WorkerOK
<1>k. UNCHANGED objects => \A c \in CRs : NamesItsNode(c, objects[c])'
  BY NamesKept DEF NodeInv
<1>1. ASSUME NEW c \in CRs, Observe(c) PROVE NodeInv'
  <2>1. /\ UNCHANGED objects /\ UNCHANGED graph
        /\ w'.step = "decide" /\ w'.mg = objects[c] /\ w'.obs = Observation(objects[c])
    BY <1>1 DEF Observe, Idle
  <2>2. ASSUME w'.obs = "absent", w'.mg.ext # 0
        PROVE  w'.mg.ext \in DOMAIN sets' /\ ~sets'[w'.mg.ext].live
    <3>1. Rows(objects[c].ext) = {}
      BY <2>1, <2>2 DEF Observation
    <3>2. ~Linked(objects[c].ext)
      BY <3>1, RowsLinked
    <3> QED
      BY <2>1, <2>2, <3>2 DEF graph, NodeInv, NamesItsNode
  <2> QED
    BY <1>k, <2>1, <2>2 DEF NodeInv, Busy, Creating
<1>2. ASSUME NEW c \in CRs, ApplyResource(c) \/ EditSpec(c) \/ DeleteResource(c) PROVE NodeInv'
  <2>1. w' = w /\ UNCHANGED graph
    BY <1>2 DEF ApplyResource, EditSpec, DeleteResource
  <2>2. PICK o : /\ objects' = [objects EXCEPT ![c] = o]
                 /\ o.ext = objects[c].ext /\ o.finalizer = objects[c].finalizer
                 /\ \/ objects[c].phase = "absent"
                    \/ o.phase = objects[c].phase
                    \/ objects[c].phase = "present" /\ objects[c].finalizer /\ o.phase = "deleting"
                    \/ objects[c].phase = "present" /\ ~objects[c].finalizer
    <3>0. objects[c] \in Object
      BY <1>t
    <3>1. CASE ApplyResource(c)
      <4>1. PICK b \in AccountRoleBinding :
              objects' = [objects EXCEPT ![c].phase = "present", ![c].bindTo = b]
        BY <3>1 DEF ApplyResource
      <4>2. objects' = [objects EXCEPT ![c] = [objects[c] EXCEPT !.phase = "present", !.bindTo = b]]
        BY <1>t, <4>1
      <4> QED BY <3>0, <3>1, <4>2 DEF ApplyResource, Object
    <3>2. CASE EditSpec(c)
      <4>1. PICK b \in AccountRoleBinding : objects' = [objects EXCEPT ![c].bindTo = b]
        BY <3>2 DEF EditSpec
      <4> DEFINE o == [objects[c] EXCEPT !.bindTo = b]
      <4>2. objects' = [objects EXCEPT ![c] = o]
        BY <4>1
      <4>3. o.ext = objects[c].ext /\ o.finalizer = objects[c].finalizer /\ o.phase = objects[c].phase
        BY <3>0 DEF Object
      <4> HIDE DEF o
      <4> QED BY <4>2, <4>3
    <3>3. CASE DeleteResource(c)
      <4> DEFINE p == IF objects[c].finalizer THEN "deleting" ELSE "gone"
      <4>1. objects' = [objects EXCEPT ![c] = [objects[c] EXCEPT !.phase = p]]
        BY <3>3 DEF DeleteResource
      <4> QED BY <3>0, <3>3, <4>1 DEF DeleteResource, Object
    <3> QED BY <1>2, <3>1, <3>2, <3>3
  <2>3. NamesItsNode(c, objects[c])
    BY DEF NodeInv
  <2>4. NamesItsNode(c, o)
    BY <2>2, <2>3 DEF NamesItsNode
  <2>5. \A d \in CRs : NamesItsNode(d, objects[d])'
    BY <2>1, <2>2, <2>4, NamesWritten
  <2>6. w.step \in Busy => objects'[w.cr].finalizer /\ objects'[w.cr].phase \in {"present", "deleting"}
    <3> SUFFICES ASSUME w.step \in Busy
                 PROVE  objects'[w.cr].finalizer /\ objects'[w.cr].phase \in {"present", "deleting"}
      OBVIOUS
    <3>1. objects[w.cr].finalizer /\ objects[w.cr].phase \in {"present", "deleting"} /\ w.cr \in CRs
      BY <1>s DEF NodeInv, Busy, Creating
    <3> QED BY <1>t, <2>2, <3>1
  <2> QED
    BY <2>1, <2>5, <2>6 DEF NodeInv, graph, AccountsWith, Linked
<1>3. CASE RemoveFinalizer
  <2> DEFINE o == [w.mg EXCEPT !.phase = "gone", !.finalizer = FALSE]
  <2>1. w.step = "decide" /\ w.obs = "absent" /\ Write(o, Idle) /\ UNCHANGED graph
    BY <1>3 DEF RemoveFinalizer
  <2>2. o.ext = w.mg.ext /\ o.phase = "gone"
    BY <1>t DEF Object
  <2>3. objects[w.cr] = w.mg => NamesItsNode(w.cr, o)
    BY <1>s, <2>1, <2>2 DEF NodeInv, NamesItsNode
  <2> HIDE DEF o
  <2> QED BY <2>1, <2>3, WrittenNames, IdleNode
<1>4. CASE AddFinalizer
  <2> DEFINE o == [w.mg EXCEPT !.finalizer = TRUE]
             next == [w EXCEPT !.mg = o]
  <2>1. w.step = "decide" /\ w.mg.phase = "present" /\ Write(o, next) /\ UNCHANGED graph
    BY <1>4 DEF AddFinalizer
  <2>2. o.ext = w.mg.ext /\ o.phase = w.mg.phase /\ o.finalizer
        /\ next.step = w.step /\ next.mg = o /\ next.obs = w.obs
    BY <1>t DEF Object, Worker
  <2>3. objects[w.cr] = w.mg => NamesItsNode(w.cr, o)
    BY <1>s, <2>1, <2>2 DEF NodeInv, NamesItsNode
  <2> HIDE DEF o, next
  <2>4. /\ \A c \in CRs : NamesItsNode(c, objects[c])'
        /\ w' = Idle \/ w' = next
    BY <2>1, <2>3, WrittenNames
  <2>5. CASE w' = next
    BY <2>1, <2>2, <2>4, <2>5 DEF NodeInv, Busy, Creating, graph
  <2> QED BY <2>4, <2>5, IdleNode
<1>5. CASE WritePending
  <2> DEFINE o == [w.mg EXCEPT !.incomplete = TRUE]
             next == [w EXCEPT !.mg = o, !.step = "mergeAccount"]
  <2>1. w.step = "decide" /\ w.mg.phase = "present" /\ w.mg.finalizer /\ Write(o, next)
        /\ UNCHANGED graph
    BY <1>5 DEF WritePending
  <2>2. o.ext = w.mg.ext /\ o.phase = w.mg.phase /\ o.finalizer = w.mg.finalizer
        /\ next.step = "mergeAccount" /\ next.cr = w.cr
    BY <1>t DEF Object, Worker
  <2>3. objects[w.cr] = w.mg => NamesItsNode(w.cr, o)
    BY <1>s, <2>1, <2>2 DEF NodeInv, NamesItsNode
  <2> HIDE DEF o, next
  <2>4. /\ \A c \in CRs : NamesItsNode(c, objects[c])'
        /\ w' = Idle \/ (w' = next /\ objects' = [objects EXCEPT ![w.cr] = o])
    BY <2>1, <2>3, WrittenNames
  <2>5. CASE w' = next /\ objects' = [objects EXCEPT ![w.cr] = o]
    <3>1. objects'[w'.cr] = o /\ w'.step = "mergeAccount"
      BY <1>t, <1>s, <2>1, <2>2, <2>5
    <3> QED BY <2>1, <2>2, <2>4, <3>1 DEF NodeInv, Busy, Creating
  <2> QED BY <2>4, <2>5, IdleNode
<1>6. CASE MergeAccount \/ MergeRole
  <2>1. UNCHANGED objects /\ w.step \in Creating
        /\ w'.step \in {"mergeRole", "createNode", "recordFailed"} /\ w'.cr = w.cr /\ w'.mg = w.mg
    BY <1>t, <1>6 DEF MergeAccount, MergeRole, Committed, Worker, Creating
  <2>2. AccountsWith(w.mg.bindTo.account)' # {}
    <3>1. CASE MergeAccount
      <4> DEFINE account == [id |-> w.mg.bindTo.account, alias |-> w.mg.bindTo.alias]
      <4>1. account \in Account /\ account.id = w.mg.bindTo.account
        BY CopyType DEF Account, AccountRoleBinding
      <4>2. \/ UNCHANGED accounts /\ \E a \in DOMAIN accounts : accounts[a] = account
            \/ accounts' = Append(accounts, account)
        BY <3>1 DEF MergeAccount
      <4> HIDE DEF account
      <4>3. \E a \in DOMAIN accounts' : accounts'[a] = account
        BY <4>1, <4>2, Appended DEF TypeInv, TypeOK
      <4> QED BY <2>1, <4>1, <4>3 DEF AccountsWith
    <3>2. CASE MergeRole
      BY <2>1, <3>2 DEF MergeRole, NodeInv, AccountsWith
    <3> QED BY <1>6, <3>1, <3>2
  <2> QED
    BY <1>k, <2>1, <2>2 DEF NodeInv, Busy, Creating
<1>7. CASE CreateNode
  <2> DEFINE node == [live |-> TRUE, owner |-> w.cr, bindTo |-> w.mg.bindTo]
  <2>1. UNCHANGED <<objects, accounts>> /\ w.step = "createNode" /\ sets' = Append(sets, node)
    BY <1>7 DEF CreateNode
  <2>2. w'.step \in {"link", "recordFailed"} /\ w'.cr = w.cr /\ w'.mg = w.mg /\ w'.made = Len(sets')
    BY <1>t, <1>7 DEF CreateNode, Committed, Worker
  <2>3. node \in PermissionSet /\ node.live /\ node.owner = w.cr
    BY <1>7, <1>s, CopyType DEF CreateNode, PermissionSet
  <2>4. sets'[w'.made] = node
    <3> HIDE DEF node
    <3> QED BY <2>1, <2>2, <2>3, Appended DEF TypeInv, TypeOK
  <2>5. AccountsWith(w.mg.bindTo.account)' # {}
    BY <2>1, <2>2 DEF NodeInv, AccountsWith
  <2> QED
    BY <1>k, <2>1, <2>2, <2>3, <2>4, <2>5 DEF NodeInv, Busy, Creating
<1>8. CASE Link
  <2> DEFINE b       == w.mg.bindTo
             matched == IF b.role \in roles THEN AccountsWith(b.account) ELSE {}
  <2>1. /\ w.step = "link"
        /\ to' = to \cup ({w.made} \X matched)
        /\ with' = with \cup {p \in {<<w.made, b.role>>} : matched # {}}
        /\ UNCHANGED <<objects, accounts, sets>>
    BY <1>8 DEF Link
  <2>2. w'.step \in {"recordSucceeded", "recordFailed"} /\ w'.cr = w.cr /\ w'.made = w.made
    BY <1>t, <1>8 DEF Link, Committed, Worker
  <2>3. b.role \in roles /\ b.role \in RoleNames
    BY <2>1 DEF TypeInv, TypeOK, WorkerOK, Creating
  <2>4. PICK a \in DOMAIN accounts : a \in matched
    BY <2>1, <2>3 DEF NodeInv, AccountsWith
  <2>5. <<w.made, a>> \in to' /\ <<w.made, b.role>> \in with'
    BY <2>1, <2>4
  <2>6. Linked(w.made)'
    BY <2>1, <2>2, <2>3, <2>5 DEF Linked
  <2> QED
    BY <1>k, <2>1, <2>2, <2>6 DEF NodeInv, Busy, Creating
<1>9. CASE FailCreate
  <2>1. UNCHANGED objects /\ w.step \in Creating /\ w' = [w EXCEPT !.step = "recordFailed"]
    BY <1>9 DEF FailCreate, Goto
  <2>2. w'.step = "recordFailed" /\ w'.cr = w.cr
    BY <1>t, <2>1 DEF Worker
  <2> QED
    BY <1>k, <2>1, <2>2 DEF NodeInv, Busy, Creating
<1>10. CASE RecordFailed \/ RecordSucceeded
  <2>1. w' = Idle /\ UNCHANGED graph /\ w.step \in Busy /\ w.cr \in CRs
    BY <1>10, <1>s DEF RecordFailed, RecordSucceeded, RecordOutcome, Busy
  <2>2. PICK o : /\ \/ RecordFailed /\ o = [objects[w.cr] EXCEPT !.incomplete = FALSE]
                    \/ RecordSucceeded /\ o = [objects[w.cr] EXCEPT !.incomplete = FALSE, !.ext = w.made]
                 /\ UNCHANGED objects \/ objects' = [objects EXCEPT ![w.cr] = o]
    BY <1>10 DEF RecordFailed, RecordSucceeded, RecordOutcome
  <2>3. /\ o.phase = objects[w.cr].phase /\ o.finalizer = objects[w.cr].finalizer
        /\ \/ RecordFailed /\ o.ext = objects[w.cr].ext
           \/ RecordSucceeded /\ o.ext = w.made
    BY <1>t, <2>1, <2>2 DEF Object
  <2>4. objects[w.cr].finalizer /\ objects[w.cr].phase \in {"present", "deleting"}
        /\ NamesItsNode(w.cr, objects[w.cr])
    BY <2>1 DEF NodeInv
  <2>5. RecordSucceeded => w.made \in DOMAIN sets /\ sets[w.made].owner = w.cr /\ Linked(w.made)
    BY DEF RecordSucceeded, NodeInv, TypeInv, WorkerOK
  <2>6. NamesItsNode(w.cr, o)
    BY <2>3, <2>4, <2>5 DEF NamesItsNode
  <2>7. \A c \in CRs : NamesItsNode(c, objects[c])'
    BY <1>k, <2>1, <2>2, <2>6, NamesWritten
  <2> QED
    BY <2>1, <2>7, IdleNode
<1>11. CASE UpToDate \/ UpdatePermissionSet \/ DeletePermissionSet \/ CrashRestart
  <2>1. w' = Idle /\ UNCHANGED objects
    BY <1>11 DEF UpToDate, UpdatePermissionSet, DeletePermissionSet, CrashRestart
  <2> QED BY <1>k, <2>1, IdleNode
<1>12. CASE UNCHANGED vars
  BY <1>k, <1>12 DEF vars, graph, NodeInv, AccountsWith, Linked
<1> QED
  BY <1>1, <1>2, <1>3, <1>4, <1>5, <1>6, <1>7, <1>8, <1>9, <1>10, <1>11, <1>12
     DEF Next, WorkerStep

(* A node a resource names is its own, and as long as the node lives it is    *)
(* linked and the resource is there: no deletion forgets it, however it is     *)
(* interleaved with edits, failed transactions and crashes.                   *)
THEOREM NamedNodesLinked == Spec => []NamedNodeLinked
<1>1. Init => TypeInv /\ NodeInv BY InitType, InitNode
<1>2. TypeInv /\ NodeInv /\ [Next]_vars => TypeInv' /\ NodeInv' BY NextType, NextNode
<1>3. NodeInv => NamedNodeLinked BY NamedIsLinked
<1> QED BY <1>1, <1>2, <1>3, PTL DEF Spec

=============================================================================
