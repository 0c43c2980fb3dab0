--------------------------- MODULE LifecycleProofs ---------------------------
(***************************************************************************)
(* The refinement of ExternalLifecycle by ManagedReconciler, and the two      *)
(* invariants about external names, for every value of the constants.  The    *)
(* inductive invariant says when an old copy of an object, in the cache or    *)
(* with the worker, still tells the truth: it may be behind the object only   *)
(* in ways that no longer matter, because a node that grants nothing never    *)
(* grants anything again.                                                    *)
(***************************************************************************)
EXTENDS ManagedReconcilerProofs

-----------------------------------------------------------------------------
(* What a node grants, as an operator of the relationships and the targets. *)

GrantsOf(E, u, T) ==
  IF Kind = "User" THEN GetUserRefs(E, u, T) ELSE GetPersonaRefs(E, u, T)

(* The relationships that a controller reads are of the one type it writes. *)
OfKind(E) == \A e \in E : e.type = IF Kind = "User" THEN "GRANTED" ELSE "ATTACHED_TO"

LEMMA GrantsRead ==
  /\ Grants = [u \in Uuids |-> GrantsOf(edges, u, targets)]
  /\ Grants' = [u \in Uuids |-> GrantsOf(edges', u, targets')]
BY DEF Grants, GrantsOf, RefsOf, GetUser, GetPersona

(* A node grants what a relationship of it leads to. *)
LEMMA Granted ==
  ASSUME NEW E, NEW u, NEW T, NEW t
  PROVE  t \in GrantsOf(E, u, T) <=>
           /\ t \in T
           /\ IF Kind = "User" THEN \E e \in E : e.from = u /\ e.to = t
                               ELSE \E e \in E : e.to = u /\ e.from = t
BY DEF GrantsOf, GetUserRefs, GetPersonaRefs

LEMMA GrantsAdded ==
  ASSUME NEW u, NEW refs, NEW v, NEW t, TypeOK
  PROVE  t \in GrantsOf(RelationsAdded(u, refs), v, targets) <=>
           t \in GrantsOf(edges, v, targets) \/ (v = u /\ t \in refs \cap targets)
<1> DEFINE X == [from: {u}, type: {"GRANTED"}, to: refs \cap targets]
           Y == [from: refs \cap targets, type: {"ATTACHED_TO"}, to: {u}]
<1>1. /\ \A e \in X : e.from = u /\ e.to \in refs \cap targets
      /\ \A e \in Y : e.to = u /\ e.from \in refs \cap targets
      /\ \A s \in refs \cap targets : /\ \E e \in X : e.from = u /\ e.to = s
                                      /\ \E e \in Y : e.to = u /\ e.from = s
  <2>1. ASSUME NEW s \in refs \cap targets
        PROVE  /\ [from |-> u, type |-> "GRANTED", to |-> s] \in X
               /\ [from |-> s, type |-> "ATTACHED_TO", to |-> u] \in Y
    OBVIOUS
  <2> QED
    BY <2>1
<1>2. RelationsAdded(u, refs) = IF Kind = "User" THEN edges \cup X ELSE edges \cup Y
  BY DEF RelationsAdded, AddUserPersonaRelation, AddPersonaPermissionSetRelation
<1> DEFINE R == RelationsAdded(u, refs)
<1> HIDE DEF X, Y, R
<1>3. CASE Kind = "User"
  <2>1. R = edges \cup X
    BY <1>2, <1>3 DEF R
  <2> QED
    BY <1>1, <1>3, <2>1, Granted DEF R
<1>4. CASE Kind # "User"
  <2>1. R = edges \cup Y
    BY <1>2, <1>4 DEF R
  <2> QED
    BY <1>1, <1>4, <2>1, Granted DEF R
<1> QED
  BY <1>3, <1>4

(* What is left of the grants when a node of either end is deleted. *)
LEMMA GrantsDetached ==
  ASSUME NEW u \in Uuids, NEW v \in Uuids, NEW t, TypeOK
  PROVE  t \in GrantsOf(DetachDelete(edges, u), v, targets) <=>
           t \in GrantsOf(edges, v, targets) /\ v # u
<1>1. \A e : e \in DetachDelete(edges, u) <=> e \in edges /\ e.from # u /\ e.to # u
  BY DEF DetachDelete
<1>2. u \notin targets
  BY NamesAssumption DEF TypeOK
<1> QED
  BY <1>1, <1>2, Granted

LEMMA GrantsLost ==
  ASSUME NEW x \in Targets, NEW v \in Uuids, NEW t
  PROVE  t \in GrantsOf(DetachDelete(edges, x), v, targets \ {x}) <=>
           t \in GrantsOf(edges, v, targets) /\ t # x
<1>1. \A e : e \in DetachDelete(edges, x) <=> e \in edges /\ e.from # x /\ e.to # x
  BY DEF DetachDelete
<1>2. v # x
  BY NamesAssumption
<1> QED
  BY <1>1, <1>2, Granted

NamedAfter(u, c) == attempt[u].owner \in {d \in CRs : NodeName[d] = c}

(* An update finds, among the nodes with the name of the resource, those that *)
(* grant something, and gives them all the references of the spec.            *)
LEMMA GrantsUpdated ==
  ASSUME NEW c, NEW refs, OfKind(edges), TypeOK
  PROVE  /\ Kind = "User" => RelationsUpdated(c, refs) = edges
         /\ \E N \in SUBSET Uuids :
              /\ \A n \in N : NamedAfter(n, c) /\ \E t : t \in GrantsOf(edges, n, targets)
              /\ \A v \in Uuids : \A t :
                   t \in GrantsOf(RelationsUpdated(c, refs), v, targets) <=>
                     IF v \in N THEN t \in refs \cap targets
                                ELSE t \in GrantsOf(edges, v, targets)
<1> DEFINE named == {u \in Uuids : NamedAfter(u, c)}
           R == RelationsUpdated(c, refs)
<1>1. CASE Kind = "User"
  <2>1. R = edges
    BY <1>1 DEF RelationsUpdated, UpdateUser, OfKind
  <2>2. {} \in SUBSET Uuids /\ \A v : v \notin {}
    OBVIOUS
  <2> HIDE DEF R
  <2> QED
    BY <2>1, <2>2 DEF R
<1>2. CASE Kind # "User"
  <2> DEFINE old == {e \in edges : e.to \in named /\ e.type = "ATTACHED_TO" /\ e.from \in targets}
             N == {e.to : e \in old}
             new == [from: refs \cap targets, type: {"ATTACHED_TO"}, to: N]
  <2>1. R = (edges \ old) \cup new
    BY <1>2 DEF RelationsUpdated, UpdatePersona, NamedAfter
  <2>2. /\ \A e : e \in old <=> e \in edges /\ e.to \in named /\ e.type = "ATTACHED_TO" /\ e.from \in targets
        /\ \A n : n \in N <=> \E e \in old : e.to = n
        /\ N \in SUBSET Uuids
    OBVIOUS
  <2>3. /\ \A e \in new : e.from \in refs \cap targets /\ e.to \in N
        /\ \A s \in refs \cap targets, n \in N : \E e \in new : e.from = s /\ e.to = n
    <3>1. ASSUME NEW s \in refs \cap targets, NEW n \in N
          PROVE  \E e \in new : e.from = s /\ e.to = n
      <4> HIDE DEF N
      <4> WITNESS [from |-> s, type |-> "ATTACHED_TO", to |-> n] \in new
      <4> QED
        OBVIOUS
    <3>2. \A e \in new : e.from \in refs \cap targets /\ e.to \in N
      OBVIOUS
    <3> HIDE DEF new, N
    <3> QED
      BY <3>1, <3>2
  <2>4. N \subseteq named
    BY <2>2
  <2>5. /\ \A e \in edges : e.type = "ATTACHED_TO"
        /\ \A n \in N : NamedAfter(n, c)
    BY <1>2, <2>4 DEF OfKind
  <2> HIDE DEF old, N, new, named, R
  <2>6. ASSUME NEW n \in N
        PROVE  \E t : t \in GrantsOf(edges, n, targets)
    <3>1. PICK e \in old : e.to = n
      BY <2>2
    <3>2. e \in edges /\ e.from \in targets
      BY <2>2
    <3> QED
      BY <1>2, <3>1, <3>2, Granted
  <2>7. ASSUME NEW v \in N, NEW t
        PROVE  t \in GrantsOf(R, v, targets) <=> t \in refs \cap targets
    <3>1. \A e \in edges : e.to = v /\ e.from \in targets => e \in old
      BY <2>2, <2>4, <2>5
    <3> QED
      BY <1>2, <2>1, <2>3, <3>1, Granted
  <2>8. ASSUME NEW v \in Uuids \ N, NEW t
        PROVE  t \in GrantsOf(R, v, targets) <=> t \in GrantsOf(edges, v, targets)
    <3>1. \A e : e.to = v => (e \in R <=> e \in edges)
      BY <2>1, <2>2, <2>3
    <3> QED
      BY <1>2, <3>1, Granted
  <2> QED
    BY <1>2, <2>2, <2>5, <2>6, <2>7, <2>8 DEF R
<1> QED
  BY <1>1, <1>2
-----------------------------------------------------------------------------
(* The inductive invariant. *)

(* The node that an object, or an old copy of one, names grants nothing. *)
Revoked(o, grants) == o.ext \in Uuids => grants[o.ext] = {}

(* An old copy o of the object a names the same node or one that grants nothing. *)
Behind(o, a, grants) ==
  /\ o.ext = a.ext \/ Revoked(o, grants)
  /\ o.deleting => a.deleting

(* The node that an object, or an old copy of one, names was recorded. *)
Recorded(o, history) == o.ext \in Uuids => history[o.ext].fate = "recorded"

(* A node has a fate once it is there; only a recorded one is ever deleted, and *)
(* it is the one its resource names or grants nothing.                          *)
NodesTracked ==
  /\ OfKind(edges)
  /\ \A u \in Uuids :
       /\ nodes[u] = "unused" => attempt[u].fate = "none" /\ Grants[u] = {}
       /\ nodes[u] = "deleted" => attempt[u].fate = "recorded" /\ Grants[u] = {}
       /\ attempt[u].fate = "recorded" =>
            attempt[u].owner \in CRs /\ (api[attempt[u].owner].ext = u \/ Grants[u] = {})

(* A resource that names a node has a finalizer, and goes after what it grants. *)
ObjectsSound ==
  \A c \in CRs :
    /\ api[c].phase = "absent" => api[c] = Blank
    /\ api[c].phase = "present" /\ api[c].ext \in Uuids => api[c].finalizer
    /\ api[c].phase = "gone" /\ c \notin OrphanPolicy => Revoked(api[c], Grants)

CacheBehind ==
  \A c \in CRs : Behind(cache[c], api[c], Grants) /\ Recorded(cache[c], attempt)

CopyBehind ==
  w.pc \notin {"idle", "recordSucceeded"} =>
    Behind(w.mg, api[w.cr], Grants) /\ Recorded(w.mg, attempt)

(* On which branch of Reconcile the worker is. *)
PathSound ==
  /\ w.pc = "orphan" => w.cr \in OrphanPolicy /\ w.mg.deleting
  /\ w.pc \notin {"idle", "orphan"} /\ w.mg.deleting => w.cr \notin OrphanPolicy
  /\ w.pc \in {"delete", "finalize"} => w.mg.deleting
  /\ w.pc \in {"finalize", "pending"} => w.obs = "absent"
  /\ w.pc = "delete" => w.obs # "absent"

(* What an observation still says of the present when it is acted on. *)
ObservationHolds ==
  w.pc \in {"decide", "delete", "finalize", "addFinalizer", "pending", "update"} =>
    IF w.obs = "absent" THEN Revoked(w.mg, Grants)
    ELSE /\ w.mg.ext \in Uuids /\ w.mg.ext = api[w.cr].ext
         /\ w.cr \notin OrphanPolicy => api[w.cr].phase = "present"

(* A node is made for a resource that names none that grants anything; its name *)
(* and its fate go to the API server together.                                  *)
CreationSound ==
  /\ w.pc \in CreateSection => Revoked(api[w.cr], Grants)
  /\ w.pc \in CreateSection \ {"recordSucceeded"} => w.mg.ext = api[w.cr].ext
  /\ w.pc \notin {"createEdges", "recordFailed", "recordSucceeded"} => w.made = NoExt
  /\ w.made # NoExt =>
       /\ attempt[w.made].owner = w.cr /\ attempt[w.made].fate = "inflight"
       /\ nodes[w.made] = "live"
  /\ w.pc = "createEdges" => Grants[w.made] = {}
  /\ w.pc = "recordSucceeded" => w.mg.ext = w.made

StoresSound == NodesTracked /\ ExternalNameOwned /\ ObjectsSound /\ CacheBehind
WorkerSound == CopyBehind /\ PathSound /\ ObservationHolds /\ CreationSound

LifecycleInv == StoresSound /\ WorkerSound

-----------------------------------------------------------------------------
LEMMA GrantsKept ==
  ASSUME UNCHANGED <<edges, targets>>
  PROVE  Grants' = Grants
BY GrantsRead

LEMMA GrantsOK ==
  ASSUME TypeInv
  PROVE  /\ Grants \in [Uuids -> SUBSET Targets]
         /\ \A x : RefsOf(x) = IF x \in Uuids THEN Grants[x] ELSE {}
<1>1. Grants \in [Uuids -> SUBSET Targets]
  <2>1. \A u \in Uuids : GrantsOf(edges, u, targets) \subseteq Targets
    BY Granted DEF TypeInv, TypeOK
  <2> QED
    BY <2>1, GrantsRead
<1>2. \A x : RefsOf(x) = IF x \in Uuids THEN Grants[x] ELSE {}
  BY DEF Grants, RefsOf, GetUser, GetPersona
<1> QED
  BY <1>1, <1>2

LEMMA InitLifecycle == Init => LifecycleInv
<1> SUFFICES ASSUME Init
             PROVE  LifecycleInv
  OBVIOUS
<1>1. \A u \in Uuids : Grants[u] = {}
  BY DEF Init, Grants, RefsOf, GetUser, GetPersona, GetUserRefs, GetPersonaRefs
<1>2. /\ OfKind(edges) /\ w.pc = "idle" /\ w.made = NoExt
      /\ \A c \in CRs : api[c] = Blank /\ cache[c] = Blank
      /\ \A u \in Uuids : nodes[u] = "unused" /\ attempt[u].fate = "none"
  BY DEF Init, OfKind, Idle
<1>3. Blank.phase = "absent" /\ Blank.ext = NoExt /\ NoExt \notin Uuids /\ ~Blank.deleting
  BY NamesAssumption DEF Blank
<1> QED
  BY <1>1, <1>2, <1>3
     DEF LifecycleInv, StoresSound, WorkerSound, NodesTracked, ExternalNameOwned, ObjectsSound,
         CacheBehind, CopyBehind, Behind, Revoked, Recorded, PathSound, ObservationHolds,
         CreationSound, CreateSection

(* A step that leaves the objects and the graph alone. *)
LEMMA QuietStores ==
  ASSUME StoresSound, UNCHANGED <<api, cache, nodes, edges, targets, attempt>>
  PROVE  StoresSound' /\ Grants' = Grants
BY GrantsKept
   DEF StoresSound, NodesTracked, ExternalNameOwned, ObjectsSound, CacheBehind, OfKind

(* A step of the graph in which no node that grants nothing gains anything. *)
LEMMA GraphStores ==
  ASSUME StoresSound, OfKind(edges)', UNCHANGED <<api, cache, attempt>>,
         \A u \in Uuids : Grants[u] = {} => Grants'[u] = {},
         \A u \in Uuids : \/ nodes'[u] = nodes[u]
                          \/ nodes'[u] = "deleted" /\ attempt[u].fate = "recorded" /\ Grants'[u] = {}
  PROVE  StoresSound' /\ \A c \in CRs : \A m : Behind(m, api[c], Grants) => Behind(m, api'[c], Grants')
<1>1. \A c \in CRs : \A m : Behind(m, api[c], Grants) => Behind(m, api'[c], Grants')
  BY DEF Behind, Revoked
<1>2. NodesTracked' /\ ExternalNameOwned'
  BY DEF StoresSound, NodesTracked, ExternalNameOwned
<1>3. ObjectsSound' /\ CacheBehind'
  BY <1>1 DEF StoresSound, ObjectsSound, CacheBehind, Revoked, Recorded
<1> QED
  BY <1>1, <1>2, <1>3 DEF StoresSound

(* A write of the object of c that leaves its name alone. *)
LEMMA WriteStores ==
  ASSUME TypeInv, StoresSound,
         NEW c \in CRs, NEW o, api' = [api EXCEPT ![c] = o],
         o.ext = api[c].ext \/ (o.ext \notin Uuids /\ api[c].ext \notin Uuids),
         api[c].deleting => o.deleting,
         \/ o.phase = "present" /\ (o.ext \in Uuids => o.finalizer)
         \/ o.phase = "gone" /\ (c \notin OrphanPolicy => Revoked(api[c], Grants)),
         UNCHANGED <<cache, nodes, edges, targets, attempt>>
  PROVE  /\ StoresSound' /\ Grants' = Grants
         /\ \A d \in CRs : \A m : Behind(m, api[d], Grants) => Behind(m, api'[d], Grants')
         /\ api'[c] = o /\ \A d \in CRs \ {c} : api'[d] = api[d]
<1>1. api'[c] = o /\ \A d \in CRs \ {c} : api'[d] = api[d]
  BY DEF TypeInv, TypeOK
<1>2. Grants' = Grants
  BY GrantsKept
<1>3. NodesTracked'
  BY <1>1, <1>2 DEF StoresSound, NodesTracked, OfKind
<1>4. ExternalNameOwned'
  BY <1>1 DEF StoresSound, ExternalNameOwned
<1>5. ObjectsSound'
  BY <1>1, <1>2 DEF StoresSound, ObjectsSound, Revoked
<1>6. \A d \in CRs : \A m : Behind(m, api[d], Grants) => Behind(m, api'[d], Grants')
  BY <1>1, <1>2 DEF Behind, Revoked
<1>7. CacheBehind'
  BY <1>6 DEF StoresSound, CacheBehind
<1> QED
  BY <1>1, <1>2, <1>3, <1>4, <1>5, <1>6, <1>7 DEF StoresSound

(* The reconcile ends. *)
LEMMA EndSound ==
  ASSUME w' = Idle
  PROVE  WorkerSound'
BY DEF Idle, WorkerSound, CopyBehind, PathSound, ObservationHolds, CreationSound, CreateSection

(* The worker is not concerned by what others do. *)
LEMMA BystanderSound ==
  ASSUME TypeInv, WorkerSound,
         w'.pc = w.pc, w'.cr = w.cr, w'.mg = w.mg, w'.obs = w.obs, w'.made = w.made,
         UNCHANGED <<nodes, attempt>>,
         \A u \in Uuids : Grants[u] = {} => Grants'[u] = {},
         \A c \in CRs : /\ api'[c].ext = api[c].ext
                        /\ api[c].phase = "present" /\ api[c].ext \in Uuids => api'[c].phase = "present",
         \A c \in CRs : \A m : Behind(m, api[c], Grants) => Behind(m, api'[c], Grants')
  PROVE  WorkerSound'
<1>1. w.pc # "idle" => w.cr \in CRs
  BY DEF TypeInv, WorkerOK
<1>2. w.made \in Uuids \cup {NoExt}
  BY DEF TypeInv, TypeOK, Worker
<1>3. CopyBehind' /\ PathSound'
  BY <1>1 DEF WorkerSound, CopyBehind, PathSound
<1>4. ObservationHolds'
  BY <1>1 DEF WorkerSound, ObservationHolds, Revoked
<1>5. CreationSound'
  BY <1>1, <1>2 DEF WorkerSound, CreationSound, Revoked, CreateSection, TypeInv, WorkerOK
<1> QED
  BY <1>3, <1>4, <1>5 DEF WorkerSound

(* The worker goes on to another call that creates nothing. *)
LEMMA MoveSound ==
  ASSUME TypeInv, WorkerSound, w.pc \notin CreateSection \cup {"idle"},
         w'.cr = w.cr, w'.mg = w.mg, w'.made = w.made,
         w'.pc \notin CreateSection \cup {"idle"}, PathSound', ObservationHolds',
         UNCHANGED <<api, nodes, attempt>>, Grants' = Grants
  PROVE  WorkerSound'
BY DEF WorkerSound, CopyBehind, CreationSound, CreateSection

-----------------------------------------------------------------------------
(* What each transaction does to the grants. *)

LEMMA CreateEdgesGrants ==
  ASSUME TypeInv, OfKind(edges), CreateEdges
  PROVE  /\ OfKind(edges)'
         /\ \/ Grants' = [Grants EXCEPT ![w.made] = Grants[w.made] \cup (w.mg.refs \cap targets)]
            \/ Grants' = Grants
<1>1. w.made \in Uuids /\ targets' = targets /\ TypeOK
  BY DEF CreateEdges, TypeInv, WorkerOK
<1>2. CASE edges' = edges
  BY <1>1, <1>2, GrantsKept DEF OfKind
<1>3. CASE edges' = RelationsAdded(w.made, w.mg.refs)
  <2>1. OfKind(edges)'
    BY <1>3 DEF RelationsAdded, AddUserPersonaRelation, AddPersonaPermissionSetRelation, OfKind
  <2>2. ASSUME NEW v \in Uuids
        PROVE  GrantsOf(edges', v, targets')
                 = IF v = w.made THEN GrantsOf(edges, v, targets) \cup (w.mg.refs \cap targets)
                                 ELSE GrantsOf(edges, v, targets)
    <3>1. \A t : t \in GrantsOf(edges', v, targets') <=>
                  t \in GrantsOf(edges, v, targets) \/ (v = w.made /\ t \in w.mg.refs \cap targets)
      BY <1>1, <1>3, GrantsAdded
    <3> QED
      BY <3>1
  <2>3. Grants' = [Grants EXCEPT ![w.made] = Grants[w.made] \cup (w.mg.refs \cap targets)]
    BY <1>1, <2>2, GrantsRead
  <2> QED
    BY <2>1, <2>3
<1> QED
  BY <1>2, <1>3 DEF CreateEdges

LEMMA UpdateExternalGrants ==
  ASSUME TypeInv, OfKind(edges), UpdateExternal
  PROVE  /\ OfKind(edges)'
         /\ \E N \in SUBSET Uuids, refs \in SUBSET Targets :
              /\ refs = w.mg.refs \cap targets
              /\ \A n \in N : NamedAfter(n, w.cr) /\ Grants[n] # {}
              /\ Grants' = [u \in Uuids |-> IF u \in N THEN refs ELSE Grants[u]]
<1>1. targets' = targets /\ targets \in SUBSET Targets /\ TypeOK
  BY DEF UpdateExternal, TypeInv, TypeOK
<1>2. CASE edges' = edges
  <2>1. Grants' = Grants /\ Grants = [u \in Uuids |-> IF u \in {} THEN {} ELSE Grants[u]]
    BY <1>1, <1>2, GrantsKept, GrantsOK
  <2>2. {} \in SUBSET Uuids /\ w.mg.refs \cap targets \in SUBSET Targets
    BY <1>1
  <2>3. /\ \A n \in {} : NamedAfter(n, w.cr) /\ Grants[n] # {}
        /\ Grants' = [u \in Uuids |-> IF u \in {} THEN w.mg.refs \cap targets ELSE Grants[u]]
    BY <2>1
  <2> HIDE DEF Grants
  <2> QED
    BY <1>2, <2>2, <2>3
<1>3. CASE edges' = RelationsUpdated(w.cr, w.mg.refs)
  <2>1. OfKind(edges)'
    <3>1. CASE Kind = "User"
      BY <1>1, <1>3, <3>1, GrantsUpdated
    <3>2. CASE Kind # "User"
      BY <1>3, <3>2 DEF RelationsUpdated, UpdatePersona, OfKind
    <3> QED
      BY <3>1, <3>2
  <2>2. PICK N \in SUBSET Uuids :
          /\ \A n \in N : NamedAfter(n, w.cr) /\ \E t : t \in GrantsOf(edges, n, targets)
          /\ \A v \in Uuids : \A t :
               t \in GrantsOf(RelationsUpdated(w.cr, w.mg.refs), v, targets) <=>
                 IF v \in N THEN t \in w.mg.refs \cap targets
                            ELSE t \in GrantsOf(edges, v, targets)
    BY <1>1, GrantsUpdated
  <2>3. ASSUME NEW v \in Uuids
        PROVE  GrantsOf(edges', v, targets')
                 = IF v \in N THEN w.mg.refs \cap targets ELSE GrantsOf(edges, v, targets)
    BY <1>1, <1>3, <2>2
  <2>4. /\ Grants' = [u \in Uuids |-> IF u \in N THEN w.mg.refs \cap targets ELSE Grants[u]]
        /\ \A n \in N : NamedAfter(n, w.cr) /\ Grants[n] # {}
    BY <2>2, <2>3, GrantsRead
  <2>5. w.mg.refs \cap targets \in SUBSET Targets
    BY <1>1
  <2> QED
    BY <2>1, <2>4, <2>5
<1> QED
  BY <1>2, <1>3 DEF UpdateExternal

LEMMA DeleteGrants ==
  ASSUME TypeInv, OfKind(edges), w.mg.ext \in Uuids, Delete
  PROVE  /\ OfKind(edges)'
         /\ \/ Grants' = [Grants EXCEPT ![w.mg.ext] = {}]
               /\ nodes' = [nodes EXCEPT ![w.mg.ext] = "deleted"]
            \/ Grants' = Grants /\ nodes' = nodes
<1>1. targets' = targets /\ TypeOK
  BY DEF Delete, TypeInv
<1>2. CASE edges' = DetachDelete(edges, w.mg.ext) /\ nodes' = [nodes EXCEPT ![w.mg.ext] = "deleted"]
  <2>1. ASSUME NEW v \in Uuids
        PROVE  GrantsOf(edges', v, targets') = IF v = w.mg.ext THEN {} ELSE GrantsOf(edges, v, targets)
    BY <1>1, <1>2, GrantsDetached
  <2>2. Grants' = [Grants EXCEPT ![w.mg.ext] = {}]
    BY <2>1, GrantsRead
  <2>3. OfKind(edges)'
    BY <1>2 DEF OfKind, DetachDelete
  <2> QED
    BY <1>2, <2>2, <2>3
<1>3. CASE UNCHANGED <<nodes, edges>>
  BY <1>1, <1>3, GrantsKept DEF OfKind
<1> QED
  BY <1>2, <1>3 DEF Delete

LEMMA DeleteTargetGrants ==
  ASSUME OfKind(edges), NEW t \in Targets, DeleteTarget(t)
  PROVE  /\ OfKind(edges)'
         /\ Grants' = [u \in Uuids |-> Grants[u] \ {t}]
<1>1. targets' = targets \ {t} /\ edges' = DetachDelete(edges, t)
  BY DEF DeleteTarget
<1>2. ASSUME NEW u \in Uuids
      PROVE  GrantsOf(edges', u, targets') = GrantsOf(edges, u, targets) \ {t}
  BY <1>1, GrantsLost
<1>3. Grants' = [u \in Uuids |-> Grants[u] \ {t}]
  BY <1>2, GrantsRead
<1>4. OfKind(edges)'
  BY <1>1 DEF OfKind, DetachDelete
<1> QED
  BY <1>3, <1>4

(* The outcome of a creation is written: the name of the node only ever goes *)
(* there together with the record of its success.                            *)
LEMMA RecordStores ==
  ASSUME TypeInv, WriteAheadInv, LifecycleInv,
         NEW m, NEW settled \in {"recorded", "failed"}, m.ext = w.mg.ext,
         \/ w.pc = "recordSucceeded" /\ settled = "recorded"
         \/ w.pc = "recordFailed" /\ settled = "failed",
         UpdateCriticalAnnotations(m, settled), UNCHANGED <<cache, nodes, edges, targets>>
  PROVE  StoresSound' /\ WorkerSound'
<1>w. WorkerSound'
  BY EndSound DEF UpdateCriticalAnnotations
<1>c. w.cr \in CRs /\ w.made \in Uuids \cup {NoExt} /\ (w.pc = "recordSucceeded" => w.made \in Uuids)
      /\ api \in [CRs -> Object] /\ attempt \in [Uuids -> Attempt]
  BY DEF TypeInv, TypeOK, WorkerOK, Worker
<1>g. Grants' = Grants
  BY GrantsKept
<1>1. CASE UNCHANGED <<api, attempt>>
  BY <1>w, <1>1, QuietStores DEF LifecycleInv
<1>2. CASE /\ api' = [api EXCEPT ![w.cr] = AddAnnotations(api[w.cr], m)]
           /\ attempt' = [u \in Uuids |-> IF u = w.made THEN [attempt[u] EXCEPT !.fate = settled]
                                                        ELSE attempt[u]]
  <2> DEFINE a == api[w.cr]
             b == AddAnnotations(a, m)
  <2>1. a \in Object /\ b.ext = w.mg.ext /\ b.phase = a.phase /\ b.finalizer = a.finalizer
        /\ b.deleting = a.deleting
    BY <1>c DEF AddAnnotations, Object
  <2>2. api'[w.cr] = b /\ \A c \in CRs \ {w.cr} : api'[c] = api[c]
    BY <1>2, <1>c
  <2>3. \A u \in Uuids : /\ u # w.made => attempt'[u] = attempt[u]
                         /\ u = w.made => attempt'[u].fate = settled /\ attempt'[u].owner = attempt[u].owner
    BY <1>2, <1>c DEF Attempt
  <2>4. /\ a.phase = "present" /\ a.finalizer /\ Revoked(a, Grants)
        /\ w.pc = "recordFailed" => b.ext = a.ext
        /\ w.pc = "recordSucceeded" => b.ext = w.made
        /\ w.made # NoExt => /\ attempt[w.made].owner = w.cr /\ attempt[w.made].fate = "inflight"
                             /\ nodes[w.made] = "live"
    BY <2>1 DEF LifecycleInv, WorkerSound, CreationSound, CreateSection, WriteAheadInv,
                CreatedUnderDurableMark
  <2> HIDE DEF a, b
  <2>5. NodesTracked'
    <3>1. ASSUME NEW u \in Uuids, attempt'[u].fate = "recorded"
          PROVE  attempt'[u].owner \in CRs /\ (api'[attempt'[u].owner].ext = u \/ Grants[u] = {})
      <4>1. CASE u = w.made
        BY <1>c, <2>2, <2>3, <2>4, <3>1, <4>1, NamesAssumption
      <4>2. CASE u # w.made
        <5>1. attempt[u].fate = "recorded" /\ attempt[u].owner \in CRs /\ attempt'[u] = attempt[u]
              /\ (api[attempt[u].owner].ext = u \/ Grants[u] = {})
          BY <2>3, <3>1, <4>2 DEF LifecycleInv, StoresSound, NodesTracked
        <5>2. api[w.cr].ext = u => Grants[u] = {}
          BY <2>4 DEF Revoked, a
        <5> QED
          BY <2>2, <5>1, <5>2
      <4> QED
        BY <4>1, <4>2
    <3>2. ASSUME NEW u \in Uuids
          PROVE  /\ nodes[u] = "unused" => attempt'[u].fate = "none" /\ Grants[u] = {}
                 /\ nodes[u] = "deleted" => attempt'[u].fate = "recorded" /\ Grants[u] = {}
      BY <1>c, <2>3, <2>4, NamesAssumption DEF LifecycleInv, StoresSound, NodesTracked
    <3> QED
      BY <1>g, <3>1, <3>2 DEF LifecycleInv, StoresSound, NodesTracked, OfKind
  <2>6. ExternalNameOwned'
    <3>1. ASSUME NEW c \in CRs, api'[c].ext \in Uuids
          PROVE  attempt'[api'[c].ext].owner = c /\ attempt'[api'[c].ext].fate = "recorded"
      <4>1. CASE c = w.cr /\ w.pc = "recordSucceeded"
        BY <1>c, <2>2, <2>3, <2>4, <4>1, NamesAssumption
      <4>2. CASE api'[c].ext = api[c].ext
        BY <2>3, <2>4, <3>1, <4>2, NamesAssumption DEF LifecycleInv, StoresSound, ExternalNameOwned
      <4> QED
        BY <2>2, <2>4, <4>1, <4>2 DEF a
    <3> QED
      BY <3>1 DEF ExternalNameOwned
  <2>7. ObjectsSound'
    <3>1. b.phase = "present" /\ b.finalizer
      BY <2>1, <2>4
    <3> QED
      BY <1>g, <2>2, <3>1 DEF LifecycleInv, StoresSound, ObjectsSound, Revoked
  <2>8. CacheBehind'
    <3>1. ASSUME NEW c \in CRs
          PROVE  Behind(cache[c], api'[c], Grants)
      <4>1. Behind(cache[c], api[c], Grants)
        BY DEF LifecycleInv, StoresSound, CacheBehind
      <4>2. CASE c = w.cr
        <5>1. Revoked(cache[c], Grants)
          BY <2>4, <4>1, <4>2 DEF Behind, Revoked, a
        <5> QED
          BY <2>1, <2>2, <4>1, <4>2, <5>1 DEF Behind, a
      <4> QED
        BY <2>2, <4>1, <4>2
    <3>2. ASSUME NEW c \in CRs
          PROVE  Recorded(cache[c], attempt')
      <4>1. Recorded(cache[c], attempt)
        BY DEF LifecycleInv, StoresSound, CacheBehind
      <4> QED
        BY <2>3, <2>4, <4>1, NamesAssumption DEF Recorded
    <3> QED
      BY <1>g, <3>1, <3>2 DEF CacheBehind
  <2> QED
    BY <1>w, <2>5, <2>6, <2>7, <2>8 DEF StoresSound
<1> QED
  BY <1>1, <1>2 DEF UpdateCriticalAnnotations

(* What the worker knows when its copy is the latest version. *)
LEMMA FreshCopy ==
  ASSUME TypeInv, WriteAheadInv, w.fresh, w.pc \notin CreateSection \cup {"idle"}
  PROVE  w.mg = api[w.cr]
BY DEF WriteAheadInv, CopiesCurrent, Busy

LEMMA StepLifecycle == TypeInv /\ WriteAheadInv /\ LifecycleInv /\ [Next]_vars => LifecycleInv'
<1> SUFFICES ASSUME TypeInv, WriteAheadInv, LifecycleInv, [Next]_vars
             PROVE  LifecycleInv'
  OBVIOUS
<1>t. /\ w \in Worker /\ w.mg \in Object
      /\ api \in [CRs -> Object] /\ cache \in [CRs -> Object]
      /\ attempt \in [Uuids -> Attempt]
      /\ w = [pc |-> w.pc, cr |-> w.cr, mg |-> w.mg, fresh |-> w.fresh,
              obs |-> w.obs, made |-> w.made]
  BY DEF TypeInv, TypeOK, Worker
<1>b. w.pc # "idle" => w.cr \in CRs /\ w.mg.phase = "present"
  BY DEF TypeInv, WorkerOK
<1>s. StoresSound /\ WorkerSound
  BY DEF LifecycleInv
<1>1. ASSUME NEW c \in CRs, Start(c)
      PROVE  LifecycleInv'
  <2>1. /\ w'.cr = c /\ w'.mg = cache[c] /\ w'.made = NoExt
        /\ w'.pc = IF cache[c].deleting /\ c \in OrphanPolicy THEN "orphan" ELSE "initialize"
    BY <1>1 DEF Start, Idle
  <2>2. StoresSound' /\ Grants' = Grants
    BY <1>1, <1>s, QuietStores DEF Start
  <2>3. CopyBehind'
    BY <1>1, <1>s, <2>1, <2>2 DEF Start, StoresSound, CacheBehind, CopyBehind
  <2>4. PathSound' /\ ObservationHolds' /\ CreationSound'
    BY <2>1 DEF PathSound, ObservationHolds, CreationSound, CreateSection
  <2> QED
    BY <2>2, <2>3, <2>4 DEF LifecycleInv, WorkerSound
<1>2. ASSUME NEW c \in CRs, CacheSync(c)
      PROVE  LifecycleInv'
  <2>1. Grants' = Grants /\ UNCHANGED <<api, w, nodes, edges, targets, attempt>>
    BY <1>2, GrantsKept DEF CacheSync
  <2>2. NodesTracked' /\ ExternalNameOwned' /\ ObjectsSound'
    BY <1>s, <2>1 DEF StoresSound, NodesTracked, ExternalNameOwned, ObjectsSound, OfKind
  <2>3. CacheBehind'
    <3>1. cache'[c] = api[c] /\ \A d \in CRs \ {c} : cache'[d] = cache[d]
      BY <1>2, <1>t DEF CacheSync
    <3>2. Behind(api[c], api[c], Grants) /\ Recorded(api[c], attempt)
      BY <1>s DEF Behind, Recorded, StoresSound, ExternalNameOwned
    <3> QED
      BY <1>s, <2>1, <3>1, <3>2 DEF StoresSound, CacheBehind
  <2>4. WorkerSound'
    BY <1>s, <2>1, BystanderSound
  <2> QED
    BY <2>2, <2>3, <2>4 DEF LifecycleInv, StoresSound
<1>3. ASSUME NEW c \in CRs, UserStep(c)
      PROVE  LifecycleInv'
  <2>1. ASSUME NEW o, WrittenByOther(c, o), o.ext = api[c].ext, api[c].deleting => o.deleting,
               \/ o.phase = "present" /\ (o.ext \in Uuids => o.finalizer)
               \/ /\ o.phase = "gone" /\ (c \notin OrphanPolicy => Revoked(api[c], Grants))
                  /\ api[c].ext \notin Uuids,
               UNCHANGED <<cache, nodes, edges, targets, attempt>>
        PROVE  LifecycleInv'
    <3>1. /\ w'.pc = w.pc /\ w'.cr = w.cr /\ w'.mg = w.mg /\ w'.obs = w.obs /\ w'.made = w.made
          /\ api' = [api EXCEPT ![c] = o]
      BY <1>t, <2>1 DEF WrittenByOther
    <3>2. /\ StoresSound' /\ Grants' = Grants
          /\ \A d \in CRs : \A m : Behind(m, api[d], Grants) => Behind(m, api'[d], Grants')
          /\ api'[c] = o /\ \A d \in CRs \ {c} : api'[d] = api[d]
      BY <1>s, <2>1, <3>1, WriteStores
    <3>3. WorkerSound'
      BY <1>s, <2>1, <3>1, <3>2, BystanderSound
    <3> QED
      BY <3>2, <3>3 DEF LifecycleInv
  <2>2. CASE ApplyResource(c)
    <3>1. PICK refs \in SUBSET Targets :
            WrittenByOther(c, [Blank EXCEPT !.phase = "present", !.refs = refs])
      BY <2>2 DEF ApplyResource
    <3> DEFINE o == [Blank EXCEPT !.phase = "present", !.refs = refs]
    <3>2. o.phase = "present" /\ o.ext = NoExt /\ o.ext = Blank.ext /\ ~Blank.deleting
      BY DEF Blank
    <3>3. api[c] = Blank /\ UNCHANGED <<cache, nodes, edges, targets, attempt>>
      BY <1>s, <2>2 DEF ApplyResource, StoresSound, ObjectsSound
    <3> HIDE DEF o
    <3> QED
      BY <2>1, <3>1, <3>2, <3>3, NamesAssumption DEF o
  <2>3. CASE EditSpec(c)
    <3>1. PICK refs \in SUBSET Targets : WrittenByOther(c, [api[c] EXCEPT !.refs = refs])
      BY <2>3 DEF EditSpec
    <3> DEFINE o == [api[c] EXCEPT !.refs = refs]
    <3>2. /\ o.phase = api[c].phase /\ o.ext = api[c].ext /\ o.finalizer = api[c].finalizer
          /\ o.deleting = api[c].deleting
      BY <1>t DEF Object
    <3>3. /\ api[c].phase = "present" /\ (api[c].ext \in Uuids => api[c].finalizer)
          /\ UNCHANGED <<cache, nodes, edges, targets, attempt>>
      BY <1>s, <2>3 DEF EditSpec, StoresSound, ObjectsSound
    <3> HIDE DEF o
    <3> QED
      BY <2>1, <3>1, <3>2, <3>3 DEF o
  <2>4. CASE DeleteResource(c)
    <3> DEFINE o == IF api[c].finalizer THEN [api[c] EXCEPT !.deleting = TRUE]
                                        ELSE [api[c] EXCEPT !.phase = "gone"]
    <3>0. api[c] \in Object
      BY <1>t
    <3>1. /\ o.ext = api[c].ext
          /\ api[c].finalizer => o.phase = api[c].phase /\ o.finalizer /\ o.deleting
          /\ ~api[c].finalizer => o.phase = "gone" /\ o.deleting = api[c].deleting
      BY <3>0 DEF Object
    <3>2. WrittenByOther(c, o)
      BY <2>4 DEF DeleteResource
    <3>3. /\ api[c].phase = "present" /\ (api[c].ext \in Uuids => api[c].finalizer)
          /\ UNCHANGED <<cache, nodes, edges, targets, attempt>>
      BY <1>s, <2>4 DEF DeleteResource, StoresSound, ObjectsSound
    <3> HIDE DEF o
    <3> QED
      BY <2>1, <3>1, <3>2, <3>3 DEF Revoked
  <2> QED
    BY <1>3, <2>2, <2>3, <2>4 DEF UserStep
<1>4. CASE Initialize
  <2> DEFINE o == [w.mg EXCEPT !.ext = OwnName]
             next == [w EXCEPT !.mg = o, !.pc = "check"]
  <2>0. w.pc = "initialize" /\ w.cr \in CRs /\ w.mg.phase = "present" /\ w.made = NoExt
        /\ UNCHANGED <<cache, nodes, edges, targets, attempt>>
    BY <1>4, <1>b, <1>s DEF Initialize, WorkerSound, CreationSound
  <2>1. /\ o.ext = OwnName /\ o.phase = w.mg.phase /\ o.deleting = w.mg.deleting
        /\ next.cr = w.cr /\ next.pc = "check" /\ next.mg = o /\ next.made = w.made
    BY <1>t DEF Object
  <2>2. CASE Stored(o) /\ w' \in {Idle, next} /\ w.mg.ext = NoExt
    <3>1. w.mg = api[w.cr] /\ api' = [api EXCEPT ![w.cr] = o]
      BY <2>0, <2>2, FreshCopy DEF Stored, CreateSection
    <3>2. StoresSound' /\ Grants' = Grants /\ api'[w.cr] = o
      <4> HIDE DEF o
      <4>1. /\ o.ext \notin Uuids /\ api[w.cr].ext \notin Uuids /\ o.phase = "present"
            /\ api[w.cr].deleting => o.deleting
        BY <2>0, <2>1, <2>2, <3>1, NamesAssumption
      <4> QED
        BY <1>s, <2>0, <3>1, <4>1, WriteStores
    <3> HIDE DEF o
    <3>3. CASE w' = next
      <4>1. w'.cr = w.cr /\ w'.pc = "check" /\ w'.mg = o /\ w'.made = NoExt
        BY <2>0, <2>1, <3>3
      <4> HIDE DEF next
      <4>2. CopyBehind'
        BY <2>1, <3>2, <4>1, NamesAssumption DEF CopyBehind, Behind, Revoked, Recorded
      <4>3. PathSound' /\ ObservationHolds' /\ CreationSound'
        BY <1>s, <2>0, <2>1, <4>1
           DEF WorkerSound, PathSound, ObservationHolds, CreationSound, CreateSection
      <4> QED
        BY <3>2, <4>2, <4>3 DEF LifecycleInv, WorkerSound
    <3>4. CASE w' = Idle
      BY <3>2, <3>4, EndSound DEF LifecycleInv
    <3> QED
      BY <2>2, <3>3, <3>4
  <2>3. CASE UNCHANGED api /\ w' = Idle
    BY <1>s, <2>0, <2>3, QuietStores, EndSound DEF LifecycleInv
  <2>4. CASE Goto("check") /\ UNCHANGED api
    <3>1. w'.pc = "check" /\ w'.mg = w.mg /\ w'.cr = w.cr /\ w'.made = w.made
      BY <1>t, <2>4 DEF Goto
    <3>2. PathSound' /\ ObservationHolds' /\ "check" \notin CreateSection \cup {"idle"}
      BY <1>s, <2>0, <3>1 DEF WorkerSound, PathSound, ObservationHolds, CreateSection
    <3>3. StoresSound' /\ Grants' = Grants
      BY <1>s, <2>0, <2>4, QuietStores
    <3> QED
      BY <1>s, <2>0, <2>4, <3>1, <3>2, <3>3, MoveSound DEF LifecycleInv, CreateSection
  <2> QED
    BY <1>4, <2>2, <2>3, <2>4 DEF Initialize, Update, Quit, Return
<1>5. CASE RefuseIncomplete \/ AwaitGrace \/ UpToDate
  BY <1>5, <1>s, QuietStores, EndSound
     DEF RefuseIncomplete, AwaitGrace, UpToDate, Return, Quit, LifecycleInv
<1>6. CASE ResolveReferences
  <2>1. /\ w'.pc = "observe" /\ w'.mg = w.mg /\ w'.cr = w.cr /\ w'.made = w.made
        /\ w.pc = "check" /\ UNCHANGED <<api, cache, nodes, edges, targets, attempt>>
    BY <1>t, <1>6 DEF ResolveReferences, Goto
  <2>2. PathSound' /\ ObservationHolds'
    BY <1>s, <2>1 DEF WorkerSound, PathSound, ObservationHolds
  <2> QED
    BY <1>s, <2>1, <2>2, MoveSound, QuietStores DEF LifecycleInv, CreateSection
<1>7. CASE Observe
  <2>0. w.pc = "observe" /\ w.cr \in CRs /\ UNCHANGED <<api, cache, nodes, edges, targets, attempt>>
    BY <1>7, <1>b DEF Observe
  <2>1. CASE w' = Idle
    BY <1>s, <2>0, <2>1, QuietStores, EndSound DEF LifecycleInv
  <2>2. ASSUME NEW obs \in Observations(w.mg), w' = [w EXCEPT !.obs = obs, !.pc = "decide"]
        PROVE  LifecycleInv'
    <3>1. w'.pc = "decide" /\ w'.mg = w.mg /\ w'.cr = w.cr /\ w'.made = w.made /\ w'.obs = obs
      BY <1>t, <2>2
    <3>2. StoresSound' /\ Grants' = Grants
      BY <1>s, <2>0, QuietStores
    <3>3. IF obs = "absent" THEN Revoked(w.mg, Grants)
          ELSE w.mg.ext \in Uuids /\ Grants[w.mg.ext] # {}
      <4>1. IF obs = "absent" THEN RefsOf(w.mg.ext) = {} ELSE RefsOf(w.mg.ext) # {}
        BY <2>2 DEF Observations
      <4> QED
        BY <4>1, GrantsOK DEF Revoked
    <3>4. obs # "absent" => w.mg.ext = api[w.cr].ext
      BY <1>s, <2>0, <3>3 DEF WorkerSound, CopyBehind, Behind, Revoked
    <3>5. obs # "absent" /\ w.cr \notin OrphanPolicy => api[w.cr].phase = "present"
      <4>1. api[w.cr].phase \in {"absent", "present", "gone"} /\ Blank.ext \notin Uuids
        BY <1>t, <2>0, NamesAssumption DEF Object, Blank
      <4> QED
        BY <1>s, <2>0, <3>3, <3>4, <4>1 DEF StoresSound, ObjectsSound, Revoked
    <3>6. PathSound' /\ ObservationHolds'
      BY <1>s, <2>0, <3>1, <3>2, <3>3, <3>4, <3>5
         DEF WorkerSound, PathSound, ObservationHolds
    <3> QED
      BY <1>s, <2>0, <3>1, <3>2, <3>6, MoveSound DEF LifecycleInv, CreateSection
  <2> QED
    BY <1>7, <2>1, <2>2 DEF Observe, Return
<1>8. CASE Decide
  <2>1. /\ w'.mg = w.mg /\ w'.cr = w.cr /\ w'.made = w.made /\ w'.obs = w.obs
        /\ w'.pc = IF ~w.mg.deleting THEN "addFinalizer"
                   ELSE IF w.obs = "absent" THEN "finalize" ELSE "delete"
        /\ w.pc = "decide" /\ UNCHANGED <<api, cache, nodes, edges, targets, attempt>>
    BY <1>t, <1>8 DEF Decide, Goto
  <2>2. StoresSound' /\ Grants' = Grants
    BY <1>s, <2>1, QuietStores
  <2>3. PathSound' /\ ObservationHolds'
    BY <1>s, <2>1, <2>2 DEF WorkerSound, PathSound, ObservationHolds
  <2> QED
    BY <1>s, <2>1, <2>2, <2>3, MoveSound DEF LifecycleInv, CreateSection
<1>9. CASE Delete
  <2>0. /\ w.pc = "delete" /\ w' = Idle /\ UNCHANGED <<api, cache, targets, attempt>>
        /\ w.mg.ext \in Uuids /\ attempt[w.mg.ext].fate = "recorded"
    BY <1>9, <1>s DEF Delete, Return, WorkerSound, PathSound, ObservationHolds, CopyBehind, Recorded
  <2>1. /\ OfKind(edges)'
        /\ \/ Grants' = [Grants EXCEPT ![w.mg.ext] = {}]
              /\ nodes' = [nodes EXCEPT ![w.mg.ext] = "deleted"]
           \/ Grants' = Grants /\ nodes' = nodes
    BY <1>9, <1>s, <2>0, DeleteGrants DEF StoresSound, NodesTracked
  <2>2. /\ \A u \in Uuids : Grants[u] = {} => Grants'[u] = {}
        /\ \A u \in Uuids : \/ nodes'[u] = nodes[u]
                            \/ nodes'[u] = "deleted" /\ attempt[u].fate = "recorded" /\ Grants'[u] = {}
    BY <2>0, <2>1, GrantsOK DEF TypeInv, TypeOK
  <2> QED
    BY <1>s, <2>0, <2>1, <2>2, GraphStores, EndSound DEF LifecycleInv
<1>10. CASE RemoveFinalizer
  <2> DEFINE o == [w.mg EXCEPT !.finalizer = FALSE, !.phase = "gone"]
  <2>0. /\ w.pc \in {"finalize", "orphan"} /\ w.cr \in CRs /\ w' = Idle
        /\ UNCHANGED <<cache, nodes, edges, targets, attempt>>
    BY <1>10, <1>b DEF RemoveFinalizer, Update, Quit, Return
  <2>1. o.ext = w.mg.ext /\ o.phase = "gone" /\ o.deleting = w.mg.deleting
    BY <1>t DEF Object
  <2>2. CASE Stored(o)
    <3>1. w.mg = api[w.cr] /\ api' = [api EXCEPT ![w.cr] = o]
      BY <2>0, <2>2, FreshCopy DEF Stored, CreateSection
    <3>2. w.cr \notin OrphanPolicy => Revoked(api[w.cr], Grants)
      BY <1>s, <2>0, <3>1 DEF WorkerSound, PathSound, ObservationHolds
    <3> HIDE DEF o
    <3>3. StoresSound'
      BY <1>s, <2>0, <2>1, <3>1, <3>2, WriteStores
    <3> QED
      BY <2>0, <3>3, EndSound DEF LifecycleInv
  <2>3. CASE UNCHANGED api
    BY <1>s, <2>0, <2>3, QuietStores, EndSound DEF LifecycleInv
  <2> QED
    BY <1>10, <2>2, <2>3 DEF RemoveFinalizer, Update
<1>11. CASE AddFinalizer
  <2> DEFINE o == [w.mg EXCEPT !.finalizer = TRUE]
             pc == IF w.obs = "absent" THEN "pending" ELSE "update"
  <2>0. /\ w.pc = "addFinalizer" /\ w.cr \in CRs /\ w.mg.phase = "present"
        /\ UNCHANGED <<cache, nodes, edges, targets, attempt>>
        /\ pc \in {"pending", "update"} /\ (pc = "pending" => w.obs = "absent")
    BY <1>11, <1>b DEF AddFinalizer
  <2>1. o.ext = w.mg.ext /\ o.phase = "present" /\ o.deleting = w.mg.deleting /\ o.finalizer
    BY <1>t, <2>0 DEF Object
  <2>2. ASSUME NEW m, w' = AfterFinalizer(m)
        PROVE  w'.pc = pc /\ w'.mg = m /\ w'.cr = w.cr /\ w'.made = w.made /\ w'.obs = w.obs
    BY <1>t, <2>2 DEF AfterFinalizer
  <2> HIDE DEF o, pc
  <2>3. CASE w' = AfterFinalizer(w.mg) /\ UNCHANGED api
    <3>1. StoresSound' /\ Grants' = Grants
      BY <1>s, <2>0, <2>3, QuietStores
    <3>2. PathSound' /\ ObservationHolds'
      BY <1>s, <2>0, <2>2, <2>3, <3>1 DEF WorkerSound, PathSound, ObservationHolds
    <3> QED
      BY <1>s, <2>0, <2>2, <2>3, <3>1, <3>2, MoveSound DEF LifecycleInv, CreateSection
  <2>4. CASE Stored(o) /\ w' \in {Idle, AfterFinalizer(o)}
    <3>1. w.mg = api[w.cr] /\ api' = [api EXCEPT ![w.cr] = o]
      BY <2>0, <2>4, FreshCopy DEF Stored, CreateSection
    <3>2. StoresSound' /\ Grants' = Grants /\ api'[w.cr] = o
      <4>1. /\ o.ext = api[w.cr].ext /\ (api[w.cr].deleting => o.deleting)
            /\ o.phase = "present" /\ (o.ext \in Uuids => o.finalizer)
        BY <2>0, <2>1, <3>1
      <4> QED
        BY <1>s, <2>0, <3>1, <4>1, WriteStores
    <3>3. CASE w' = AfterFinalizer(o)
      <4>1. CopyBehind'
        BY <1>s, <2>0, <2>1, <2>2, <3>2, <3>3
           DEF WorkerSound, CopyBehind, Behind, Recorded
      <4>2. PathSound' /\ ObservationHolds'
        BY <1>s, <2>0, <2>1, <2>2, <3>1, <3>2, <3>3
           DEF WorkerSound, PathSound, ObservationHolds, Revoked
      <4>3. CreationSound'
        BY <1>s, <2>0, <2>2, <3>3 DEF WorkerSound, CreationSound, CreateSection
      <4> QED
        BY <3>2, <4>1, <4>2, <4>3 DEF LifecycleInv, WorkerSound
    <3>4. CASE w' = Idle
      BY <3>2, <3>4, EndSound DEF LifecycleInv
    <3> QED
      BY <2>4, <3>3, <3>4
  <2>5. CASE UNCHANGED api /\ w' = Idle
    BY <1>s, <2>0, <2>5, QuietStores, EndSound DEF LifecycleInv
  <2> QED
    BY <1>11, <2>3, <2>4, <2>5 DEF AddFinalizer, Update, Quit, Return, o
<1>12. CASE WritePending
  <2> DEFINE o == [w.mg EXCEPT !.pending = now]
             next == [w EXCEPT !.mg = o, !.pc = "createNode"]
  <2>0. /\ w.pc = "pending" /\ w.cr \in CRs /\ w.mg.phase = "present" /\ w.mg.finalizer
        /\ w.obs = "absent" /\ w.made = NoExt /\ Revoked(w.mg, Grants)
        /\ UNCHANGED <<cache, nodes, edges, targets, attempt>>
    BY <1>12, <1>b, <1>s
       DEF WritePending, WorkerSound, PathSound, CreationSound, ObservationHolds,
           WriteAheadInv, CheckedCopy
  <2>1. /\ o.ext = w.mg.ext /\ o.phase = w.mg.phase /\ o.deleting = w.mg.deleting
        /\ o.finalizer = w.mg.finalizer
        /\ next.cr = w.cr /\ next.pc = "createNode" /\ next.mg = o /\ next.made = w.made
    BY <1>t DEF Object
  <2>2. Update(o, next)
    BY <1>12 DEF WritePending
  <2> HIDE DEF o, next
  <2>3. CASE Stored(o) /\ w' \in {Idle, next}
    <3>1. w.mg = api[w.cr] /\ api' = [api EXCEPT ![w.cr] = o]
      BY <2>0, <2>3, FreshCopy DEF Stored, CreateSection
    <3>2. StoresSound' /\ Grants' = Grants /\ api'[w.cr] = o
      <4>1. /\ o.ext = api[w.cr].ext /\ (api[w.cr].deleting => o.deleting)
            /\ o.phase = "present" /\ (o.ext \in Uuids => o.finalizer)
        BY <2>0, <2>1, <3>1
      <4> QED
        BY <1>s, <2>0, <3>1, <4>1, WriteStores
    <3>3. CASE w' = next
      <4>1. CopyBehind'
        BY <1>s, <2>0, <2>1, <3>2, <3>3 DEF WorkerSound, CopyBehind, Behind, Recorded
      <4>2. PathSound' /\ ObservationHolds'
        BY <1>s, <2>0, <2>1, <3>3 DEF WorkerSound, PathSound, ObservationHolds
      <4>3. CreationSound'
        BY <2>0, <2>1, <3>2, <3>3 DEF CreationSound, CreateSection, Revoked
      <4> QED
        BY <3>2, <4>1, <4>2, <4>3 DEF LifecycleInv, WorkerSound
    <3>4. CASE w' = Idle
      BY <3>2, <3>4, EndSound DEF LifecycleInv
    <3> QED
      BY <2>3, <3>3, <3>4
  <2>4. CASE UNCHANGED api /\ w' = Idle
    BY <1>s, <2>0, <2>4, QuietStores, EndSound DEF LifecycleInv
  <2> QED
    BY <2>2, <2>3, <2>4 DEF Update, Quit, Return
<1>13. CASE CreateNode
  <2>0. /\ w.pc = "createNode" /\ w.cr \in CRs /\ w.made = NoExt
        /\ UNCHANGED <<api, cache, edges, targets>> /\ Grants' = Grants
    BY <1>13, <1>b, <1>s, GrantsKept DEF CreateNode, WorkerSound, CreationSound
  <2>1. ASSUME NEW u \in Uuids, nodes[u] = "unused", nodes' = [nodes EXCEPT ![u] = "live"],
               attempt' = [attempt EXCEPT ![u] =
                             [owner |-> w.cr, at |-> w.mg.pending, fate |-> "inflight"]],
               \/ w' = [w EXCEPT !.made = u, !.pc = "createEdges"]
               \/ w' = [w EXCEPT !.made = u, !.pc = "recordFailed"]
        PROVE  LifecycleInv'
    <3>1. /\ attempt[u].fate = "none" /\ Grants[u] = {}
          /\ nodes'[u] = "live" /\ attempt'[u].fate = "inflight" /\ attempt'[u].owner = w.cr
          /\ \A v \in Uuids \ {u} : nodes'[v] = nodes[v] /\ attempt'[v] = attempt[v]
      BY <1>s, <1>t, <2>1 DEF StoresSound, NodesTracked, TypeInv, TypeOK
    <3>2. /\ w'.pc \in {"createEdges", "recordFailed"} /\ w'.made = u /\ w'.cr = w.cr
          /\ w'.mg = w.mg
      BY <1>t, <2>1
    <3>3. \A m : Recorded(m, attempt) => Recorded(m, attempt')
      BY <3>1 DEF Recorded
    <3>4. NodesTracked'
      BY <1>s, <2>0, <3>1 DEF StoresSound, NodesTracked, OfKind
    <3>5. ExternalNameOwned'
      BY <1>s, <2>0, <3>1 DEF StoresSound, ExternalNameOwned
    <3>6. ObjectsSound' /\ CacheBehind'
      BY <1>s, <2>0, <3>3 DEF StoresSound, ObjectsSound, CacheBehind
    <3>7. CopyBehind' /\ PathSound' /\ ObservationHolds'
      BY <1>s, <2>0, <3>2, <3>3 DEF WorkerSound, CopyBehind, PathSound, ObservationHolds
    <3>8. CreationSound'
      BY <1>s, <2>0, <3>1, <3>2 DEF WorkerSound, CreationSound, CreateSection
    <3> QED
      BY <3>4, <3>5, <3>6, <3>7, <3>8 DEF LifecycleInv, StoresSound, WorkerSound
  <2>2. CASE Goto("recordFailed") /\ UNCHANGED <<nodes, attempt>>
    <3>1. w'.pc = "recordFailed" /\ w'.made = w.made /\ w'.cr = w.cr /\ w'.mg = w.mg
      BY <1>t, <2>2 DEF Goto
    <3>2. StoresSound'
      BY <1>s, <2>0, <2>2, QuietStores
    <3>3. CopyBehind' /\ PathSound' /\ ObservationHolds' /\ CreationSound'
      BY <1>s, <2>0, <2>2, <3>1
         DEF WorkerSound, CopyBehind, PathSound, ObservationHolds, CreationSound, CreateSection
    <3> QED
      BY <3>2, <3>3 DEF LifecycleInv, WorkerSound
  <2> QED
    BY <1>13, <2>1, <2>2 DEF CreateNode
<1>14. CASE CreateEdges
  <2>0. /\ w.pc = "createEdges" /\ w.cr \in CRs /\ w.made \in Uuids
        /\ UNCHANGED <<api, cache, nodes, attempt>>
        /\ attempt[w.made].fate = "inflight" /\ Grants[w.made] = {}
    BY <1>14, <1>b, <1>s, NamesAssumption
       DEF CreateEdges, TypeInv, WorkerOK, WorkerSound, CreationSound
  <2>1. /\ OfKind(edges)'
        /\ \A u \in Uuids : u # w.made => Grants'[u] = Grants[u]
    BY <1>14, <1>s, CreateEdgesGrants, GrantsOK DEF StoresSound, NodesTracked
  <2>2. /\ \/ w'.pc = "recordSucceeded" /\ w'.mg.ext = w.made
           \/ w'.pc = "recordFailed" /\ w'.mg = w.mg
        /\ w'.made = w.made /\ w'.cr = w.cr /\ w'.mg.deleting = w.mg.deleting
    BY <1>t, <1>14 DEF CreateEdges, Goto, Object
  <2>3. \A m : Recorded(m, attempt) => (Revoked(m, Grants) <=> Revoked(m, Grants'))
    BY <2>0, <2>1 DEF Recorded, Revoked
  <2>4. \A c \in CRs : Recorded(api[c], attempt)
    BY <1>s DEF StoresSound, ExternalNameOwned, Recorded
  <2>5. NodesTracked' /\ ExternalNameOwned'
    BY <1>s, <2>0, <2>1 DEF StoresSound, NodesTracked, ExternalNameOwned
  <2>6. ObjectsSound' /\ CacheBehind'
    BY <1>s, <2>0, <2>3, <2>4 DEF StoresSound, ObjectsSound, CacheBehind, Behind
  <2>7. CopyBehind' /\ PathSound' /\ ObservationHolds'
    BY <1>s, <2>0, <2>2, <2>3
       DEF WorkerSound, CopyBehind, Behind, PathSound, ObservationHolds
  <2>8. CreationSound'
    BY <1>s, <2>0, <2>2, <2>3, <2>4 DEF WorkerSound, CreationSound, CreateSection
  <2> QED
    BY <2>5, <2>6, <2>7, <2>8 DEF LifecycleInv, StoresSound, WorkerSound
<1>15. CASE RecordFailed
  <2>1. [w.mg EXCEPT !.failed = now].ext = w.mg.ext
    BY <1>t DEF Object
  <2> QED
    BY <1>15, <2>1, RecordStores DEF RecordFailed, LifecycleInv
<1>16. CASE RecordSucceeded
  <2>1. [w.mg EXCEPT !.succeeded = now].ext = w.mg.ext
    BY <1>t DEF Object
  <2> QED
    BY <1>16, <2>1, RecordStores DEF RecordSucceeded, LifecycleInv
<1>17. CASE UpdateExternal
  <2>0. /\ w' = Idle /\ UNCHANGED <<api, cache, nodes, attempt>>
        /\ OfKind(edges)' /\ \A u \in Uuids : Grants[u] = {} => Grants'[u] = {}
    BY <1>17, <1>s, UpdateExternalGrants, GrantsOK
       DEF UpdateExternal, Return, StoresSound, NodesTracked
  <2> QED
    BY <1>s, <2>0, GraphStores, EndSound DEF LifecycleInv
<1>18. CASE CrashRestart
  <2>0. w' = Idle /\ cache' = api /\ UNCHANGED <<api, nodes, edges, targets, attempt>>
    BY <1>18 DEF CrashRestart
  <2>1. Grants' = Grants
    BY <2>0, GrantsKept
  <2>2. \A c \in CRs : Recorded(api[c], attempt) /\ Behind(api[c], api[c], Grants)
    BY <1>s DEF StoresSound, ExternalNameOwned, Recorded, Behind
  <2>3. StoresSound'
    BY <1>s, <2>0, <2>1, <2>2
       DEF StoresSound, NodesTracked, ExternalNameOwned, ObjectsSound, CacheBehind, OfKind
  <2> QED
    BY <2>0, <2>3, EndSound DEF LifecycleInv
<1>19. ASSUME NEW t \in Targets, DeleteTarget(t)
       PROVE  LifecycleInv'
  <2>0. /\ UNCHANGED <<api, cache, w, nodes, attempt>>
        /\ OfKind(edges)' /\ \A u \in Uuids : Grants[u] = {} => Grants'[u] = {}
    BY <1>19, <1>s, DeleteTargetGrants DEF DeleteTarget, StoresSound, NodesTracked
  <2> QED
    BY <1>s, <2>0, GraphStores, BystanderSound DEF LifecycleInv
<1>20. CASE Tick \/ UNCHANGED vars
  <2>0. UNCHANGED <<api, cache, w, nodes, edges, targets, attempt>>
    BY <1>20 DEF Tick, vars
  <2> QED
    BY <1>s, <2>0, QuietStores, BystanderSound DEF LifecycleInv
<1> QED
  BY <1>1, <1>2, <1>3, <1>4, <1>5, <1>6, <1>7, <1>8, <1>9, <1>10, <1>11, <1>12, <1>13, <1>14,
     <1>15, <1>16, <1>17, <1>18, <1>19, <1>20 DEF Next, WorkerStep

-----------------------------------------------------------------------------
(* The refinement. *)

LEMMA InitRefines == Init => Lifecycle!Init
<1> SUFFICES ASSUME Init
             PROVE  Lifecycle!Init
  OBVIOUS
<1>1. \A u \in Uuids : RefsOf(u) = {}
  BY DEF Init, RefsOf, GetUser, GetPersona, GetUserRefs, GetPersonaRefs
<1>2. Phase = [c \in CRs |-> "absent"] /\ Name = [c \in CRs |-> NoExt]
  BY NamesAssumption DEF Init, Phase, Name, Blank
<1>3. /\ Status = [u \in Uuids |-> "none"] /\ Owner = [u \in Uuids |-> NoCR]
      /\ Grants = [u \in Uuids |-> {}]
  BY <1>1 DEF Init, Status, Owner, Grants
<1> QED
  BY <1>2, <1>3 DEF Lifecycle!Init

(* What nobody sees. *)
LEMMA StutterMaps ==
  ASSUME UNCHANGED <<api, nodes, attempt>>, Grants' = Grants
  PROVE  UNCHANGED Lifecycle!lifecycle
BY DEF Lifecycle!lifecycle, Phase, Name, Status, Owner

PhaseOf(o) == IF o.phase = "present" /\ o.deleting THEN "deleting" ELSE o.phase

(* A write that leaves the name of an object alone can change its phase. *)
LEMMA WriteMaps ==
  ASSUME TypeInv, NEW c \in CRs, NEW o, api' = [api EXCEPT ![c] = o],
         o.ext = api[c].ext \/ (o.ext \notin Uuids /\ api[c].ext \notin Uuids),
         UNCHANGED <<nodes, edges, targets, attempt>>
  PROVE  /\ UNCHANGED <<Name, Status, Owner, Grants>>
         /\ Phase' = [Phase EXCEPT ![c] = PhaseOf(o)]
<1>1. api'[c] = o /\ \A d \in CRs \ {c} : api'[d] = api[d]
  BY DEF TypeInv, TypeOK
<1>2. UNCHANGED <<Status, Owner, Grants>>
  BY GrantsKept DEF Status, Owner
<1>3. Name' = Name
  BY <1>1 DEF Name
<1>4. Phase' = [Phase EXCEPT ![c] = PhaseOf(o)]
  <2>1. Phase = [d \in CRs |-> PhaseOf(api[d])] /\ Phase' = [d \in CRs |-> PhaseOf(api'[d])]
    BY DEF Phase, PhaseOf
  <2> QED
    BY <1>1, <2>1
<1> QED
  BY <1>2, <1>3, <1>4

LEMMA SamePhaseMaps ==
  ASSUME TypeInv, NEW c \in CRs, NEW o, api' = [api EXCEPT ![c] = o],
         o.ext = api[c].ext \/ (o.ext \notin Uuids /\ api[c].ext \notin Uuids),
         o.phase = api[c].phase, o.deleting = api[c].deleting,
         UNCHANGED <<nodes, edges, targets, attempt>>
  PROVE  UNCHANGED Lifecycle!lifecycle
<1>1. Phase' = Phase
  <2>1. Phase' = [Phase EXCEPT ![c] = PhaseOf(o)]
    BY WriteMaps
  <2>2. Phase = [Phase EXCEPT ![c] = PhaseOf(o)]
    BY DEF Phase, PhaseOf
  <2> QED
    BY <2>1, <2>2
<1>2. UNCHANGED <<Name, Status, Owner, Grants>>
  BY WriteMaps
<1> QED
  BY <1>1, <1>2 DEF Lifecycle!lifecycle

LEMMA GoneMaps ==
  ASSUME TypeInv, NEW c \in CRs, NEW o, api' = [api EXCEPT ![c] = o],
         o.ext = api[c].ext, o.phase = "gone", api[c].phase = "present",
         Revoked(api[c], Grants) \/ (api[c].deleting /\ c \in OrphanPolicy),
         UNCHANGED <<nodes, edges, targets, attempt>>
  PROVE  Lifecycle!Vanish(c)
<1>1. Phase' = [Phase EXCEPT ![c] = "gone"] /\ UNCHANGED <<Name, Status, Owner, Grants>>
  <2>1. PhaseOf(o) = "gone"
    BY DEF PhaseOf
  <2> QED
    BY <2>1, WriteMaps
<1>2. /\ Phase[c] \in {"present", "deleting"} /\ (api[c].deleting => Phase[c] = "deleting")
      /\ Revoked(api[c], Grants) => Lifecycle!Harmless(c)
  BY NamesAssumption DEF Phase, Name, Revoked, Lifecycle!Harmless
<1> QED
  BY <1>1, <1>2 DEF Lifecycle!Vanish

(* The outcome of a creation. *)
LEMMA RecordMaps ==
  ASSUME TypeInv, WriteAheadInv, LifecycleInv,
         NEW m, NEW settled \in {"recorded", "failed"}, m.ext = w.mg.ext,
         \/ w.pc = "recordSucceeded" /\ settled = "recorded"
         \/ w.pc = "recordFailed" /\ settled = "failed",
         UpdateCriticalAnnotations(m, settled), UNCHANGED <<nodes, edges, targets>>
  PROVE  \/ UNCHANGED Lifecycle!lifecycle
         \/ \E u \in Uuids : Lifecycle!Abandon(u) \/ Lifecycle!Name(w.cr, u)
<1>c. w.cr \in CRs /\ w.made \in Uuids \cup {NoExt} /\ (w.pc = "recordSucceeded" => w.made \in Uuids)
      /\ api \in [CRs -> Object] /\ attempt \in [Uuids -> Attempt]
  BY DEF TypeInv, TypeOK, WorkerOK, Worker
<1>g. Grants' = Grants
  BY GrantsKept
<1>1. CASE UNCHANGED <<api, attempt>>
  BY <1>1, <1>g, StutterMaps
<1>2. CASE /\ api' = [api EXCEPT ![w.cr] = AddAnnotations(api[w.cr], m)]
           /\ attempt' = [u \in Uuids |-> IF u = w.made THEN [attempt[u] EXCEPT !.fate = settled]
                                                        ELSE attempt[u]]
  <2> DEFINE b == AddAnnotations(api[w.cr], m)
  <2>1. /\ b.ext = w.mg.ext /\ b.phase = api[w.cr].phase /\ b.deleting = api[w.cr].deleting
        /\ api'[w.cr] = b /\ \A c \in CRs \ {w.cr} : api'[c] = api[c]
    BY <1>2, <1>c DEF AddAnnotations, Object
  <2> HIDE DEF b
  <2>2. Phase' = Phase
    BY <2>1 DEF Phase
  <2>3. \A u \in Uuids : /\ u # w.made => attempt'[u] = attempt[u]
                         /\ u = w.made => attempt'[u].fate = settled /\ attempt'[u].owner = attempt[u].owner
    BY <1>2, <1>c DEF Attempt
  <2>4. Owner' = Owner
    BY <2>3 DEF Owner
  <2>5. CASE w.made = NoExt
    <3>1. attempt' = attempt /\ Name' = Name
      BY <1>2, <1>c, <2>1, <2>5, NamesAssumption
         DEF LifecycleInv, WorkerSound, CreationSound, CreateSection, Name
    <3>2. Status' = Status
      BY <3>1 DEF Status
    <3> QED
      BY <1>g, <2>2, <2>4, <3>1, <3>2 DEF Lifecycle!lifecycle
  <2>6. CASE w.made \in Uuids
    <3>1. /\ nodes[w.made] = "live" /\ attempt[w.made].fate = "inflight"
          /\ attempt[w.made].owner = w.cr
      BY <2>6, NamesAssumption DEF LifecycleInv, WorkerSound, CreationSound
    <3>2. /\ Status' = [Status EXCEPT ![w.made] = settled]
          /\ Status[w.made] = "inflight" /\ Owner[w.made] = w.cr
      BY <2>3, <2>6, <3>1 DEF Status, Owner
    <3>3. CASE w.pc = "recordFailed"
      <4>1. Name' = Name
        BY <2>1, <3>3 DEF LifecycleInv, WorkerSound, CreationSound, CreateSection, Name
      <4> QED
        BY <1>g, <2>2, <2>4, <2>6, <3>2, <3>3, <4>1 DEF Lifecycle!Abandon
    <3>4. CASE w.pc = "recordSucceeded"
      <4>1. Name' = [Name EXCEPT ![w.cr] = w.made]
        BY <1>c, <2>1, <3>4 DEF LifecycleInv, WorkerSound, CreationSound, Name
      <4>2. Phase[w.cr] \in {"present", "deleting"}
        BY <1>c, <3>4 DEF WriteAheadInv, CreatedUnderDurableMark, CreateSection, Phase
      <4>3. Lifecycle!Harmless(w.cr)
        BY <1>c, <3>4, NamesAssumption
           DEF LifecycleInv, WorkerSound, CreationSound, CreateSection, Revoked, Name,
               Lifecycle!Harmless
      <4> QED
        BY <1>g, <2>2, <2>4, <2>6, <3>2, <3>4, <4>1, <4>2, <4>3 DEF Lifecycle!Name
    <3> QED
      BY <3>3, <3>4
  <2> QED
    BY <1>c, <2>5, <2>6
<1> QED
  BY <1>1, <1>2 DEF UpdateCriticalAnnotations

LEMMA StepRefines ==
  TypeInv /\ WriteAheadInv /\ LifecycleInv /\ [Next]_vars => [Lifecycle!Next]_(Lifecycle!lifecycle)
<1> SUFFICES ASSUME TypeInv, WriteAheadInv, LifecycleInv, [Next]_vars
             PROVE  Lifecycle!Next \/ UNCHANGED Lifecycle!lifecycle
  OBVIOUS
<1>t. /\ w \in Worker /\ w.mg \in Object
      /\ api \in [CRs -> Object] /\ attempt \in [Uuids -> Attempt]
  BY DEF TypeInv, TypeOK, Worker
<1>b. w.pc # "idle" => w.cr \in CRs /\ w.mg.phase = "present"
  BY DEF TypeInv, WorkerOK
<1>s. StoresSound /\ WorkerSound
  BY DEF LifecycleInv
<1>1. CASE \/ \E c \in CRs : Start(c) \/ CacheSync(c)
           \/ RefuseIncomplete \/ ResolveReferences \/ Observe \/ AwaitGrace \/ Decide
           \/ UpToDate \/ CrashRestart \/ Tick \/ UNCHANGED vars
  <2>1. UNCHANGED <<api, nodes, edges, targets, attempt>>
    BY <1>1 DEF Start, CacheSync, RefuseIncomplete, ResolveReferences, Observe, AwaitGrace,
                Decide, UpToDate, CrashRestart, Tick, vars
  <2> QED
    BY <2>1, GrantsKept, StutterMaps
<1>2. ASSUME NEW c \in CRs, ApplyResource(c)
      PROVE  Lifecycle!Next
  <2>1. PICK refs \in SUBSET Targets :
          WrittenByOther(c, [Blank EXCEPT !.phase = "present", !.refs = refs])
    BY <1>2 DEF ApplyResource
  <2> DEFINE o == [Blank EXCEPT !.phase = "present", !.refs = refs]
  <2>2. PhaseOf(o) = "present" /\ o.ext = Blank.ext
    BY DEF Blank, PhaseOf
  <2>3. /\ api[c] = Blank /\ UNCHANGED <<nodes, edges, targets, attempt>>
        /\ api' = [api EXCEPT ![c] = o]
    BY <1>s, <1>2, <2>1 DEF ApplyResource, StoresSound, ObjectsSound, WrittenByOther
  <2>4. Phase[c] = "absent"
    BY <2>3 DEF Phase, Blank
  <2> HIDE DEF o
  <2>5. UNCHANGED <<Name, Status, Owner, Grants>> /\ Phase' = [Phase EXCEPT ![c] = PhaseOf(o)]
    BY <2>2, <2>3, WriteMaps
  <2>6. Lifecycle!Apply(c)
    BY <2>2, <2>4, <2>5 DEF Lifecycle!Apply
  <2> QED
    BY <2>6 DEF Lifecycle!Next
<1>3. ASSUME NEW c \in CRs, EditSpec(c)
      PROVE  UNCHANGED Lifecycle!lifecycle
  <2>1. PICK refs \in SUBSET Targets : WrittenByOther(c, [api[c] EXCEPT !.refs = refs])
    BY <1>3 DEF EditSpec
  <2> DEFINE o == [api[c] EXCEPT !.refs = refs]
  <2>2. o.phase = api[c].phase /\ o.ext = api[c].ext /\ o.deleting = api[c].deleting
    BY <1>t DEF Object
  <2>3. api' = [api EXCEPT ![c] = o] /\ UNCHANGED <<nodes, edges, targets, attempt>>
    BY <1>3, <2>1 DEF EditSpec, WrittenByOther
  <2> HIDE DEF o
  <2> QED
    BY <2>2, <2>3, SamePhaseMaps
<1>4. ASSUME NEW c \in CRs, DeleteResource(c)
      PROVE  Lifecycle!Next
  <2> DEFINE o == IF api[c].finalizer THEN [api[c] EXCEPT !.deleting = TRUE]
                                      ELSE [api[c] EXCEPT !.phase = "gone"]
  <2>0. api[c] \in Object
    BY <1>t
  <2>1. /\ o.ext = api[c].ext
        /\ api[c].finalizer => o.phase = api[c].phase /\ o.deleting
        /\ ~api[c].finalizer => o.phase = "gone"
    BY <2>0 DEF Object
  <2>2. /\ api' = [api EXCEPT ![c] = o] /\ UNCHANGED <<nodes, edges, targets, attempt>>
        /\ api[c].phase = "present" /\ ~api[c].deleting
        /\ api[c].ext \in Uuids => api[c].finalizer
    BY <1>s, <1>4 DEF DeleteResource, WrittenByOther, StoresSound, ObjectsSound
  <2> HIDE DEF o
  <2>3. CASE api[c].finalizer
    <3>1. UNCHANGED <<Name, Status, Owner, Grants>> /\ Phase' = [Phase EXCEPT ![c] = PhaseOf(o)]
      BY <2>1, <2>2, WriteMaps
    <3>2. PhaseOf(o) = "deleting" /\ Phase[c] = "present"
      BY <2>1, <2>2, <2>3 DEF PhaseOf, Phase
    <3>3. Lifecycle!RequestDeletion(c)
      BY <3>1, <3>2 DEF Lifecycle!RequestDeletion
    <3> QED
      BY <3>3 DEF Lifecycle!Next
  <2>4. CASE ~api[c].finalizer
    <3>1. Revoked(api[c], Grants)
      BY <2>2, <2>4 DEF Revoked
    <3>2. Lifecycle!Vanish(c)
      BY <2>1, <2>2, <2>4, <3>1, GoneMaps
    <3> QED
      BY <3>2 DEF Lifecycle!Next
  <2> QED
    BY <2>3, <2>4
<1>5. ASSUME NEW o, NEW next, Update(o, next), w.pc \notin CreateSection \cup {"idle"},
             o.ext = w.mg.ext \/ (o.ext \notin Uuids /\ w.mg.ext \notin Uuids),
             o.phase = w.mg.phase, o.deleting = w.mg.deleting,
             UNCHANGED <<nodes, edges, targets, attempt>>
      PROVE  UNCHANGED Lifecycle!lifecycle
  <2>1. CASE UNCHANGED api
    BY <1>5, <2>1, GrantsKept, StutterMaps
  <2>2. CASE Stored(o)
    <3>1. w.mg = api[w.cr] /\ api' = [api EXCEPT ![w.cr] = o] /\ w.cr \in CRs
      BY <1>b, <1>5, <2>2, FreshCopy DEF Stored
    <3> QED
      BY <1>5, <3>1, SamePhaseMaps
  <2> QED
    BY <1>5, <2>1, <2>2 DEF Update
<1>6. CASE Initialize
  <2> DEFINE o == [w.mg EXCEPT !.ext = OwnName]
             next == [w EXCEPT !.mg = o, !.pc = "check"]
  <2>1. o.ext = OwnName /\ o.phase = w.mg.phase /\ o.deleting = w.mg.deleting
    BY <1>t DEF Object
  <2>2. w.pc \notin CreateSection \cup {"idle"} /\ UNCHANGED <<nodes, edges, targets, attempt>>
    BY <1>6 DEF Initialize, CreateSection
  <2>3. CASE UNCHANGED api
    BY <2>2, <2>3, GrantsKept, StutterMaps
  <2>4. CASE w.mg.ext = NoExt /\ Update(o, next)
    <3> HIDE DEF o, next
    <3> QED
      BY <1>5, <2>1, <2>2, <2>4, NamesAssumption
  <2> QED
    BY <1>6, <2>3, <2>4 DEF Initialize
<1>7. CASE AddFinalizer
  <2> DEFINE o == [w.mg EXCEPT !.finalizer = TRUE]
  <2>1. o.ext = w.mg.ext /\ o.phase = w.mg.phase /\ o.deleting = w.mg.deleting
    BY <1>t DEF Object
  <2>2. w.pc \notin CreateSection \cup {"idle"} /\ UNCHANGED <<nodes, edges, targets, attempt>>
    BY <1>7 DEF AddFinalizer, CreateSection
  <2>3. CASE UNCHANGED api
    BY <2>2, <2>3, GrantsKept, StutterMaps
  <2>4. CASE Update(o, AfterFinalizer(o))
    <3> HIDE DEF o
    <3> QED
      BY <1>5, <2>1, <2>2, <2>4
  <2> QED
    BY <1>7, <2>3, <2>4 DEF AddFinalizer
<1>8. CASE WritePending
  <2> DEFINE o == [w.mg EXCEPT !.pending = now]
             next == [w EXCEPT !.mg = o, !.pc = "createNode"]
  <2>1. o.ext = w.mg.ext /\ o.phase = w.mg.phase /\ o.deleting = w.mg.deleting
    BY <1>t DEF Object
  <2>2. w.pc \notin CreateSection \cup {"idle"} /\ UNCHANGED <<nodes, edges, targets, attempt>>
    BY <1>8 DEF WritePending, CreateSection
  <2>3. Update(o, next)
    BY <1>8 DEF WritePending
  <2> HIDE DEF o, next
  <2> QED
    BY <1>5, <2>1, <2>2, <2>3
<1>9. CASE Delete
  <2>0. /\ w.pc = "delete" /\ w.cr \in CRs /\ UNCHANGED <<api, attempt>>
        /\ w.mg.ext \in Uuids /\ w.mg.ext = api[w.cr].ext
        /\ attempt[w.mg.ext].fate = "recorded"
        /\ w.mg.deleting /\ w.cr \notin OrphanPolicy /\ api[w.cr].phase = "present"
        /\ api[w.cr].deleting
    BY <1>9, <1>b, <1>s
       DEF Delete, WorkerSound, PathSound, ObservationHolds, CopyBehind, Behind, Recorded
  <2>1. \/ Grants' = [Grants EXCEPT ![w.mg.ext] = {}]
           /\ nodes' = [nodes EXCEPT ![w.mg.ext] = "deleted"]
        \/ Grants' = Grants /\ nodes' = nodes
    BY <1>9, <1>s, <2>0, DeleteGrants DEF StoresSound, NodesTracked
  <2>2. CASE Grants' = Grants /\ nodes' = nodes
    BY <2>0, <2>2, StutterMaps
  <2>3. CASE Grants' = [Grants EXCEPT ![w.mg.ext] = {}]
             /\ nodes' = [nodes EXCEPT ![w.mg.ext] = "deleted"]
    <3>1. Status' = [Status EXCEPT ![w.mg.ext] = "destroyed"]
      BY <2>0, <2>3 DEF Status, TypeInv, TypeOK
    <3>2. UNCHANGED <<Phase, Name, Owner>>
      BY <2>0 DEF Phase, Name, Owner
    <3>3. CASE nodes[w.mg.ext] = "deleted"
      <4>1. nodes' = nodes /\ Grants' = Grants
        <5>1. Grants[w.mg.ext] = {}
          BY <1>s, <2>0, <3>3 DEF StoresSound, NodesTracked
        <5>2. nodes \in [Uuids -> {"unused", "live", "deleted"}] /\ Grants \in [Uuids -> SUBSET Targets]
          BY GrantsOK DEF TypeInv, TypeOK
        <5> QED
          BY <2>3, <3>3, <5>1, <5>2
      <4> QED
        BY <2>0, <4>1, StutterMaps
    <3>4. CASE nodes[w.mg.ext] # "deleted"
      <4>1. Phase[w.cr] = "deleting" /\ Name[w.cr] = w.mg.ext /\ Status[w.mg.ext] = "recorded"
        BY <2>0, <3>4 DEF Phase, Name, Status
      <4>2. Lifecycle!Destroy(w.cr)
        BY <2>0, <2>3, <3>1, <3>2, <4>1 DEF Lifecycle!Destroy
      <4> QED
        BY <2>0, <4>2 DEF Lifecycle!Next
    <3> QED
      BY <3>3, <3>4
  <2> QED
    BY <2>1, <2>2, <2>3
<1>10. CASE RemoveFinalizer
  <2> DEFINE o == [w.mg EXCEPT !.finalizer = FALSE, !.phase = "gone"]
  <2>0. /\ w.pc \in {"finalize", "orphan"} /\ w.cr \in CRs
        /\ UNCHANGED <<nodes, edges, targets, attempt>>
    BY <1>10, <1>b DEF RemoveFinalizer
  <2>1. o.ext = w.mg.ext /\ o.phase = "gone"
    BY <1>t DEF Object
  <2>2. CASE Stored(o)
    <3>1. w.mg = api[w.cr] /\ api' = [api EXCEPT ![w.cr] = o]
      BY <2>0, <2>2, FreshCopy DEF Stored, CreateSection
    <3>2. Revoked(api[w.cr], Grants) \/ (api[w.cr].deleting /\ w.cr \in OrphanPolicy)
      BY <1>s, <2>0, <3>1 DEF WorkerSound, PathSound, ObservationHolds
    <3>3. api[w.cr].phase = "present"
      BY <1>b, <2>0, <3>1
    <3> HIDE DEF o
    <3>4. Lifecycle!Vanish(w.cr)
      BY <2>0, <2>1, <3>1, <3>2, <3>3, GoneMaps
    <3> QED
      BY <2>0, <3>4 DEF Lifecycle!Next
  <2>3. CASE UNCHANGED api
    BY <2>0, <2>3, GrantsKept, StutterMaps
  <2> QED
    BY <1>10, <2>2, <2>3 DEF RemoveFinalizer, Update
<1>11. CASE CreateNode
  <2>0. /\ w.pc = "createNode" /\ w.cr \in CRs
        /\ UNCHANGED <<api, edges, targets>> /\ Grants' = Grants
    BY <1>11, <1>b, GrantsKept DEF CreateNode
  <2>1. ASSUME NEW u \in Uuids, nodes[u] = "unused", nodes' = [nodes EXCEPT ![u] = "live"],
               attempt' = [attempt EXCEPT ![u] =
                             [owner |-> w.cr, at |-> w.mg.pending, fate |-> "inflight"]]
        PROVE  Lifecycle!Next
    <3>1. /\ nodes'[u] = "live" /\ attempt'[u].fate = "inflight" /\ attempt'[u].owner = w.cr
          /\ \A v \in Uuids \ {u} : nodes'[v] = nodes[v] /\ attempt'[v] = attempt[v]
          /\ attempt[u].fate = "none"
      BY <1>s, <1>t, <2>1 DEF StoresSound, NodesTracked, TypeInv, TypeOK
    <3>2. /\ Status' = [Status EXCEPT ![u] = "inflight"] /\ Status[u] = "none"
          /\ Owner' = [Owner EXCEPT ![u] = w.cr]
      <4>1. Status[u] = "none"
        BY <2>1, <3>1 DEF Status
      <4>2. Status' = [Status EXCEPT ![u] = "inflight"]
        BY <3>1 DEF Status
      <4>3. Owner' = [Owner EXCEPT ![u] = w.cr]
        BY <3>1 DEF Owner
      <4> QED
        BY <4>1, <4>2, <4>3
    <3>3. UNCHANGED <<Phase, Name>>
      BY <2>0 DEF Phase, Name
    <3>4. Phase[w.cr] \in {"present", "deleting"} /\ Lifecycle!Harmless(w.cr)
      BY <1>s, <2>0, NamesAssumption
         DEF WriteAheadInv, CreatedUnderDurableMark, CreateSection, Phase, Name,
             WorkerSound, CreationSound, Revoked, Lifecycle!Harmless
    <3>5. Lifecycle!Make(w.cr, u)
      BY <2>0, <3>2, <3>3, <3>4 DEF Lifecycle!Make
    <3> QED
      BY <2>0, <3>5 DEF Lifecycle!Next
  <2>2. CASE UNCHANGED <<nodes, attempt>>
    BY <2>0, <2>2, StutterMaps
  <2> QED
    BY <1>11, <2>1, <2>2 DEF CreateNode
<1>12. CASE CreateEdges
  <2>0. /\ UNCHANGED <<api, nodes, targets, attempt>> /\ w.made \in Uuids
        /\ attempt[w.made].fate = "inflight" /\ nodes[w.made] = "live" /\ Grants[w.made] = {}
    BY <1>12, <1>s, NamesAssumption
       DEF CreateEdges, TypeInv, WorkerOK, WorkerSound, CreationSound
  <2>1. \/ Grants' = [Grants EXCEPT ![w.made] = Grants[w.made] \cup (w.mg.refs \cap targets)]
        \/ Grants' = Grants
    BY <1>12, <1>s, CreateEdgesGrants DEF StoresSound, NodesTracked
  <2>2. CASE Grants' = Grants
    BY <2>0, <2>2, StutterMaps
  <2>3. CASE Grants' = [Grants EXCEPT ![w.made] = Grants[w.made] \cup (w.mg.refs \cap targets)]
    <3> DEFINE refs == w.mg.refs \cap targets
    <3>1. refs \in SUBSET Targets /\ Grants[w.made] \cup refs = refs
      BY <2>0 DEF TypeInv, TypeOK
    <3>2. UNCHANGED <<Phase, Name, Status, Owner>> /\ Status[w.made] = "inflight"
      BY <2>0 DEF Phase, Name, Status, Owner
    <3>3. Lifecycle!Grant(w.made, refs)
      BY <2>0, <2>3, <3>1, <3>2 DEF Lifecycle!Grant
    <3> QED
      BY <2>0, <3>1, <3>3 DEF Lifecycle!Next
  <2> QED
    BY <2>1, <2>2, <2>3
<1>13. CASE RecordFailed
  <2>1. [w.mg EXCEPT !.failed = now].ext = w.mg.ext /\ w.cr \in CRs
    BY <1>t, <1>b, <1>13 DEF Object, RecordFailed
  <2> QED
    BY <1>13, <2>1, RecordMaps DEF RecordFailed, Lifecycle!Next
<1>14. CASE RecordSucceeded
  <2>1. [w.mg EXCEPT !.succeeded = now].ext = w.mg.ext /\ w.cr \in CRs
    BY <1>t, <1>b, <1>14 DEF Object, RecordSucceeded
  <2> QED
    BY <1>14, <2>1, RecordMaps DEF RecordSucceeded, Lifecycle!Next
<1>15. CASE UpdateExternal
  <2>1. PICK N \in SUBSET Uuids, refs \in SUBSET Targets :
          /\ \A n \in N : Grants[n] # {}
          /\ Grants' = [u \in Uuids |-> IF u \in N THEN refs ELSE Grants[u]]
    BY <1>15, <1>s, UpdateExternalGrants DEF StoresSound, NodesTracked
  <2>2. UNCHANGED <<Phase, Name, Status, Owner>>
    BY <1>15 DEF UpdateExternal, Phase, Name, Status, Owner
  <2>3. Lifecycle!Rewire(N, refs)
    BY <2>1, <2>2 DEF Lifecycle!Rewire
  <2> QED
    BY <2>3 DEF Lifecycle!Next
<1>16. ASSUME NEW t \in Targets, DeleteTarget(t)
       PROVE  Lifecycle!Next
  <2>1. UNCHANGED <<Phase, Name, Status, Owner>>
    BY <1>16 DEF DeleteTarget, Phase, Name, Status, Owner
  <2>2. Lifecycle!LoseReferent(t)
    BY <1>16, <1>s, <2>1, DeleteTargetGrants
       DEF Lifecycle!LoseReferent, StoresSound, NodesTracked
  <2> QED
    BY <2>2 DEF Lifecycle!Next
<1> QED
  BY <1>1, <1>2, <1>3, <1>4, <1>6, <1>7, <1>8, <1>9, <1>10, <1>11, <1>12, <1>13, <1>14, <1>15,
     <1>16 DEF Next, WorkerStep, UserStep

-----------------------------------------------------------------------------
(* The theorems. *)

LEMMA NoForgottenGrantHolds == TypeInv /\ LifecycleInv => NoForgottenGrant
<1> SUFFICES ASSUME TypeInv, LifecycleInv, NEW u \in Uuids,
                    attempt[u].fate = "recorded", RefsOf(u) # {}
             PROVE  LET c == attempt[u].owner
                    IN  api[c].ext = u /\ (api[c].phase = "present" \/ c \in OrphanPolicy)
  BY DEF NoForgottenGrant
<1> DEFINE c == attempt[u].owner
<1>1. Grants[u] # {}
  BY GrantsOK
<1>2. c \in CRs /\ api[c].ext = u
  BY <1>1 DEF LifecycleInv, StoresSound, NodesTracked
<1>3. api[c].phase \in {"absent", "present", "gone"} /\ Blank.ext \notin Uuids
  BY <1>2, NamesAssumption DEF TypeInv, TypeOK, Object, Blank
<1> QED
  BY <1>1, <1>2, <1>3 DEF LifecycleInv, StoresSound, ObjectsSound, Revoked

(* The inductive invariant holds in every behaviour. *)
LEMMA LifecycleInductive == Spec => [](TypeInv /\ WriteAheadInv /\ LifecycleInv)
<1>1. Init => TypeInv /\ WriteAheadInv /\ LifecycleInv
  BY InitType, InitWriteAhead, InitLifecycle, KindAssumption, NamesAssumption, BoundsAssumption
<1>2. TypeInv /\ WriteAheadInv /\ LifecycleInv /\ [Next]_vars
        => (TypeInv /\ WriteAheadInv /\ LifecycleInv)'
  BY StepType, StepWriteAhead, StepLifecycle, KindAssumption, NamesAssumption, BoundsAssumption
<1> QED
  BY <1>1, <1>2, PTL DEF Spec

(* Whatever fails and however stale the copies are, the external name that an *)
(* object carries is a node made for that object whose creation was recorded  *)
(* as a success: neither the default initializer nor the critical annotations *)
(* leave the name of another resource's node, or of one reported as failed.   *)
THEOREM NamesOwned == Spec => []ExternalNameOwned
<1>1. LifecycleInv => ExternalNameOwned
  BY DEF LifecycleInv, StoresSound
<1> QED
  BY <1>1, LifecycleInductive, PTL

(* A recorded node that still grants something is named by its resource, which *)
(* is still there to revoke it: the finalizer is not removed, nor another node *)
(* made, on the word of an observation that is no longer true.                 *)
THEOREM NothingForgotten == Spec => []NoForgottenGrant
BY LifecycleInductive, NoForgottenGrantHolds, PTL

LEMMA StepDeletesOnRequest ==
  ASSUME TypeInv, LifecycleInv, [Next]_vars
  PROVE  \A u \in Uuids : nodes[u] = "live" /\ nodes'[u] = "deleted" =>
           \E c \in CRs : api[c].ext = u /\ api[c].deleting
<1> SUFFICES ASSUME NEW u \in Uuids, nodes[u] = "live", nodes'[u] = "deleted"
             PROVE  \E c \in CRs : api[c].ext = u /\ api[c].deleting
  OBVIOUS
<1>1. nodes' # nodes
  OBVIOUS
<1>2. CASE CreateNode
  <2>1. \A v \in Uuids : nodes'[v] \in {nodes[v], "live"}
    BY <1>2 DEF CreateNode, TypeInv, TypeOK
  <2> QED
    BY <2>1
<1>3. CASE Delete
  <2>1. w.pc = "delete" /\ nodes' = [nodes EXCEPT ![w.mg.ext] = "deleted"]
    BY <1>1, <1>3 DEF Delete
  <2>2. w.mg.ext = u
    BY <2>1 DEF TypeInv, TypeOK
  <2>3. w.cr \in CRs /\ w.mg.deleting /\ w.obs # "absent"
    BY <2>1 DEF TypeInv, WorkerOK, LifecycleInv, WorkerSound, PathSound
  <2>4. api[w.cr].ext = u
    BY <2>1, <2>2, <2>3 DEF LifecycleInv, WorkerSound, ObservationHolds
  <2>5. api[w.cr].deleting
    BY <2>1, <2>3 DEF LifecycleInv, WorkerSound, CopyBehind, Behind
  <2> QED
    BY <2>3, <2>4, <2>5
<1> QED
  BY <1>1, <1>2, <1>3
     DEF Next, vars, WorkerStep, UserStep, Start, CacheSync, ApplyResource, EditSpec, DeleteResource,
         WrittenByOther, CrashRestart, DeleteTarget, Tick, Initialize, RefuseIncomplete,
         ResolveReferences, Observe, AwaitGrace, Decide, RemoveFinalizer, AddFinalizer,
         WritePending, CreateEdges, RecordFailed, RecordSucceeded, UpToDate, UpdateExternal

(* A node is destroyed only for a resource that names it and that a user asked *)
(* to delete, though Delete acts on a copy and on an observation that may both *)
(* be out of date.                                                            *)
THEOREM DeletedOnRequest == Spec => NodesDeletedOnRequest
BY LifecycleInductive, StepDeletesOnRequest, PTL DEF Spec, NodesDeletedOnRequest

LEMMA StepRewires ==
  ASSUME TypeInv, LifecycleInv, [Next]_vars
  PROVE  \A u \in Uuids :
           RefsOf(u)' # RefsOf(u) =>
             LET owner == attempt[u].owner IN
             \/ targets' # targets
             \/ w.pc \in {"createEdges", "delete"} /\ w.cr = owner
             \/ /\ w.pc = "update" /\ w.cr = NodeName[owner]
                /\ RefsOf(u)' = w.mg.refs \cap targets
<1> SUFFICES ASSUME NEW u \in Uuids, Grants'[u] # Grants[u], targets' = targets
             PROVE  \/ w.pc \in {"createEdges", "delete"} /\ w.cr = attempt[u].owner
                    \/ /\ w.pc = "update" /\ w.cr = NodeName[attempt[u].owner]
                       /\ Grants'[u] = w.mg.refs \cap targets
  BY DEF Grants
<1>1. edges' # edges /\ OfKind(edges)
  BY GrantsKept DEF LifecycleInv, StoresSound, NodesTracked
<1>2. CASE CreateEdges
  <2>1. w.pc = "createEdges" /\ w.made \in Uuids /\ w.made # NoExt
    BY <1>2, NamesAssumption DEF CreateEdges, TypeInv, WorkerOK
  <2>2. u = w.made
    BY <1>1, <1>2, GrantsOK, CreateEdgesGrants
  <2> QED
    BY <2>1, <2>2 DEF LifecycleInv, WorkerSound, CreationSound
<1>3. CASE UpdateExternal
  <2>1. PICK N \in SUBSET Uuids, refs \in SUBSET Targets :
          /\ refs = w.mg.refs \cap targets
          /\ \A n \in N : NamedAfter(n, w.cr)
          /\ Grants' = [v \in Uuids |-> IF v \in N THEN refs ELSE Grants[v]]
    BY <1>1, <1>3, UpdateExternalGrants
  <2>2. NamedAfter(u, w.cr) /\ Grants'[u] = w.mg.refs \cap targets
    <3> HIDE DEF Grants
    <3> QED
      BY <2>1
  <2>3. w.pc = "update"
    BY <1>3 DEF UpdateExternal
  <2> QED
    BY <2>2, <2>3 DEF NamedAfter
<1>4. CASE Delete
  <2>1. w.pc = "delete" /\ w.cr \in CRs /\ w.obs # "absent"
    BY <1>4 DEF Delete, TypeInv, WorkerOK, LifecycleInv, WorkerSound, PathSound
  <2>2. w.mg.ext \in Uuids /\ w.mg.ext = api[w.cr].ext
    BY <2>1 DEF LifecycleInv, WorkerSound, ObservationHolds
  <2>3. attempt[w.mg.ext].owner = w.cr
    BY <2>1, <2>2 DEF LifecycleInv, StoresSound, ExternalNameOwned
  <2>4. u = w.mg.ext
    BY <1>1, <1>4, <2>2, GrantsOK, DeleteGrants
  <2> QED
    BY <2>1, <2>3, <2>4
<1>5. ASSUME NEW t \in Targets, DeleteTarget(t)
      PROVE  FALSE
  BY <1>5 DEF DeleteTarget
<1> QED
  BY <1>1, <1>2, <1>3, <1>4, <1>5
     DEF Next, vars, WorkerStep, UserStep, Start, CacheSync, ApplyResource, EditSpec, DeleteResource,
         WrittenByOther, CrashRestart, Tick, Initialize, RefuseIncomplete, ResolveReferences,
         Observe, AwaitGrace, Decide, RemoveFinalizer, AddFinalizer, WritePending, CreateNode,
         RecordFailed, RecordSucceeded, UpToDate

(* What a node grants changes only with the targets, by the creation or the     *)
(* deletion of the resource it was made for, or by an update that found its      *)
(* name: that of any resource whose metadata.name it is.                        *)
THEOREM Rewires == Spec => RewiredByName
BY LifecycleInductive, StepRewires, PTL DEF Spec, RewiredByName

(* Every step of a controller, seen through the refinement mapping, is a step  *)
(* of ExternalLifecycle or changes nothing there.                              *)
THEOREM Refinement == Spec => ImplementsLifecycle
BY LifecycleInductive, InitRefines, StepRefines, PTL DEF Spec, ImplementsLifecycle, Lifecycle!Spec

=============================================================================
