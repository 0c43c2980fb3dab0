------------------------ MODULE ProviderLifecycleProofs ------------------------
(***************************************************************************)
(* The User and the Persona controller implement ExternalLifecycle while the *)
(* other controllers work on the same graph: the invariant that relates the   *)
(* worker to its object and to its node, and the refinement step by step.    *)
(***************************************************************************)
EXTENDS ProviderLifecycle, ProviderProofs

-----------------------------------------------------------------------------
(* What a node grants is in the relationships alone, as these join live nodes *)
(* of the right labels.                                                       *)

Gives(E, n, m) ==
  IF Kind = "User" THEN [from |-> n, type |-> "GRANTED", to |-> m] \in E
                   ELSE [from |-> m, type |-> "ATTACHED_TO", to |-> n] \in E

Ends(E, n) == {m \in Uuids : Gives(E, n, m)}

(* The worker of this kind is the only one to write the external names of its   *)
(* resources, and no deletion is taken back: what it decides on is true still.  *)
CopySound ==
  w[Kind].step = "decide" =>
    /\ objects[w[Kind].cr].phase # "absent" /\ objects[w[Kind].cr].ext = w[Kind].mg.ext
    /\ w[Kind].mg.phase = "deleting" => objects[w[Kind].cr].phase = "deleting"
    /\ w[Kind].obs # "absent" => w[Kind].mg.ext # 0

(* Between the two transactions of a creation nobody gives the node anything. *)
FreshSound ==
  w[Kind].step = "createEdges" => \A m : ~Gives(edges, w[Kind].made, m)

LifeInv == CopySound /\ FreshSound

(* A resource that has not been applied names no node. *)
AbsentSound == \A c \in Own : objects[c].phase = "absent" => objects[c].ext = 0

USE KindAssumption

LEMMA OwnServed == Own = Serves(Kind) /\ Own \subseteq Managed /\ Own \subseteq Resources
BY KindsServe, ManagedAreResources DEF Own, Serves

(* A relationship, by its ends. *)
LEMMA Relationship ==
  ASSUME TypeInv, EdgesSound, NEW e \in edges
  PROVE  /\ e.from \in DOMAIN nodes /\ e.to \in DOMAIN nodes
         /\ e.from \in Uuids /\ e.to \in Uuids
         /\ e = [from |-> e.from, type |-> e.type, to |-> e.to]
         /\ nodes[e.from].live /\ nodes[e.to].live /\ nodes[e.to].owner \in Personas
         /\ e.type = "GRANTED" <=> nodes[e.from].owner \in Users
         /\ e.type = "ATTACHED_TO" <=> nodes[e.from].owner \in PermissionSets
<1>1. e \in G!Relationships(DOMAIN nodes)
  BY DEF TypeInv, TypeOK
<1>2. /\ e.from \in DOMAIN nodes /\ e.to \in DOMAIN nodes
      /\ e = [from |-> e.from, type |-> e.type, to |-> e.to]
  BY <1>1 DEF G!Relationships
<1>3. DOMAIN nodes \subseteq Uuids
  BY NodesType, BoundsAssumption DEF Uuids
<1> QED
  BY <1>2, <1>3, NamesAssumption DEF EdgesSound

(* What gives anything is a live node of this kind, and gives live nodes. *)
LEMMA GivesType ==
  ASSUME TypeInv, EdgesSound, NEW n, NEW m, Gives(edges, n, m)
  PROVE  Mine(n) /\ nodes[n].live /\ n \in Uuids /\ m \in Uuids /\ ~Mine(m)
<1>1. CASE Kind = "User"
  <2>1. PICK e \in edges : e = [from |-> n, type |-> "GRANTED", to |-> m]
    BY <1>1 DEF Gives
  <2>2. e.from = n /\ e.to = m /\ e.type = "GRANTED"
    BY <2>1
  <2> QED
    BY <1>1, <2>2, Relationship, NamesAssumption DEF Mine, Own
<1>2. CASE Kind = "Persona"
  <2>1. PICK e \in edges : e = [from |-> m, type |-> "ATTACHED_TO", to |-> n]
    BY <1>2 DEF Gives
  <2>2. e.from = m /\ e.to = n /\ e.type = "ATTACHED_TO"
    BY <2>1
  <2> QED
    BY <1>2, <2>2, Relationship, NamesAssumption DEF Mine, Own
<1> QED
  BY <1>1, <1>2 DEF Kinds

LEMMA GrantsAreEnds == TypeInv /\ EdgesSound => Grants = [n \in Uuids |-> Ends(edges, n)]
<1> SUFFICES ASSUME TypeInv, EdgesSound, NEW n \in Uuids
             PROVE  GrantsOf(n) = Ends(edges, n)
  BY DEF Grants
<1>1. CASE ~Mine(n)
  BY <1>1, GivesType DEF GrantsOf, Ends
<1>2. CASE Mine(n) /\ Kind = "User"
  <2>1. ASSUME NEW m
        PROVE  m \in G!GetUserRefs(edges, n, Labelled("Persona"))
                 <=> m \in Uuids /\ [from |-> n, type |-> "GRANTED", to |-> m] \in edges
    <3>1. ASSUME NEW e \in edges, e.from = n
          PROVE  /\ e.to \in Uuids /\ e.to \in Labelled("Persona")
                 /\ e = [from |-> n, type |-> "GRANTED", to |-> e.to]
      BY <1>2, <3>1, Relationship, LabelledType DEF Mine, Own
    <3> QED
      BY <3>1 DEF G!GetUserRefs
  <2> QED
    BY <1>2, <2>1 DEF GrantsOf, Ends, Gives
<1>3. CASE Mine(n) /\ Kind = "Persona"
  <2>1. ASSUME NEW m
        PROVE  m \in G!GetPersonaRefs(edges, n, Labelled("PermissionSet"))
                 <=> m \in Uuids /\ [from |-> m, type |-> "ATTACHED_TO", to |-> n] \in edges
    <3>1. ASSUME NEW e \in edges, e.to = n
          PROVE  e.from \in Uuids /\ (e.from \in Labelled("PermissionSet") <=> e.type = "ATTACHED_TO")
                 /\ e = [from |-> e.from, type |-> e.type, to |-> n]
      BY <3>1, Relationship, LabelledType
    <3> QED
      BY <3>1 DEF G!GetPersonaRefs
  <2> QED
    BY <1>3, <2>1 DEF GrantsOf, Ends, Gives
<1> QED
  BY <1>1, <1>2, <1>3 DEF Kinds

LEMMA GrantsAfter == TypeInv' /\ EdgesSound' => Grants' = [n \in Uuids |-> Ends(edges', n)]
<1>1. (TypeInv /\ EdgesSound => Grants = [n \in Uuids |-> Ends(edges, n)])'
  BY GrantsAreEnds, PTL
<1> QED
  BY <1>1 DEF Ends, Gives

-----------------------------------------------------------------------------
(* Steps aside: those that leave the resources of this kind where they are, and *)
(* its nodes, and at most take a node of another kind away from what they give.  *)

GivesLess(x) == \A n, m : Gives(edges', n, m) <=> Gives(edges, n, m) /\ m # x

Aside ==
  /\ \A c \in Own : objects'[c].ext = objects[c].ext /\ objects'[c].phase = objects[c].phase
  /\ \A n \in Uuids : (Mine(n)' <=> Mine(n)) /\ (Mine(n) => nodes'[n] = nodes[n])
  /\ \/ \A n, m : Gives(edges', n, m) <=> Gives(edges, n, m)
     \/ \E x \in Uuids : GivesLess(x)

(* ... and do not have this controller's worker decide or relate anything new. *)
WorkerAside == w'[Kind] = w[Kind] \/ w'[Kind].step \notin {"decide", "createEdges"}

LEMMA DoneLife ==
  ASSUME w'[Kind].step \notin {"decide", "createEdges"}
  PROVE  LifeInv'
BY DEF LifeInv, CopySound, FreshSound

LEMMA AsideLife ==
  ASSUME TypeInv, LifeInv, Aside, WorkerAside
  PROVE  LifeInv'
<1>1. CASE w'[Kind].step \notin {"decide", "createEdges"}
  BY <1>1, DoneLife
<1>2. CASE w'[Kind] = w[Kind]
  <2>1. w[Kind].step # "idle" => w[Kind].cr \in Own
    BY WorkerType, OwnServed DEF Sane
  <2>2. CopySound'
    BY <1>2, <2>1 DEF LifeInv, CopySound, Aside
  <2>3. \A n, m : Gives(edges', n, m) => Gives(edges, n, m)
    BY DEF Aside, GivesLess
  <2>4. PICK u : u = w[Kind].made
    OBVIOUS
  <2>5. w[Kind].step = "createEdges" => \A m : ~Gives(edges', u, m)
    BY <2>3, <2>4 DEF LifeInv, FreshSound
  <2>6. FreshSound'
    BY <1>2, <2>4, <2>5 DEF FreshSound, Gives
  <2> QED
    BY <2>2, <2>6 DEF LifeInv
<1> QED
  BY <1>1, <1>2 DEF WorkerAside

(* The part of the state that nodes and resources make up. *)
LEMMA SameResources ==
  ASSUME \A c \in Own : objects'[c].ext = objects[c].ext /\ objects'[c].phase = objects[c].phase
  PROVE  UNCHANGED <<Phase, Name>>
BY DEF Phase, Name

LEMMA SameNodes ==
  ASSUME \A n \in Uuids : (Mine(n)' <=> Mine(n)) /\ (Mine(n) => nodes'[n] = nodes[n])
  PROVE  UNCHANGED <<Status, Owner>>
<1>1. \A n \in Uuids : StatusOf(n)' = StatusOf(n)
  BY DEF StatusOf
<1> QED
  BY <1>1 DEF Status, Owner

LEMMA SameGrants ==
  ASSUME ProviderInv, ProviderInv', \A n, m \in Uuids : Gives(edges', n, m) <=> Gives(edges, n, m)
  PROVE  UNCHANGED Grants
BY GrantsAreEnds, GrantsAfter DEF ProviderInv, Ends

LEMMA AsideMaps ==
  ASSUME ProviderInv, ProviderInv', Aside
  PROVE  Lifecycle!Next \/ UNCHANGED Lifecycle!lifecycle
<1>1. UNCHANGED <<Phase, Name, Status, Owner>>
  BY SameResources, SameNodes DEF Aside
<1>2. CASE \A n, m : Gives(edges', n, m) <=> Gives(edges, n, m)
  BY <1>1, <1>2, SameGrants DEF Lifecycle!lifecycle
<1>3. ASSUME NEW x \in Uuids, GivesLess(x)
      PROVE  Lifecycle!LoseReferent(x)
  <2>1. \A n \in Uuids : Ends(edges', n) = Ends(edges, n) \ {x}
    BY <1>3 DEF Ends, GivesLess
  <2>2. Grants' = [n \in Uuids |-> Grants[n] \ {x}]
    BY <2>1, GrantsAreEnds, GrantsAfter DEF ProviderInv
  <2> QED
    BY <1>1, <2>2 DEF Lifecycle!LoseReferent
<1> QED
  BY <1>2, <1>3 DEF Aside, Lifecycle!Next

(* Who stays aside. *)
LEMMA QuietAside ==
  ASSUME UNCHANGED <<nodes, edges>>,
         \A c \in Own : objects'[c].ext = objects[c].ext /\ objects'[c].phase = objects[c].phase
  PROVE  Aside
BY DEF Aside, Mine

LEMMA OtherObject ==
  ASSUME TypeInv, NEW c \in Resources \ Own, NEW o, objects' = [objects EXCEPT ![c] = o]
  PROVE  \A d \in Own : objects'[d] = objects[d]
BY OwnServed DEF TypeInv, TypeOK

LEMMA UndisturbedAside ==
  ASSUME TypeInv,
         \/ \E c \in Users : PanicInConnect(c)
         \/ \E t \in Teams : PanicInObserve(t)
         \/ \E k \in Kinds : UpToDate(k) \/ Fail(k)
         \/ EditConfig \/ CrashRestart \/ UNCHANGED vars
  PROVE  Aside /\ WorkerAside
<1>1. ASSUME NEW k \in Kinds, Fail(k)
      PROVE  Aside /\ WorkerAside
  <2>1. WorkerAside
    BY <1>1, FailType DEF WorkerAside, Idle
  <2> QED
    BY <1>1, <2>1, FailType, QuietAside
<1>2. ASSUME UNCHANGED <<objects, nodes, edges>>, w' = w \/ Restart \/ \E k \in Kinds : Quit(k)
      PROVE  Aside /\ WorkerAside
  BY <1>2, WorkersAfter, QuietAside DEF WorkerAside, Idle
<1> QED
  BY <1>1, <1>2, UndisturbedType

LEMMA SpecAside ==
  ASSUME TypeInv, NEW c \in Users \cup Personas, ResolveReferences(c) \/ EditSpec(c)
  PROVE  Aside /\ WorkerAside
<1>1. w' = w /\ UNCHANGED <<nodes, edges>>
  BY DEF ResolveReferences, EditSpec, WriteSpec
<1>2. c \in Resources /\ objects[c] \in Object /\ objects \in [Resources -> Object]
  BY ManagedAreResources DEF Managed, TypeInv, TypeOK
<1>3. PICK o : /\ objects' = [objects EXCEPT ![c] = o]
               /\ o.ext = objects[c].ext /\ o.phase = objects[c].phase
  <2>1. CASE ResolveReferences(c)
    <3>1. PICK v : objects' = [objects EXCEPT ![c].values = v]
      BY <2>1 DEF ResolveReferences
    <3>2. PICK o : o = [objects[c] EXCEPT !.values = v]
      OBVIOUS
    <3>3. o.ext = objects[c].ext /\ o.phase = objects[c].phase
      BY <1>2, <3>2 DEF Object
    <3> QED
      BY <3>1, <3>2, <3>3
  <2>2. CASE EditSpec(c)
    <3>1. PICK refs, v, p :
            objects' = [objects EXCEPT ![c] = [objects[c] EXCEPT !.refs = refs, !.values = v, !.providerRef = p]]
      BY <2>2 DEF EditSpec, WriteSpec
    <3>2. PICK o : o = [objects[c] EXCEPT !.refs = refs, !.values = v, !.providerRef = p]
      OBVIOUS
    <3>3. o.ext = objects[c].ext /\ o.phase = objects[c].phase
      BY <1>2, <3>2 DEF Object
    <3> QED
      BY <3>1, <3>2, <3>3
  <2> QED
    BY <2>1, <2>2
<1>4. \A d \in Own : objects'[d].ext = objects[d].ext /\ objects'[d].phase = objects[d].phase
  BY <1>2, <1>3, OwnServed
<1> QED
  BY <1>1, <1>4, QuietAside DEF WorkerAside


LEMMA PeopleAside ==
  ASSUME TypeInv, NEW c \in Resources \ Own,
         ApplyResource(c) \/ DeleteResource(c) \/ (c \in Teams /\ ImportTeam(c))
  PROVE  Aside /\ WorkerAside
<1>1. w' = w /\ UNCHANGED <<nodes, edges>>
  BY DEF ApplyResource, WriteSpec, DeleteResource, ImportTeam
<1>2. PICK o : objects' = [objects EXCEPT ![c] = o]
  BY DEF ApplyResource, WriteSpec, DeleteResource, ImportTeam
<1>3. \A d \in Own : objects'[d] = objects[d]
  BY <1>2, OtherObject
<1> QED
  BY <1>1, <1>3, QuietAside DEF WorkerAside

(* A node is of unknown outcome at first. *)
LEMMA OpenFate == \A marked : Unrecorded(marked) \in Open
BY DEF Unrecorded, Open

(* A node of another kind is made: nobody gives it anything, nor to it. *)
LEMMA MadeAside ==
  ASSUME ProviderInv, NEW c \in Managed \ Own, NEW f \in Open \cup {"recorded", "failed"},
         nodes' = Append(nodes, [owner |-> c, live |-> TRUE, fate |-> f]), UNCHANGED edges,
         \A d \in Own : objects'[d] = objects[d]
  PROVE  Aside
<1>1. PICK new : new = Len(nodes')
  OBVIOUS
<1>2. /\ DOMAIN nodes' = DOMAIN nodes \cup {new} /\ new \notin DOMAIN nodes
      /\ \A n \in DOMAIN nodes : nodes'[n] = nodes[n]
      /\ nodes'[new].owner = c
  BY <1>1, NodeAdded
<1> QED
  BY <1>2 DEF Aside, Mine

(* A node of another kind goes, with what it was given to. *)
LEMMA RemovedAside ==
  ASSUME ProviderInv, NEW x, ~Mine(x),
         nodes' = [nodes EXCEPT ![x].live = FALSE], edges' = G!DetachDelete(edges, x),
         \A d \in Own : objects'[d] = objects[d]
  PROVE  Aside
<1>1. /\ DOMAIN nodes' = DOMAIN nodes
      /\ \A n \in DOMAIN nodes : nodes'[n].owner = nodes[n].owner /\ (n # x => nodes'[n] = nodes[n])
  BY NodeDies DEF ProviderInv
<1>2. \A n \in Uuids : (Mine(n)' <=> Mine(n)) /\ (Mine(n) => nodes'[n] = nodes[n])
  BY <1>1 DEF Mine
<1>3. GivesLess(x)
  <2>1. ASSUME NEW n, NEW m
        PROVE  Gives(edges', n, m) <=> Gives(edges, n, m) /\ m # x /\ n # x
    BY DEF Gives, G!DetachDelete
  <2>2. \A m : ~Gives(edges, x, m)
    BY GivesType DEF ProviderInv
  <2> QED
    BY <2>1, <2>2 DEF GivesLess
<1>4. CASE x \in Uuids
  BY <1>2, <1>3, <1>4 DEF Aside
<1>5. CASE x \notin Uuids
  <2>1. \A n, m : Gives(edges', n, m) <=> Gives(edges, n, m)
    BY <1>3, <1>5, GivesType DEF GivesLess, ProviderInv
  <2> QED
    BY <1>2, <2>1 DEF Aside
<1> QED
  BY <1>4, <1>5

LEMMA PermissionSetAside ==
  ASSUME ProviderInv, NEW s \in PermissionSets, PermissionSetStep(s)
  PROVE  Aside /\ WorkerAside
<1>1. s \in Managed \ Own /\ s \in Resources \ Own /\ objects[s] \in Object
  BY OwnServed, KindsServe, ManagedAreResources DEF Managed, ProviderInv, TypeInv, TypeOK
<1>2. TypeInv /\ WorkerAside
  BY DEF ProviderInv, WorkerAside, PermissionSetStep, CreatePermissionSet, DeletePermissionSet,
         ReleasePermissionSet
<1>n. CreatePermissionSet(s) => Len(nodes) + 1 \in 0 .. Foreign
  BY <1>2, NodesType, BoundsAssumption DEF CreatePermissionSet, Foreign
<1>3. \A d \in Own : objects'[d] = objects[d]
  <2>1. \/ UNCHANGED objects
        \/ \E o : objects' = [objects EXCEPT ![s] = o]
    <3>1. CASE CreatePermissionSet(s)
      BY <1>n, <1>2, <3>1, PermissionSetWritten
    <3>2. CASE DeletePermissionSet(s)
      BY <3>2 DEF DeletePermissionSet
    <3>3. ASSUME objects' = [objects EXCEPT ![s].phase = "gone", ![s].finalizer = FALSE]
          PROVE  objects' = [objects EXCEPT ![s] = [objects[s] EXCEPT !.phase = "gone", !.finalizer = FALSE]]
      BY <1>1, <1>2, <3>3 DEF TypeInv, TypeOK
    <3>4. CASE ReleasePermissionSet(s)
      BY <3>3, <3>4 DEF ReleasePermissionSet
    <3> QED
      BY <3>1, <3>2, <3>4 DEF PermissionSetStep
  <2> QED
    BY <1>1, <1>2, <2>1, OtherObject
<1>4. CASE CreatePermissionSet(s)
  <2>1. PICK f \in Open \cup {"recorded", "failed"} :
          nodes' = Append(nodes, [owner |-> s, live |-> TRUE, fate |-> f])
    BY <1>n, <1>2, <1>4, PermissionSetWritten
  <2>2. UNCHANGED edges
    BY <1>4 DEF CreatePermissionSet
  <2> QED
    BY <1>1, <1>2, <1>3, <2>1, <2>2, MadeAside
<1>5. CASE DeletePermissionSet(s)
  <2>1. PICK x : x = objects[s].ext
    OBVIOUS
  <2>2. x \in Labelled("PermissionSet") /\ nodes' = [nodes EXCEPT ![x].live = FALSE]
        /\ edges' = G!DetachDelete(edges, x)
    BY <1>5, <2>1 DEF DeletePermissionSet
  <2>3. ~Mine(x)
    <3>1. x \in DOMAIN nodes /\ nodes[x].owner \in PermissionSets
      BY <1>2, <2>2, LabelledType, LabelsExist
    <3> QED
      BY <3>1, OwnServed, KindsServe DEF Mine
  <2> QED
    BY <1>2, <1>3, <2>2, <2>3, RemovedAside
<1>6. CASE ReleasePermissionSet(s)
  BY <1>2, <1>3, <1>6, QuietAside DEF ReleasePermissionSet
<1> QED
  BY <1>4, <1>5, <1>6 DEF PermissionSetStep


(* The other controller's worker, in all it does. *)
LEMMA OtherWorker ==
  ASSUME TypeInv, NEW k \in Kinds \ {Kind}
  PROVE  /\ w[k].step # "idle" => w[k].cr \in Managed \ Own /\ w[k].cr \in Resources \ Own
         /\ \A next : Continue(k, next) => w'[Kind] = w[Kind]
<1>1. Own \cap Serves(k) = {}
  BY OwnServed, KindsServe DEF Kinds
<1> QED
  BY <1>1, WorkerType DEF Sane, Continue, TypeInv, TypeOK

LEMMA OtherWrites ==
  ASSUME TypeInv, NEW k \in Kinds \ {Kind},
         RemoveFinalizer(k) \/ AddFinalizer(k) \/ WritePending(k)
  PROVE  Aside /\ WorkerAside
<1>1. w[k].step # "idle" /\ UNCHANGED <<nodes, edges>> /\ \E o, next : Write(k, o, next)
  BY DEF RemoveFinalizer, AddFinalizer, WritePending, Deciding
<1>2. PICK o, next : Write(k, o, next)
  BY <1>1
<1>3. \A d \in Own : objects'[d] = objects[d]
  BY <1>1, <1>2, OtherWorker, OtherObject DEF Write
<1> QED
  BY <1>1, <1>2, <1>3, OtherWorker, QuietAside DEF Write, Quit, WorkerAside

LEMMA OtherRecords ==
  ASSUME ProviderInv, NEW k \in Kinds \ {Kind}, RecordFailed(k) \/ RecordSucceeded(k)
  PROVE  Aside /\ WorkerAside
<1>0. PICK c, made : c = w[k].cr /\ made = w[k].made
  OBVIOUS
<1>1. PICK f \in {"recorded", "failed"}, ext \in 0 .. Foreign, b \in BOOLEAN :
        /\ objects' = [objects EXCEPT ![c] =
                         [objects[c] EXCEPT !.incomplete = FALSE, !.failed = b, !.ext = ext]]
        /\ nodes' = IF made = 0 THEN nodes ELSE [nodes EXCEPT ![made].fate = f]
        /\ IF w[k].step = "recordFailed" THEN f = "failed" /\ ext = objects[c].ext
                                         ELSE f = "recorded" /\ ext = made
  BY <1>0, RecordType DEF ProviderInv
<1>q. w[k].step \in {"recordFailed", "recordSucceeded"} /\ Quit(k) /\ UNCHANGED edges
  BY RecordType DEF ProviderInv
<1>2. TypeInv /\ WorkerAside /\ c \in Managed \ Own /\ c \in Resources \ Own
  BY <1>0, <1>q, OtherWorker DEF ProviderInv, Quit, WorkerAside
<1>3. \A d \in Own : objects'[d] = objects[d]
  <2>1. PICK o : o = [objects[c] EXCEPT !.incomplete = FALSE, !.failed = b, !.ext = ext]
    OBVIOUS
  <2> QED
    BY <1>1, <1>2, <2>1, OtherObject
<1>4. made # 0 => nodes[made].owner = c
  BY <1>0, <1>q DEF ProviderInv, WorkersSound, CreationSound, Creating
<1>5. /\ DOMAIN nodes' = DOMAIN nodes
      /\ \A n \in DOMAIN nodes : nodes'[n].owner = nodes[n].owner /\ (n # made => nodes'[n] = nodes[n])
  BY <1>1, <1>2, FateRecorded
<1>6. made = 0 => UNCHANGED nodes
  BY <1>1
<1>7. \A n \in Uuids : (Mine(n)' <=> Mine(n)) /\ (Mine(n) => nodes'[n] = nodes[n])
  BY <1>2, <1>4, <1>5, <1>6 DEF Mine
<1> QED
  BY <1>q, <1>2, <1>3, <1>7 DEF Aside

LEMMA OtherAdds ==
  ASSUME ProviderInv, NEW k \in Kinds \ {Kind}, AddNode(k, "createEdges")
  PROVE  Aside /\ WorkerAside
<1>0. PICK c, f : c = w[k].cr /\ f = Unrecorded(w[k].mg.incomplete)
  OBVIOUS
<1>1. /\ w[k].step = "createNode" /\ UNCHANGED <<objects, edges>> /\ w'[Kind] = w[Kind]
      /\ \/ nodes' = Append(nodes, [owner |-> c, live |-> TRUE, fate |-> f])
         \/ UNCHANGED nodes
  BY <1>0, AddNodeType DEF ProviderInv
<1>2. c \in Managed \ Own
  BY <1>0, <1>1, OtherWorker DEF ProviderInv
<1>3. f \in Open \cup {"recorded", "failed"}
  BY <1>0, OpenFate
<1> QED
  BY <1>1, <1>2, <1>3, MadeAside, QuietAside DEF WorkerAside

LEMMA OtherDeletes ==
  ASSUME ProviderInv, NEW k \in Kinds \ {Kind}, Delete(k)
  PROVE  Aside /\ WorkerAside
<1>1. PICK x : x = w[k].mg.ext
  OBVIOUS
<1>2. /\ w[k].step = "decide" /\ nodes' = [nodes EXCEPT ![x].live = FALSE]
      /\ edges' = G!DetachDelete(edges, x) /\ UNCHANGED objects /\ Quit(k)
  BY <1>1 DEF Delete, Deciding
<1>3. TypeInv /\ w[k].cr \in Managed \ Own
  BY <1>2, OtherWorker DEF ProviderInv
<1>4. ~Mine(x)
  BY <1>1, <1>2, <1>3, NodesType DEF ProviderInv, WorkersSound, DecisionSound, RecordedFor, Mine
<1> QED
  BY <1>2, <1>3, <1>4, OtherWorker, RemovedAside DEF Quit, WorkerAside

(* A relationship is of the type of one controller. *)
LEMMA OtherRelates ==
  ASSUME TypeInv, EdgesSound,
         \/ Kind = "Persona" /\ CreateUser
         \/ Kind = "User" /\ (CreatePersona \/ UpdatePersona)
         \/ UpdateUser
  PROVE  Aside /\ WorkerAside
<1>1. CASE Kind = "Persona" /\ CreateUser
  <2>1. UNCHANGED <<objects, nodes>> /\ w'["Persona"] = w["Persona"]
    BY <1>1, CreateType, RelateType DEF CreateUser, Kinds
  <2>2. \A n, m : Gives(edges', n, m) <=> Gives(edges, n, m)
    BY <1>1 DEF CreateUser, Relate, G!AddUserPersonaRelation, Gives
  <2> QED
    BY <1>1, <2>1, <2>2 DEF Aside, WorkerAside, Mine
<1>2. CASE Kind = "User" /\ CreatePersona
  <2>1. UNCHANGED <<objects, nodes>> /\ w'["User"] = w["User"]
    BY <1>2, CreateType, RelateType DEF CreatePersona, Kinds
  <2>2. \A n, m : Gives(edges', n, m) <=> Gives(edges, n, m)
    BY <1>2 DEF CreatePersona, Relate, G!AddPersonaPermissionSetRelation, Gives
  <2> QED
    BY <1>2, <2>1, <2>2 DEF Aside, WorkerAside, Mine
<1>3. CASE Kind = "User" /\ UpdatePersona
  <2>1. UNCHANGED <<objects, nodes>> /\ WorkerAside
    BY <1>3, WorkersAfter DEF UpdatePersona, Rewire, Kinds, WorkerAside, Idle
  <2>2. \A n, m : Gives(edges', n, m) <=> Gives(edges, n, m)
    BY <1>3 DEF UpdatePersona, Rewire, G!UpdatePersona, Gives
  <2> QED
    BY <1>3, <2>1, <2>2 DEF Aside, Mine
<1>4. CASE UpdateUser
  <2>1. UNCHANGED <<objects, nodes>> /\ WorkerAside
    BY <1>4, WorkersAfter DEF UpdateUser, Rewire, Kinds, WorkerAside, Idle
  <2>2. \A e \in edges : e.type # "DESIGNATED"
    BY DEF EdgesSound
  <2>3. UNCHANGED edges
    BY <1>4, <2>2 DEF UpdateUser, Rewire, G!UpdateUser
  <2> QED
    BY <2>1, <2>3, QuietAside
<1> QED
  BY <1>1, <1>2, <1>3, <1>4

LEMMA OtherAside ==
  ASSUME ProviderInv,
         \/ \E k \in Kinds \ {Kind} : Step(k)
         \/ Kind # "User" /\ UserStep
         \/ Kind # "Persona" /\ PersonaStep
  PROVE  Aside /\ WorkerAside
<1>t. TypeInv /\ EdgesSound
  BY DEF ProviderInv
<1>1. ASSUME NEW k \in Kinds \ {Kind}, Step(k)
      PROVE  Aside /\ WorkerAside
  BY <1>t, <1>1, OtherWrites, OtherRecords, UndisturbedAside DEF Step
<1>2. CASE Kind # "User" /\ UserStep
  <2>1. Kind = "Persona" /\ "User" \in Kinds \ {Kind}
    BY <1>2 DEF Kinds
  <2> QED
    BY <1>t, <1>2, <2>1, OtherAdds, OtherRelates, OtherDeletes DEF UserStep, AddUser, DeleteUser
<1>3. CASE Kind # "Persona" /\ PersonaStep
  <2>1. Kind = "User" /\ "Persona" \in Kinds \ {Kind}
    BY <1>3 DEF Kinds
  <2> QED
    BY <1>t, <1>3, <2>1, OtherAdds, OtherRelates, OtherDeletes DEF PersonaStep, AddPersona, DeletePersona
<1> QED
  BY <1>1, <1>2, <1>3


-----------------------------------------------------------------------------
(* The invariant of the worker is inductive. *)

LEMMA InitLife == Init => LifeInv
BY IdleType DEF Init, LifeInv, CopySound, FreshSound

LEMMA ObserveLife ==
  ASSUME ProviderInv, LifeInv, NEW c \in Users \cup Personas, Observe(c)
  PROVE  Aside /\ LifeInv'
<1>1. /\ TypeInv /\ EdgesSound /\ UNCHANGED <<objects, nodes, edges>>
      /\ KindOf(c) \in Kinds /\ c \in Serves(KindOf(c))
  BY ObserveType DEF Observe, ProviderInv
<1>2. Aside
  BY <1>1, QuietAside
<1>3. PICK obs \in Observations(c) :
        /\ w' = [w EXCEPT ![KindOf(c)] =
                   [Idle EXCEPT !.step = "decide", !.cr = c, !.mg = objects[c], !.obs = obs]]
        /\ w'[KindOf(c)].step = "decide" /\ w'[KindOf(c)].cr = c
        /\ w'[KindOf(c)].mg = objects[c] /\ w'[KindOf(c)].obs = obs
  BY <1>1, ObserveType
<1>4. CASE KindOf(c) # Kind
  BY <1>1, <1>2, <1>3, <1>4, AsideLife DEF WorkerAside, TypeInv, TypeOK
<1>5. CASE KindOf(c) = Kind
  <2>1. obs # "absent" => objects[c].ext # 0
    <3>1. SUFFICES ASSUME objects[c].ext = 0
                   PROVE  obs = "absent"
      OBVIOUS
    <3>2. \A e \in edges : e.from # 0 /\ e.to # 0
      BY <1>1, Relationship, NodesType
    <3>3. G!GetUserRefs(edges, 0, Labelled("Persona")) = {}
          /\ G!GetPersonaRefs(edges, 0, Labelled("PermissionSet")) = {}
      BY <3>2 DEF G!GetUserRefs, G!GetPersonaRefs
    <3>4. Observations(c) = {"absent"}
      BY <3>1, <3>3 DEF Observations, ObserveUser, ObservePersona, Compared
    <3> QED
      BY <3>4
  <2>2. objects[c].phase # "absent"
    BY DEF Observe, Ready, Living
  <2> QED
    BY <1>1, <1>2, <1>3, <1>5, <2>1, <2>2 DEF LifeInv, CopySound, FreshSound
<1> QED
  BY <1>2, <1>4, <1>5

(* A resource is applied, or its deletion is asked for; c is the worker's, or not. *)
LEMMA PeopleLife ==
  ASSUME ProviderInv, LifeInv, NEW c \in Own, ApplyResource(c) \/ DeleteResource(c)
  PROVE  LifeInv'
<1>1. /\ w' = w /\ UNCHANGED <<nodes, edges>> /\ TypeInv /\ c \in Resources
      /\ objects \in [Resources -> Object] /\ objects[c] \in Object
  BY OwnServed DEF ApplyResource, WriteSpec, DeleteResource, ProviderInv, TypeInv, TypeOK
<1>2. w[Kind].step = "decide" => w[Kind].cr \in Resources
  BY <1>1, WorkerType
<1>3. CASE ApplyResource(c)
  <2>1. objects[c].phase = "absent" /\ \A d \in Resources \ {c} : objects'[d] = objects[d]
    BY <1>1, <1>3 DEF ApplyResource, WriteSpec
  <2>2. w[Kind].step = "decide" => objects'[w[Kind].cr] = objects[w[Kind].cr]
    BY <1>2, <2>1 DEF LifeInv, CopySound
  <2> QED
    BY <1>1, <2>2 DEF LifeInv, CopySound, FreshSound, Gives
<1>4. CASE DeleteResource(c)
  <2>1. PICK p : p = IF objects[c].finalizer THEN "deleting" ELSE "gone"
    OBVIOUS
  <2>2. PICK o : o = [objects[c] EXCEPT !.phase = p]
    OBVIOUS
  <2>3. /\ objects' = [objects EXCEPT ![c] = o] /\ o.ext = objects[c].ext /\ o.phase # "absent"
        /\ objects[c].phase = "present"
    BY <1>1, <1>4, <2>1, <2>2 DEF DeleteResource, Object
  <2>4. \A d \in Resources :
          /\ objects'[d].ext = objects[d].ext
          /\ objects[d].phase # "absent" => objects'[d].phase # "absent"
          /\ objects[d].phase = "deleting" => objects'[d].phase = "deleting"
    BY <1>1, <2>3
  <2> QED
    BY <1>1, <1>2, <2>4 DEF LifeInv, CopySound, FreshSound, Gives
<1> QED
  BY <1>3, <1>4

LEMMA AddFinalizerLife ==
  ASSUME ProviderInv, LifeInv, AddFinalizer(Kind)
  PROVE  LifeInv'
<1> DEFINE o == [w[Kind].mg EXCEPT !.finalizer = TRUE]
           next == [w[Kind] EXCEPT !.mg = o]
<1>1. /\ w[Kind].step = "decide" /\ w[Kind].mg.phase = "present" /\ Write(Kind, o, next)
      /\ TypeInv
  BY DEF AddFinalizer, Deciding, ProviderInv
<1>2. /\ o.ext = w[Kind].mg.ext /\ o.phase = w[Kind].mg.phase
      /\ next.step = "decide" /\ next.cr = w[Kind].cr /\ next.mg = o /\ next.obs = w[Kind].obs
  BY <1>1, WorkerType DEF Object, Worker
<1> HIDE DEF o, next
<1>3. CASE Quit(Kind)
  <2>1. w'[Kind] = Idle
    BY <1>1, <1>3 DEF Quit, Continue, TypeInv, TypeOK
  <2> QED
    BY <2>1, DoneLife DEF Idle
<1>4. CASE Continue(Kind, next) /\ objects' = [objects EXCEPT ![w[Kind].cr] = o]
  <2>1. w'[Kind] = next
    BY <1>1, <1>4 DEF Continue, TypeInv, TypeOK
  <2>2. objects'[w[Kind].cr] = o
    BY <1>1, <1>4, WorkerType DEF TypeInv, TypeOK
  <2> QED
    BY <1>1, <1>2, <2>1, <2>2 DEF LifeInv, CopySound, FreshSound
<1> QED
  BY <1>1, <1>3, <1>4 DEF Write

LEMMA AddNodeLife ==
  ASSUME ProviderInv, LifeInv, AddNode(Kind, "createEdges")
  PROVE  LifeInv'
<1>1. PICK new, f : new = Len(nodes') /\ f = Unrecorded(w[Kind].mg.incomplete)
  OBVIOUS
<1>2. /\ w[Kind].step = "createNode" /\ UNCHANGED <<objects, edges>>
      /\ w'[Kind].step \in {"createEdges", "recordFailed"} /\ w'[Kind].cr = w[Kind].cr
      /\ \/ /\ nodes' = Append(nodes, [owner |-> w[Kind].cr, live |-> TRUE, fate |-> f])
            /\ w'[Kind].made = new
         \/ w'[Kind].made = 0
  BY <1>1, AddNodeType DEF ProviderInv
<1>3. PICK u : u = w'[Kind].made
  OBVIOUS
<1>4. w[Kind].cr \in Managed
  BY <1>2, WorkerType DEF ProviderInv
<1>5. u \notin DOMAIN nodes
  BY <1>1, <1>2, <1>3, <1>4, OpenFate, NodeAdded, NodesType DEF ProviderInv
<1>6. \A m : ~Gives(edges, u, m)
  BY <1>5, GivesType DEF ProviderInv, Mine
<1> QED
  BY <1>2, <1>3, <1>6 DEF LifeInv, CopySound, FreshSound, Gives


(* The other steps of this controller's worker take it on to a record, or end. *)
LEMMA OwnDone ==
  ASSUME ProviderInv,
         \/ RemoveFinalizer(Kind) \/ WritePending(Kind) \/ RecordFailed(Kind) \/ RecordSucceeded(Kind)
         \/ Kind = "User" /\ (CreateUser \/ UpdateUser \/ DeleteUser)
         \/ Kind = "Persona" /\ (CreatePersona \/ UpdatePersona \/ DeletePersona)
  PROVE  LifeInv'
<1>t. TypeInv
  BY DEF ProviderInv
<1>1. ASSUME Quit(Kind)
      PROVE  LifeInv'
  <2>1. w'[Kind] = Idle
    BY <1>t, <1>1 DEF Quit, Continue, TypeInv, TypeOK
  <2> QED
    BY <2>1, DoneLife DEF Idle
<1>2. CASE RemoveFinalizer(Kind)
  BY <1>1, <1>2 DEF RemoveFinalizer, Write, Quit
<1>3. CASE WritePending(Kind)
  <2>0. PICK marked \in BOOLEAN :
          LET o == [w[Kind].mg EXCEPT !.incomplete = marked]
          IN  Write(Kind, o, [w[Kind] EXCEPT !.mg = o, !.step = "createNode"])
    BY <1>3 DEF WritePending, Marks
  <2> DEFINE o == [w[Kind].mg EXCEPT !.incomplete = marked]
             next == [w[Kind] EXCEPT !.mg = o, !.step = "createNode"]
  <2>1. Continue(Kind, next) \/ Quit(Kind)
    BY <2>0 DEF Write
  <2>2. next.step = "createNode"
    BY <1>t, WorkerType DEF Worker
  <2> HIDE DEF next
  <2>3. ASSUME Continue(Kind, next)
        PROVE  w'[Kind] = next
    BY <1>t, <2>3 DEF Continue, TypeInv, TypeOK
  <2> QED
    BY <1>1, <2>1, <2>2, <2>3, DoneLife
<1>4. CASE \/ RecordFailed(Kind) \/ RecordSucceeded(Kind)
           \/ Kind = "User" /\ (UpdateUser \/ DeleteUser)
           \/ Kind = "Persona" /\ (UpdatePersona \/ DeletePersona)
  BY <1>1, <1>4 DEF RecordFailed, RecordSucceeded, Record, UpdateUser, UpdatePersona, Rewire,
                    DeleteUser, DeletePersona, Delete
<1>5. CASE Kind = "User" /\ CreateUser
  <2>1. w'[Kind].step \in {"recordSucceeded", "recordFailed"}
    BY <1>t, <1>5, CreateType, RelateType DEF CreateUser
  <2> QED
    BY <2>1, DoneLife
<1>6. CASE Kind = "Persona" /\ CreatePersona
  <2>1. w'[Kind].step \in {"recordSucceeded", "recordFailed"}
    BY <1>t, <1>6, CreateType, RelateType DEF CreatePersona
  <2> QED
    BY <2>1, DoneLife
<1> QED
  BY <1>2, <1>3, <1>4, <1>5, <1>6

(* All steps are aside, or this controller's, or somebody's at its resources. *)
LEMMA Steps ==
  ASSUME ProviderInv, [Next]_vars
  PROVE  \/ Aside /\ WorkerAside
         \/ \E c \in Users \cup Personas : Observe(c)
         \/ \E c \in Own : ApplyResource(c) \/ DeleteResource(c)
         \/ RemoveFinalizer(Kind) \/ AddFinalizer(Kind) \/ WritePending(Kind)
         \/ RecordFailed(Kind) \/ RecordSucceeded(Kind) \/ AddNode(Kind, "createEdges")
         \/ Kind = "User" /\ (CreateUser \/ DeleteUser)
         \/ Kind = "Persona" /\ (CreatePersona \/ UpdatePersona \/ DeletePersona)
<1>t. TypeInv /\ EdgesSound
  BY DEF ProviderInv
<1>1. ASSUME NEW c \in Users \cup Personas, Reconcile(c) \/ EditSpec(c)
      PROVE  Observe(c) \/ (Aside /\ WorkerAside)
  BY <1>t, <1>1, SpecAside DEF Reconcile
<1>2. ASSUME NEW c \in Resources \ Own, ApplyResource(c) \/ DeleteResource(c) \/ (c \in Teams /\ ImportTeam(c))
      PROVE  Aside /\ WorkerAside
  BY <1>t, <1>2, PeopleAside
<1>3. Teams \subseteq Resources \ Own
  BY OwnServed, ManagedAreResources DEF Resources
<1>4. ASSUME NEW k \in Kinds, Step(k)
      PROVE  \/ Aside /\ WorkerAside
             \/ RemoveFinalizer(Kind) \/ AddFinalizer(Kind) \/ WritePending(Kind)
             \/ RecordFailed(Kind) \/ RecordSucceeded(Kind)
  <2>1. CASE k # Kind
    BY <1>4, <2>1, OtherAside
  <2>2. CASE k = Kind
    BY <1>t, <1>4, <2>2, UndisturbedAside DEF Step
  <2> QED
    BY <2>1, <2>2
<1>5. ASSUME UserStep
      PROVE  \/ Aside /\ WorkerAside
             \/ Kind = "User" /\ (AddNode(Kind, "createEdges") \/ CreateUser \/ DeleteUser)
  BY <1>t, <1>5, OtherAside, OtherRelates DEF UserStep, AddUser
<1>6. ASSUME PersonaStep
      PROVE  \/ Aside /\ WorkerAside
             \/ /\ Kind = "Persona"
                /\ AddNode(Kind, "createEdges") \/ CreatePersona \/ UpdatePersona \/ DeletePersona
  BY <1>t, <1>6, OtherAside DEF PersonaStep, AddPersona
<1> QED
  BY <1>t, <1>1, <1>2, <1>3, <1>4, <1>5, <1>6, PermissionSetAside, UndisturbedAside, ManagedAreResources
     DEF Next

LEMMA NextLife == ProviderInv /\ LifeInv /\ [Next]_vars => LifeInv'
<1> SUFFICES ASSUME ProviderInv, LifeInv, [Next]_vars
             PROVE  LifeInv'
  OBVIOUS
<1>1. TypeInv
  BY DEF ProviderInv
<1> QED
  BY <1>1, Steps, AsideLife, ObserveLife, PeopleLife, AddFinalizerLife, AddNodeLife, OwnDone


(* Names come with creations, which only what is there has.  A step that writes *)
(* an object of this kind leaves it there, or gone.                            *)
LEMMA ObjectWrites ==
  ASSUME ProviderInv, NEW k \in Kinds,
         \/ RemoveFinalizer(k) \/ AddFinalizer(k) \/ WritePending(k)
         \/ RecordFailed(k) \/ RecordSucceeded(k)
  PROVE  UNCHANGED objects \/ \E o : o.phase # "absent" /\ objects' = [objects EXCEPT ![w[k].cr] = o]
<1>t. TypeInv /\ w[k].mg \in Object
  BY WorkerType DEF ProviderInv
<1>1. CASE RemoveFinalizer(k)
  <2>1. PICK o : o = [w[k].mg EXCEPT !.phase = "gone", !.finalizer = FALSE]
    OBVIOUS
  <2> QED
    BY <1>t, <1>1, <2>1 DEF RemoveFinalizer, Write, Object
<1>2. CASE AddFinalizer(k)
  <2>1. PICK o : o = [w[k].mg EXCEPT !.finalizer = TRUE]
    OBVIOUS
  <2>2. o.phase = "present"
    BY <1>t, <1>2, <2>1 DEF AddFinalizer, Deciding, Object
  <2> QED
    BY <1>2, <2>1, <2>2 DEF AddFinalizer, Write
<1>3. CASE WritePending(k)
  <2>0. PICK marked \in BOOLEAN :
          \E next : Write(k, [w[k].mg EXCEPT !.incomplete = marked], next)
    BY <1>3 DEF WritePending, Marks
  <2>1. PICK o : o = [w[k].mg EXCEPT !.incomplete = marked]
    OBVIOUS
  <2>2. o.phase = "present"
    BY <1>t, <1>3, <2>1 DEF WritePending, Deciding, Object
  <2> QED
    BY <2>0, <2>1, <2>2 DEF Write
<1>4. CASE RecordFailed(k) \/ RecordSucceeded(k)
  <2>1. PICK f \in {"recorded", "failed"}, ext \in 0 .. Foreign, b \in BOOLEAN :
          /\ objects' = [objects EXCEPT ![w[k].cr] =
                         [objects[w[k].cr] EXCEPT !.incomplete = FALSE, !.failed = b, !.ext = ext]]
          /\ nodes' = IF w[k].made = 0 THEN nodes ELSE [nodes EXCEPT ![w[k].made].fate = f]
          /\ IF w[k].step = "recordFailed" THEN f = "failed" /\ ext = objects[w[k].cr].ext
                                           ELSE f = "recorded" /\ ext = w[k].made
    BY <1>t, <1>4, RecordType
  <2>2. PICK o : o = [objects[w[k].cr] EXCEPT !.incomplete = FALSE, !.failed = b, !.ext = ext]
    OBVIOUS
  <2>3. w[k].step \in Creating /\ w[k].cr \in Managed /\ w[k].cr \in Resources
    BY <1>t, <1>4, WorkerType DEF RecordFailed, RecordSucceeded, Creating
  <2>4. objects[w[k].cr].phase # "absent" /\ objects[w[k].cr] \in Object
    BY <1>t, <2>3 DEF ProviderInv, WorkersSound, CreationSound, Living, TypeInv, TypeOK
  <2>5. o.phase # "absent"
    BY <2>2, <2>4 DEF Object
  <2> QED
    BY <2>1, <2>2, <2>5
<1> QED
  BY <1>1, <1>2, <1>3, <1>4

LEMMA NextAbsent == ProviderInv /\ AbsentSound /\ [Next]_vars => AbsentSound'
<1> SUFFICES ASSUME ProviderInv, AbsentSound, [Next]_vars
             PROVE  AbsentSound'
  OBVIOUS
<1>t. TypeInv /\ objects \in [Resources -> Object]
  BY DEF ProviderInv, TypeInv, TypeOK
<1>1. CASE Aside
  BY <1>1 DEF Aside, AbsentSound
<1>2. CASE UNCHANGED objects
  BY <1>2 DEF AbsentSound
<1>3. ASSUME NEW c \in Resources, NEW o, objects' = [objects EXCEPT ![c] = o], o.phase # "absent"
      PROVE  AbsentSound'
  BY <1>t, <1>3, OwnServed DEF AbsentSound
<1>4. ASSUME NEW c \in Own, ApplyResource(c) \/ DeleteResource(c)
      PROVE  AbsentSound'
  <2>1. CASE ApplyResource(c)
    <3>1. PICK refs, r :
            objects' = [objects EXCEPT ![c] = [Blank EXCEPT !.phase = "present", !.refs = refs, !.providerRef = r]]
      BY <2>1 DEF ApplyResource, WriteSpec
    <3>2. PICK o : o = [Blank EXCEPT !.phase = "present", !.refs = refs, !.providerRef = r]
      OBVIOUS
    <3>3. o.phase # "absent"
      BY <3>2 DEF Blank
    <3> QED
      BY <1>3, <3>1, <3>2, <3>3, OwnServed
  <2>2. CASE DeleteResource(c)
    <3>1. PICK p : p = IF objects[c].finalizer THEN "deleting" ELSE "gone"
      OBVIOUS
    <3>2. PICK o : o = [objects[c] EXCEPT !.phase = p]
      OBVIOUS
    <3>3. objects' = [objects EXCEPT ![c] = o] /\ o.phase # "absent"
      BY <1>t, <2>2, <3>1, <3>2, OwnServed DEF DeleteResource, Object
    <3> QED
      BY <1>3, <3>3, OwnServed
  <2> QED
    BY <1>4, <2>1, <2>2
<1>5. ASSUME \/ RemoveFinalizer(Kind) \/ AddFinalizer(Kind) \/ WritePending(Kind)
             \/ RecordFailed(Kind) \/ RecordSucceeded(Kind)
      PROVE  AbsentSound'
  <2>1. w[Kind].cr \in Resources
    BY <1>t, <1>5, WorkerType DEF RemoveFinalizer, AddFinalizer, WritePending, Deciding,
                                  RecordFailed, RecordSucceeded
  <2> QED
    BY <1>2, <1>3, <1>5, <2>1, ObjectWrites
<1>6. ASSUME \/ \E c \in Users \cup Personas : Observe(c)
             \/ AddNode(Kind, "createEdges")
             \/ CreateUser \/ DeleteUser \/ CreatePersona \/ UpdatePersona \/ DeletePersona
      PROVE  UNCHANGED objects
  BY <1>6 DEF Observe, AddNode, CreateUser, CreatePersona, Relate, UpdatePersona, Rewire,
              DeleteUser, DeletePersona, Delete
<1> QED
  BY <1>1, <1>2, <1>4, <1>5, <1>6, Steps

-----------------------------------------------------------------------------
(* The refinement. *)

LEMMA InitRefines == Init => Lifecycle!Init
<1> SUFFICES ASSUME Init
             PROVE  Lifecycle!Init
  OBVIOUS
<1>1. DOMAIN nodes = {}
  BY EmptySeq DEF Init
<1>2. Phase = [c \in Own |-> "absent"] /\ Name = [c \in Own |-> 0]
  BY OwnServed DEF Init, Phase, Name, Blank
<1>3. /\ Status = [n \in Uuids |-> "none"] /\ Owner = [n \in Uuids |-> NoCR]
      /\ Grants = [n \in Uuids |-> {}]
  BY <1>1 DEF Status, StatusOf, Owner, Grants, GrantsOf, Mine
<1> QED
  BY <1>2, <1>3 DEF Lifecycle!Init

LEMMA NamedNode ==
  ASSUME ProviderInv, NEW c \in Own
  PROVE  /\ Name[c] = objects[c].ext /\ Phase[c] = objects[c].phase
         /\ objects[c].ext # 0 => RecordedFor(objects[c].ext, c) /\ Mine(objects[c].ext)
         /\ 0 \notin Uuids
         /\ objects[c].incomplete => objects[c].phase \in {"present", "deleting"}
<1>1. c \in Managed
  BY OwnServed
<1>2. objects[c].ext # 0 => RecordedFor(objects[c].ext, c)
  BY <1>1 DEF ProviderInv, ObjectsSound
<1>3. objects[c].incomplete => objects[c].phase \in {"present", "deleting"}
  BY <1>1 DEF ProviderInv, ObjectsSound, Living
<1> QED
  BY <1>2, <1>3, BoundsAssumption DEF Name, Phase, RecordedFor, Mine, Uuids

(* What is on no access path grants nothing: its resource can go, or try again. *)
LEMMA NothingGiven ==
  ASSUME ProviderInv, NEW n, Mine(n) => ~Linked(n)
  PROVE  \A m : ~Gives(edges, n, m)
<1> SUFFICES ASSUME NEW m, Gives(edges, n, m)
             PROVE  FALSE
  OBVIOUS
<1>1. Mine(n) /\ nodes[n].live
  BY GivesType DEF ProviderInv
<1>2. CASE Kind = "User"
  <2>1. \E e \in edges : e.from = n
    BY <1>2 DEF Gives
  <2> QED
    BY <1>1, <1>2, <2>1, NamesAssumption DEF Linked, Mine, Own
<1>3. CASE Kind = "Persona"
  <2>1. \E e \in edges : e.type = "ATTACHED_TO" /\ e.to = n
    BY <1>3 DEF Gives
  <2> QED
    BY <1>1, <1>3, <2>1, NamesAssumption DEF Linked, Mine, Own
<1> QED
  BY <1>2, <1>3 DEF Kinds

LEMMA HarmlessIf ==
  ASSUME ProviderInv, NEW c \in Own, objects[c].ext # 0 => ~Linked(objects[c].ext)
  PROVE  Lifecycle!Harmless(c)
<1>1. PICK n : n = objects[c].ext
  OBVIOUS
<1>2. n \in Uuids => ~Linked(n)
  BY <1>1, NamedNode
<1>3. n \in Uuids => Grants[n] = {}
  BY <1>2, NothingGiven, GrantsAreEnds DEF ProviderInv, Ends
<1> QED
  BY <1>1, <1>3, NamedNode DEF Lifecycle!Harmless

(* A write that leaves the external name alone can change the phase. *)
LEMMA WriteMaps ==
  ASSUME ProviderInv, ProviderInv', UNCHANGED <<nodes, edges>>, NEW c \in Own, NEW o,
         objects' = [objects EXCEPT ![c] = o], o.ext = objects[c].ext
  PROVE  UNCHANGED <<Name, Status, Owner, Grants>> /\ Phase' = [Phase EXCEPT ![c] = o.phase]
<1>1. objects'[c] = o /\ \A d \in Own \ {c} : objects'[d] = objects[d]
  BY OwnServed DEF ProviderInv, TypeInv, TypeOK
<1>2. UNCHANGED <<Name, Status, Owner, Grants>>
  BY <1>1, SameNodes, SameGrants DEF Name, Mine
<1>3. PICK p : p = o.phase
  OBVIOUS
<1>4. Phase' = [d \in Own |-> IF d = c THEN p ELSE objects[d].phase]
  BY <1>1, <1>3 DEF Phase
<1> QED
  BY <1>2, <1>3, <1>4 DEF Phase

LEMMA GoneMaps ==
  ASSUME ProviderInv, ProviderInv', UNCHANGED <<nodes, edges>>, NEW c \in Own, NEW o,
         objects' = [objects EXCEPT ![c] = o], o.ext = objects[c].ext, o.phase = "gone",
         objects[c].phase \in {"present", "deleting"},
         objects[c].ext # 0 => ~Linked(objects[c].ext)
  PROVE  Lifecycle!Vanish(c)
<1>1. UNCHANGED <<Name, Status, Owner, Grants>> /\ Phase' = [Phase EXCEPT ![c] = "gone"]
  BY WriteMaps
<1>2. Lifecycle!Harmless(c) /\ Phase[c] \in {"present", "deleting"}
  BY HarmlessIf, NamedNode
<1> QED
  BY <1>1, <1>2 DEF Lifecycle!Vanish

(* Users of the API server apply resources and ask for their deletion. *)
LEMMA PeopleMaps ==
  ASSUME ProviderInv, AbsentSound, ProviderInv', NEW c \in Own, ApplyResource(c) \/ DeleteResource(c)
  PROVE  Lifecycle!Apply(c) \/ Lifecycle!RequestDeletion(c) \/ Lifecycle!Vanish(c)
<1>1. /\ UNCHANGED <<nodes, edges>> /\ TypeInv /\ c \in Resources /\ c \in Managed
      /\ objects \in [Resources -> Object] /\ objects[c] \in Object
  BY OwnServed DEF ApplyResource, WriteSpec, DeleteResource, ProviderInv, TypeInv, TypeOK
<1>2. CASE ApplyResource(c)
  <2>1. PICK refs, r :
          objects' = [objects EXCEPT ![c] = [Blank EXCEPT !.phase = "present", !.refs = refs, !.providerRef = r]]
    BY <1>2 DEF ApplyResource, WriteSpec
  <2>2. PICK o : o = [Blank EXCEPT !.phase = "present", !.refs = refs, !.providerRef = r]
    OBVIOUS
  <2>3. objects' = [objects EXCEPT ![c] = o] /\ o.phase = "present" /\ o.ext = 0
    BY <2>1, <2>2 DEF Blank
  <2>4. objects[c].phase = "absent"
    BY <1>2 DEF ApplyResource
  <2>5. objects[c].ext = 0
    BY <1>1, <2>4 DEF AbsentSound
  <2>6. UNCHANGED <<Name, Status, Owner, Grants>> /\ Phase' = [Phase EXCEPT ![c] = o.phase]
    BY <1>1, <2>3, <2>5, WriteMaps
  <2> QED
    BY <2>3, <2>4, <2>6, NamedNode DEF Lifecycle!Apply
<1>3. CASE DeleteResource(c)
  <2>1. PICK p : p = IF objects[c].finalizer THEN "deleting" ELSE "gone"
    OBVIOUS
  <2>2. PICK o : o = [objects[c] EXCEPT !.phase = p]
    OBVIOUS
  <2>3. /\ objects' = [objects EXCEPT ![c] = o] /\ o.ext = objects[c].ext /\ o.phase = p
        /\ objects[c].phase = "present"
    BY <1>1, <1>3, <2>1, <2>2 DEF DeleteResource, Object
  <2>4. CASE objects[c].finalizer
    <3>1. o.phase = "deleting"
      BY <2>1, <2>3, <2>4
    <3>2. UNCHANGED <<Name, Status, Owner, Grants>> /\ Phase' = [Phase EXCEPT ![c] = o.phase]
      BY <1>1, <2>3, WriteMaps
    <3> QED
      BY <2>3, <3>1, <3>2, NamedNode DEF Lifecycle!RequestDeletion
  <2>5. CASE ~objects[c].finalizer
    <3>1. objects[c].ext = 0
      BY <1>1, <2>3, <2>5 DEF ProviderInv, ObjectsSound, Living
    <3>2. o.phase = "gone"
      BY <2>1, <2>3, <2>5
    <3> QED
      BY <1>1, <2>3, <3>1, <3>2, GoneMaps
  <2> QED
    BY <2>4, <2>5
<1> QED
  BY <1>2, <1>3


(* The object as it is, but for the finalizer and the mark. *)
LEMMA KeptMaps ==
  ASSUME ProviderInv, ProviderInv', AddFinalizer(Kind) \/ WritePending(Kind)
  PROVE  UNCHANGED Lifecycle!lifecycle
<1>1. /\ w[Kind].step = "decide" /\ UNCHANGED <<nodes, edges>> /\ TypeInv
      /\ w[Kind].cr \in Resources /\ w[Kind].mg \in Object /\ objects \in [Resources -> Object]
  BY WorkerType DEF AddFinalizer, WritePending, Deciding, ProviderInv, TypeInv, TypeOK
<1>2. PICK o : /\ o.ext = w[Kind].mg.ext /\ o.phase = w[Kind].mg.phase
               /\ \E next : Write(Kind, o, next)
  <2>1. CASE AddFinalizer(Kind)
    <3>1. PICK o : o = [w[Kind].mg EXCEPT !.finalizer = TRUE]
      OBVIOUS
    <3>2. o.ext = w[Kind].mg.ext /\ o.phase = w[Kind].mg.phase
      BY <1>1, <3>1 DEF Object
    <3> QED
      BY <2>1, <3>1, <3>2 DEF AddFinalizer
  <2>2. CASE WritePending(Kind)
    <3>0. PICK marked \in BOOLEAN :
            \E next : Write(Kind, [w[Kind].mg EXCEPT !.incomplete = marked], next)
      BY <2>2 DEF WritePending, Marks
    <3>1. PICK o : o = [w[Kind].mg EXCEPT !.incomplete = marked]
      OBVIOUS
    <3>2. o.ext = w[Kind].mg.ext /\ o.phase = w[Kind].mg.phase
      BY <1>1, <3>1 DEF Object
    <3> QED
      BY <3>0, <3>1, <3>2
  <2> QED
    BY <2>1, <2>2
<1>3. \A c \in Own : objects'[c].ext = objects[c].ext /\ objects'[c].phase = objects[c].phase
  BY <1>1, <1>2, OwnServed DEF Write
<1> QED
  BY <1>1, <1>3, SameResources, SameNodes, SameGrants DEF Mine, Lifecycle!lifecycle

(* The finalizer goes when there is nothing to be found: nothing is granted. *)
LEMMA RemoveFinalizerMaps ==
  ASSUME ProviderInv, ProviderInv', RemoveFinalizer(Kind)
  PROVE  \/ UNCHANGED Lifecycle!lifecycle
         \/ \E c \in Own : Lifecycle!Vanish(c)
<1>1. PICK o : o = [w[Kind].mg EXCEPT !.phase = "gone", !.finalizer = FALSE]
  OBVIOUS
<1>2. PICK c : c = w[Kind].cr
  OBVIOUS
<1>3. /\ w[Kind].step = "decide" /\ w[Kind].mg.phase = "deleting" /\ w[Kind].obs = "absent"
      /\ Write(Kind, o, Idle) /\ UNCHANGED <<nodes, edges>> /\ TypeInv
  BY <1>1 DEF RemoveFinalizer, Deciding, ProviderInv
<1>4. c \in Own /\ w[Kind].mg \in Object
  BY <1>2, <1>3, WorkerType, OwnServed DEF Sane
<1>5. o.ext = w[Kind].mg.ext /\ o.phase = "gone"
  BY <1>1, <1>4 DEF Object
<1>6. CASE UNCHANGED objects
  BY <1>3, <1>6, SameResources, SameNodes, SameGrants DEF Mine, Lifecycle!lifecycle
<1>7. CASE objects[c] = w[Kind].mg /\ objects' = [objects EXCEPT ![c] = o]
  <2>1. objects[c].ext # 0 => ~Linked(objects[c].ext)
    BY <1>3, <1>7 DEF ProviderInv, WorkersSound, DecisionSound
  <2> QED
    BY <1>3, <1>4, <1>5, <1>7, <2>1, GoneMaps
<1> QED
  BY <1>2, <1>3, <1>6, <1>7 DEF Write

(* The object of a creation is there, and its last node, if any, grants nothing. *)
LEMMA CreatingFor ==
  ASSUME ProviderInv, w[Kind].step \in Creating
  PROVE  /\ w[Kind].cr \in Own
         /\ Phase[w[Kind].cr] \in {"present", "deleting"} /\ Lifecycle!Harmless(w[Kind].cr)
<1>1. PICK c : c = w[Kind].cr
  OBVIOUS
<1>2. c \in Own
  BY <1>1, WorkerType, OwnServed DEF ProviderInv, Sane, Creating
<1>3. Living(c) /\ (objects[c].ext # 0 => ~Linked(objects[c].ext))
  BY <1>1 DEF ProviderInv, WorkersSound, CreationSound
<1>4. Phase[c] \in {"present", "deleting"}
  BY <1>2, <1>3 DEF Phase, Living
<1> QED
  BY <1>1, <1>2, <1>3, <1>4, NamedNode, HarmlessIf

(* A node is made, or there are no numbers left. *)
LEMMA MakeMaps ==
  ASSUME ProviderInv, ProviderInv', AddNode(Kind, "createEdges")
  PROVE  \/ UNCHANGED Lifecycle!lifecycle
         \/ \E c \in Own, n \in Uuids : Lifecycle!Make(c, n)
<1>1. PICK c, f : c = w[Kind].cr /\ f = Unrecorded(w[Kind].mg.incomplete)
  OBVIOUS
<1>2. PICK new : new = Len(nodes')
  OBVIOUS
<1>f. f \in Open
  BY <1>1, OpenFate
<1>3. /\ w[Kind].step = "createNode" /\ w[Kind].step \in Creating
      /\ UNCHANGED <<objects, edges>> /\ TypeInv
      /\ \/ nodes' = Append(nodes, [owner |-> c, live |-> TRUE, fate |-> f])
         \/ UNCHANGED nodes
  BY <1>1, AddNodeType DEF ProviderInv, Creating
<1>4. UNCHANGED <<Phase, Name, Grants>>
  BY <1>3, SameResources, SameGrants
<1>5. CASE UNCHANGED nodes
  BY <1>3, <1>4, <1>5, SameNodes DEF Mine, Lifecycle!lifecycle
<1>6. CASE nodes' = Append(nodes, [owner |-> c, live |-> TRUE, fate |-> f])
  <2>1. c \in Own /\ c \in Managed
    BY <1>1, <1>3, CreatingFor, OwnServed
  <2>2. /\ DOMAIN nodes' = DOMAIN nodes \cup {new} /\ new \notin DOMAIN nodes
        /\ \A n \in DOMAIN nodes : nodes'[n] = nodes[n]
        /\ nodes'[new] = [owner |-> c, live |-> TRUE, fate |-> f]
    BY <1>2, <1>f, <1>6, <2>1, NodeAdded
  <2>3. new \in Uuids
    <3>1. /\ \A n \in DOMAIN nodes' : n \in 1 .. Len(nodes')
          /\ Len(nodes') <= MaxNodes /\ Len(nodes') \in Nat
      BY LenProperties DEF ProviderInv, TypeInv, TypeOK
    <3> QED
      BY <2>2, <3>1, BoundsAssumption DEF Uuids
  <2>4. StatusOf(new) = "none" /\ Owner[new] = NoCR
    BY <2>2, <2>3 DEF StatusOf, Mine, Owner
  <2>5. StatusOf(new)' = "inflight"
    BY <1>f, <2>1, <2>2 DEF StatusOf, Mine, Open
  <2>6. \A n \in Uuids \ {new} : StatusOf(n)' = StatusOf(n)
    BY <2>2 DEF StatusOf, Mine
  <2>7. Status[new] = "none" /\ Status' = [Status EXCEPT ![new] = "inflight"]
    BY <2>3, <2>4, <2>5, <2>6 DEF Status
  <2>8. Owner' = [Owner EXCEPT ![new] = c]
    <3>1. Mine(new)' /\ nodes'[new].owner = c
      BY <2>1, <2>2 DEF Mine
    <3>2. \A n \in Uuids \ {new} : (Mine(n)' <=> Mine(n)) /\ (Mine(n) => nodes'[n] = nodes[n])
      BY <2>2 DEF Mine
    <3>3. Owner' = [n \in Uuids |-> IF n = new THEN c ELSE Owner[n]]
      BY <3>1, <3>2 DEF Owner
    <3> QED
      BY <3>3 DEF Owner
  <2>9. Lifecycle!Make(c, new)
    BY <1>1, <1>3, <1>4, <2>7, <2>8, CreatingFor DEF Lifecycle!Make
  <2> QED
    BY <2>1, <2>3, <2>9
<1> QED
  BY <1>3, <1>5, <1>6

(* What the second transaction of a creation adds is given to the node made. *)
LEMMA GrantMaps ==
  ASSUME ProviderInv, LifeInv, ProviderInv',
         (Kind = "User" /\ CreateUser) \/ (Kind = "Persona" /\ CreatePersona)
  PROVE  \E n \in Uuids, refs \in SUBSET Uuids : Lifecycle!Grant(n, refs)
<1>1. PICK u : u = w[Kind].made
  OBVIOUS
<1>2. w[Kind].step = "createEdges" /\ UNCHANGED <<objects, nodes>>
  BY DEF CreateUser, CreatePersona, Relate
<1>3. u \in DOMAIN nodes /\ nodes[u].live /\ nodes[u].fate \in Open /\ nodes[u].owner \in Own
  BY <1>1, <1>2, MadeOpen, OwnServed
<1>4. u \in Uuids
  BY <1>3, NodesType, BoundsAssumption DEF ProviderInv, Uuids
<1>5. \A n \in Uuids \ {u} : \A m : Gives(edges', n, m) <=> Gives(edges, n, m)
  <2>1. CASE Kind = "User" /\ CreateUser
    BY <1>1, <2>1 DEF CreateUser, Relate, G!AddUserPersonaRelation, Gives
  <2>2. CASE Kind = "Persona" /\ CreatePersona
    BY <1>1, <2>2 DEF CreatePersona, Relate, G!AddPersonaPermissionSetRelation, Gives
  <2> QED
    BY <2>1, <2>2
<1>6. Grants[u] = {}
  BY <1>1, <1>2, <1>4, GrantsAreEnds DEF ProviderInv, LifeInv, FreshSound, Ends
<1>7. PICK refs \in SUBSET Uuids : refs = Ends(edges', u)
  BY DEF Ends
<1>8. \A n \in Uuids \ {u} : Ends(edges', n) = Ends(edges, n)
  BY <1>5 DEF Ends
<1>9. Grants' = [Grants EXCEPT ![u] = refs]
  BY <1>4, <1>7, <1>8, GrantsAreEnds, GrantsAfter DEF ProviderInv
<1>10. Status[u] = "inflight"
  BY <1>3, <1>4 DEF Status, StatusOf, Mine, Open
<1>11. UNCHANGED <<Phase, Name, Status, Owner>>
  BY <1>2, SameResources, SameNodes DEF Mine
<1>12. Lifecycle!Grant(u, refs)
  BY <1>6, <1>9, <1>10, <1>11 DEF Lifecycle!Grant
<1> QED
  BY <1>4, <1>12


(* The outcome of a creation: the resource names the node, or gives it up. *)
LEMMA RecordMaps ==
  ASSUME ProviderInv, ProviderInv', RecordFailed(Kind) \/ RecordSucceeded(Kind)
  PROVE  \/ UNCHANGED Lifecycle!lifecycle
         \/ \E c \in Own, n \in Uuids : Lifecycle!Name(c, n) \/ Lifecycle!Abandon(n)
<1>1. PICK c, made : c = w[Kind].cr /\ made = w[Kind].made
  OBVIOUS
<1>2. PICK f \in {"recorded", "failed"}, ext \in 0 .. Foreign, b \in BOOLEAN :
        /\ objects' = [objects EXCEPT ![c] =
                         [objects[c] EXCEPT !.incomplete = FALSE, !.failed = b, !.ext = ext]]
        /\ nodes' = IF made = 0 THEN nodes ELSE [nodes EXCEPT ![made].fate = f]
        /\ IF w[Kind].step = "recordFailed" THEN f = "failed" /\ ext = objects[c].ext
                                            ELSE f = "recorded" /\ ext = made
  BY <1>1, RecordType DEF ProviderInv
<1>3. /\ w[Kind].step \in {"recordFailed", "recordSucceeded"} /\ w[Kind].step \in Creating
      /\ UNCHANGED edges /\ TypeInv
  BY RecordType DEF ProviderInv, Creating
<1>4. c \in Own /\ c \in Resources /\ objects[c] \in Object /\ objects \in [Resources -> Object]
  BY <1>1, <1>3, CreatingFor, OwnServed DEF TypeInv, TypeOK
<1>5. PICK o : o = [objects[c] EXCEPT !.incomplete = FALSE, !.failed = b, !.ext = ext]
  OBVIOUS
<1>6. /\ o.ext = ext /\ o.phase = objects[c].phase /\ objects'[c] = o
      /\ \A d \in Own \ {c} : objects'[d] = objects[d]
  BY <1>2, <1>4, <1>5, OwnServed DEF Object
<1>7. UNCHANGED Phase /\ Name' = [Name EXCEPT ![c] = ext]
  BY <1>4, <1>6 DEF Phase, Name
<1>8. UNCHANGED Grants
  BY <1>3, SameGrants
<1>9. CASE made = 0
  <2>1. w[Kind].step = "recordFailed"
    BY <1>1, <1>3, <1>9, MadeOpen
  <2>2. ext = objects[c].ext /\ UNCHANGED nodes
    BY <1>2, <1>9, <2>1
  <2>3. UNCHANGED Name
    BY <1>4, <1>7, <2>2 DEF Name
  <2> QED
    BY <1>7, <1>8, <2>2, <2>3, SameNodes DEF Mine, Lifecycle!lifecycle
<1>10. CASE made # 0
  <2>1. made \in DOMAIN nodes
    BY <1>1, <1>10, WorkerType, NodesType, <1>3 DEF Sane
  <2>2. nodes[made].owner = c /\ nodes[made].live /\ nodes[made].fate \in Open
    BY <1>1, <1>3, <1>10 DEF ProviderInv, WorkersSound, CreationSound
  <2>3. made \in Uuids
    BY <1>3, <2>1, NodesType, BoundsAssumption DEF Uuids
  <2>4. nodes' = [nodes EXCEPT ![made].fate = f]
    BY <1>2, <1>10
  <2>5. /\ DOMAIN nodes' = DOMAIN nodes
        /\ \A n \in DOMAIN nodes : /\ nodes'[n].owner = nodes[n].owner
                                   /\ nodes'[n].live = nodes[n].live
                                   /\ nodes'[n].fate = IF n = made THEN f ELSE nodes[n].fate
    BY <1>3, <2>4, FateRecorded
  <2>6. UNCHANGED Owner
    BY <2>5 DEF Owner, Mine
  <2>7. \A n \in Uuids \ {made} : StatusOf(n)' = StatusOf(n)
    BY <2>5 DEF StatusOf, Mine
  <2>8. Status[made] = "inflight" /\ Owner[made] = c
    BY <1>4, <2>1, <2>2, <2>3 DEF Status, StatusOf, Owner, Mine, Open
  <2>9. StatusOf(made)' = f
    BY <1>4, <2>1, <2>2, <2>5 DEF StatusOf, Mine
  <2>10. Status' = [Status EXCEPT ![made] = f]
    <3>1. Status' = [n \in Uuids |-> IF n = made THEN f ELSE StatusOf(n)]
      BY <2>7, <2>9 DEF Status
    <3> QED
      BY <3>1 DEF Status
  <2>11. CASE w[Kind].step = "recordFailed"
    <3>1. f = "failed" /\ ext = objects[c].ext
      BY <1>2, <2>11
    <3>2. UNCHANGED Name
      BY <1>4, <1>7, <3>1 DEF Name
    <3>3. Lifecycle!Abandon(made)
      BY <1>7, <1>8, <2>6, <2>8, <2>10, <3>1, <3>2 DEF Lifecycle!Abandon
    <3> QED
      BY <1>4, <2>3, <3>3
  <2>12. CASE w[Kind].step = "recordSucceeded"
    <3>1. f = "recorded" /\ ext = made
      BY <1>2, <2>12
    <3>2. Phase[c] \in {"present", "deleting"} /\ Lifecycle!Harmless(c)
      BY <1>1, <1>3, CreatingFor
    <3>3. Lifecycle!Name(c, made)
      BY <1>7, <1>8, <2>6, <2>8, <2>10, <3>1, <3>2 DEF Lifecycle!Name
    <3> QED
      BY <1>4, <2>3, <3>3
  <2> QED
    BY <1>3, <2>11, <2>12
<1> QED
  BY <1>9, <1>10

(* The node of a resource that is being deleted goes, once. *)
LEMMA DeleteMaps ==
  ASSUME ProviderInv, LifeInv, ProviderInv', Delete(Kind)
  PROVE  \/ UNCHANGED Lifecycle!lifecycle
         \/ \E c \in Own : Lifecycle!Destroy(c)
<1>1. PICK c, x : c = w[Kind].cr /\ x = w[Kind].mg.ext
  OBVIOUS
<1>2. /\ w[Kind].step = "decide" /\ w[Kind].mg.phase = "deleting" /\ w[Kind].obs # "absent"
      /\ nodes' = [nodes EXCEPT ![x].live = FALSE] /\ edges' = G!DetachDelete(edges, x)
      /\ UNCHANGED objects /\ TypeInv /\ EdgesSound
  BY <1>1 DEF Delete, Deciding, ProviderInv
<1>3. c \in Own
  BY <1>1, <1>2, WorkerType, OwnServed DEF Sane
<1>4. x # 0 /\ objects[c].ext = x /\ objects[c].phase = "deleting"
  BY <1>1, <1>2 DEF LifeInv, CopySound
<1>5. x \in DOMAIN nodes /\ nodes[x].owner = c /\ nodes[x].fate = "recorded"
  BY <1>3, <1>4, NamedNode DEF RecordedFor
<1>6. x \in Uuids
  BY <1>2, <1>5, NodesType, BoundsAssumption DEF Uuids
<1>7. /\ DOMAIN nodes' = DOMAIN nodes
      /\ \A n \in DOMAIN nodes : /\ nodes'[n].owner = nodes[n].owner
                                 /\ nodes'[n].fate = nodes[n].fate
                                 /\ nodes'[n].live <=> nodes[n].live /\ n # x
  BY <1>2, NodeDies
<1>8. \A n, m : Gives(edges', n, m) <=> Gives(edges, n, m) /\ n # x
  <2>1. ASSUME NEW n, NEW m
        PROVE  Gives(edges', n, m) <=> Gives(edges, n, m) /\ m # x /\ n # x
    BY <1>2 DEF Gives, G!DetachDelete
  <2>2. \A n : ~Gives(edges, n, x)
    BY <1>2, <1>3, <1>5, GivesType DEF Mine
  <2> QED
    BY <2>1, <2>2
<1>9. Grants' = [Grants EXCEPT ![x] = {}]
  <2>1. \A n \in Uuids : Ends(edges', n) = IF n = x THEN {} ELSE Ends(edges, n)
    BY <1>8 DEF Ends
  <2> QED
    BY <1>6, <2>1, GrantsAreEnds, GrantsAfter DEF ProviderInv
<1>10. UNCHANGED <<Phase, Name, Owner>>
  BY <1>2, <1>7 DEF Phase, Name, Owner, Mine
<1>11. \A n \in Uuids \ {x} : StatusOf(n)' = StatusOf(n)
  BY <1>7 DEF StatusOf, Mine
<1>12. StatusOf(x)' = "destroyed"
  BY <1>3, <1>5, <1>7 DEF StatusOf, Mine
<1>13. Status' = [Status EXCEPT ![x] = "destroyed"]
  <2>1. Status' = [n \in Uuids |-> IF n = x THEN "destroyed" ELSE StatusOf(n)]
    BY <1>11, <1>12 DEF Status
  <2> QED
    BY <2>1 DEF Status
<1>14. CASE nodes[x].live
  <2>1. Status[x] = "recorded" /\ Phase[c] = "deleting" /\ Name[c] = x
    BY <1>3, <1>4, <1>5, <1>6, <1>14, NamedNode DEF Status, StatusOf, Mine
  <2>2. Lifecycle!Destroy(c)
    BY <1>6, <1>9, <1>10, <1>13, <2>1 DEF Lifecycle!Destroy
  <2> QED
    BY <1>3, <2>2
<1>15. CASE ~nodes[x].live
  <2>1. Status[x] = "destroyed"
    BY <1>3, <1>5, <1>6, <1>15 DEF Status, StatusOf, Mine
  <2>2. UNCHANGED Status
    BY <1>13, <2>1 DEF Status
  <2>3. \A m : ~Gives(edges, x, m)
    BY <1>2, <1>15, GivesType
  <2>4. UNCHANGED Grants
    BY <1>8, <2>3, SameGrants
  <2> QED
    BY <1>10, <2>2, <2>4 DEF Lifecycle!lifecycle
<1> QED
  BY <1>14, <1>15

(* An update of a Persona gives the same to each node that it finds linked. *)
LEMMA UpdateMaps ==
  ASSUME ProviderInv, ProviderInv', Kind = "Persona", UpdatePersona
  PROVE  \E N \in SUBSET Uuids, refs \in SUBSET Uuids : Lifecycle!Rewire(N, refs)
<1> DEFINE live  == Labelled("PermissionSet")
           named == Named("Persona", w["Persona"].cr)
           old   == {e \in edges : e.to \in named /\ e.type = "ATTACHED_TO" /\ e.from \in live}
           N     == {e.to : e \in old}
           refs  == w["Persona"].mg.values \cap live
<1>1. /\ edges' = (edges \ old) \cup [from: refs, type: {"ATTACHED_TO"}, to: N]
      /\ UNCHANGED <<objects, nodes>> /\ TypeInv /\ EdgesSound
  BY DEF UpdatePersona, Rewire, G!UpdatePersona, ProviderInv
<1>2. N \subseteq Uuids
  BY <1>1, Relationship
<1>3. refs \subseteq Uuids
  BY <1>1, LabelsExist, NodesType, BoundsAssumption DEF Uuids
<1>4. \A e \in edges : e.type = "ATTACHED_TO" => (e \in old <=> e.to \in N)
  <2>1. ASSUME NEW e \in edges, e.type = "ATTACHED_TO", e.to \in named
        PROVE  e \in old
    BY <1>1, <2>1, Relationship, LabelledType
  <2> QED
    BY <2>1
<1>5. \A n \in N : \E m \in Uuids : Gives(edges, n, m)
  <2>1. SUFFICES ASSUME NEW e \in old
                 PROVE  \E m \in Uuids : Gives(edges, e.to, m)
    OBVIOUS
  <2>2. e \in edges /\ e.type = "ATTACHED_TO"
    OBVIOUS
  <2>3. e.from \in Uuids /\ e = [from |-> e.from, type |-> "ATTACHED_TO", to |-> e.to]
    BY <1>1, <2>2, Relationship
  <2>4. Gives(edges, e.to, e.from)
    BY <2>2, <2>3 DEF Gives
  <2> QED
    BY <2>3, <2>4
<1> HIDE DEF old, N, refs, live, named
<1>6. \A n, m : Gives(edges', n, m) <=> IF n \in N THEN m \in refs ELSE Gives(edges, n, m)
  <2>1. SUFFICES ASSUME NEW n, NEW m
                 PROVE  Gives(edges', n, m) <=> IF n \in N THEN m \in refs ELSE Gives(edges, n, m)
    OBVIOUS
  <2>2. PICK e : e = [from |-> m, type |-> "ATTACHED_TO", to |-> n]
    OBVIOUS
  <2>3. e.from = m /\ e.to = n /\ e.type = "ATTACHED_TO"
    BY <2>2
  <2>4. e \in [from: refs, type: {"ATTACHED_TO"}, to: N] <=> m \in refs /\ n \in N
    BY <2>2
  <2>5. e \in edges' <=> (e \in edges /\ n \notin N) \/ (m \in refs /\ n \in N)
    BY <1>1, <1>4, <2>3, <2>4
  <2> QED
    BY <2>2, <2>5 DEF Gives
<1>7. \A n \in Uuids : Ends(edges', n) = IF n \in N THEN refs ELSE Ends(edges, n)
  BY <1>3, <1>6 DEF Ends
<1>8. Grants' = [n \in Uuids |-> IF n \in N THEN refs ELSE Grants[n]]
  BY <1>7, GrantsAreEnds, GrantsAfter DEF ProviderInv
<1>9. \A n \in N : Grants[n] # {}
  BY <1>2, <1>5, GrantsAreEnds DEF ProviderInv, Ends
<1>10. UNCHANGED <<Phase, Name, Status, Owner>>
  BY <1>1, SameResources, SameNodes DEF Mine
<1>11. Lifecycle!Rewire(N, refs)
  BY <1>8, <1>9, <1>10 DEF Lifecycle!Rewire
<1> QED
  BY <1>2, <1>3, <1>11

LEMMA StepRefines ==
  ASSUME ProviderInv, LifeInv, AbsentSound, ProviderInv', [Next]_vars
  PROVE  Lifecycle!Next \/ UNCHANGED Lifecycle!lifecycle
<1>1. CASE Aside
  BY <1>1, AsideMaps
<1>2. ASSUME NEW c \in Users \cup Personas, Observe(c)
      PROVE  Lifecycle!Next \/ UNCHANGED Lifecycle!lifecycle
  BY <1>2, ObserveLife, AsideMaps
<1>3. ASSUME NEW c \in Own, ApplyResource(c) \/ DeleteResource(c)
      PROVE  Lifecycle!Next
  BY <1>3, PeopleMaps DEF Lifecycle!Next
<1>4. CASE RemoveFinalizer(Kind)
  BY <1>4, RemoveFinalizerMaps DEF Lifecycle!Next
<1>5. CASE AddFinalizer(Kind) \/ WritePending(Kind)
  BY <1>5, KeptMaps
<1>6. CASE RecordFailed(Kind) \/ RecordSucceeded(Kind)
  BY <1>6, RecordMaps DEF Lifecycle!Next
<1>7. CASE AddNode(Kind, "createEdges")
  BY <1>7, MakeMaps DEF Lifecycle!Next
<1>8. CASE (Kind = "User" /\ CreateUser) \/ (Kind = "Persona" /\ CreatePersona)
  BY <1>8, GrantMaps DEF Lifecycle!Next
<1>9. CASE (Kind = "User" /\ DeleteUser) \/ (Kind = "Persona" /\ DeletePersona)
  BY <1>9, DeleteMaps DEF DeleteUser, DeletePersona, Lifecycle!Next
<1>10. CASE Kind = "Persona" /\ UpdatePersona
  BY <1>10, UpdateMaps DEF Lifecycle!Next
<1> QED
  BY <1>1, <1>2, <1>3, <1>4, <1>5, <1>6, <1>7, <1>8, <1>9, <1>10, Steps

-----------------------------------------------------------------------------
LEMMA LifeInductive == Spec => [](ProviderInv /\ LifeInv /\ AbsentSound)
<1>1. Init => AbsentSound
  BY OwnServed DEF Init, AbsentSound, Blank
<1>2. Init => ProviderInv /\ LifeInv /\ AbsentSound
  BY <1>1, InitSound, InitLife
<1>3. /\ ProviderInv /\ LifeInv /\ AbsentSound /\ [Next]_vars
      => ProviderInv' /\ LifeInv' /\ AbsentSound'
  BY NextSound, NextLife, NextAbsent
<1> QED
  BY <1>2, <1>3, PTL DEF Spec

(* Every step of the provider process, seen as a User or as a Persona controller *)
(* sees it, is a step of ExternalLifecycle or changes nothing there: the other   *)
(* controllers, and the panics they end it with, take references away from       *)
(* its nodes and do nothing else to them, nor to what its resources name.        *)
THEOREM Refinement == Spec => ImplementsLifecycle
<1>1. ProviderInv /\ LifeInv /\ AbsentSound /\ ProviderInv' /\ [Next]_vars
        => [Lifecycle!Next]_(Lifecycle!lifecycle)
  BY StepRefines
<1> QED
  BY <1>1, LifeInductive, InitRefines, PTL DEF Spec, ImplementsLifecycle, Lifecycle!Spec


=============================================================================
