--------------------------- MODULE ProviderProofs ---------------------------
(***************************************************************************)
(* Theorems about Provider, for every number of resources of each kind, of   *)
(* nodes and of upsets: type correctness, that creations of unknown outcome  *)
(* stay marked, and that every access path is accounted for.                 *)
(***************************************************************************)
EXTENDS Provider, SequenceTheorems, TLAPS

-----------------------------------------------------------------------------
(* The inductive invariant. *)

Serves(k) == IF k = "User" THEN Users ELSE Personas

(* The part of a reconcile between the mark of a creation and its outcome. *)
Creating == {"createNode", "createEdges", "recordFailed", "recordSucceeded"}

(* What the worker of kind k may be, x, where the nodes are N. *)
Sane(k, x, N) ==
  /\ x.step # "idle" => x.cr \in Serves(k)
  /\ x.made \in 0 .. Len(N)
  /\ x.made # 0 => x.step \in Creating \ {"createNode"}
  /\ x.step \in {"createEdges", "recordSucceeded"} => x.made # 0

WorkerOK == \A k \in Kinds : Sane(k, w[k], nodes)

TypeInv == TypeOK /\ WorkerOK

(* Relationships join live nodes, of the labels of an access path. *)
EdgesSound ==
  \A e \in edges :
    /\ nodes[e.from].live /\ nodes[e.to].live /\ nodes[e.to].owner \in Personas
    /\ \/ e.type = "GRANTED" /\ nodes[e.from].owner \in Users
       \/ e.type = "ATTACHED_TO" /\ nodes[e.from].owner \in PermissionSets

(* A node that may be part of an access path: what an observation by uuid finds. *)
Linked(n) ==
  /\ nodes[n].live
  /\ nodes[n].owner \in Users => \E e \in edges : e.from = n
  /\ nodes[n].owner \in Personas => \E e \in edges : e.type = "ATTACHED_TO" /\ e.to = n

RecordedFor(n, c) == n \in DOMAIN nodes /\ nodes[n].owner = c /\ nodes[n].fate = "recorded"

(* A resource names a node that was recorded for it; what names a node or has *)
(* a creation under way does not go without its finalizer.                    *)
ObjectsSound ==
  \A c \in Managed :
    /\ objects[c].incomplete => objects[c].finalizer /\ Living(c)
    /\ objects[c].ext # 0 =>
         RecordedFor(objects[c].ext, c) /\ (Living(c) => objects[c].finalizer)

(* A worker that decides has a copy without a creation under way; if it found *)
(* nothing, there is nothing to be found any more.                            *)
DecisionSound(k) ==
  w[k].step = "decide" =>
    /\ ~w[k].mg.incomplete /\ w[k].mg.phase \in {"present", "deleting"}
    /\ w[k].mg.ext # 0 =>
         RecordedFor(w[k].mg.ext, w[k].cr) /\ (w[k].obs = "absent" => ~Linked(w[k].mg.ext))

(* The fate of a node while nobody has recorded it. *)
Open == {"unknown", "hidden"}

(* The creation of worker k, if it is at one: its resource has a finalizer, and *)
(* the mark that its node will count on; the node it made is the only one of    *)
(* unknown outcome, and the node the resource still names is on no access path  *)
(* any more.                                                                  *)
CreationSound(k) ==
  w[k].step \in Creating =>
    /\ objects[w[k].cr].finalizer /\ Living(w[k].cr)
    /\ w[k].step = "createNode" /\ w[k].mg.incomplete => objects[w[k].cr].incomplete
    /\ \A m \in DOMAIN nodes :
         nodes[m].owner = w[k].cr /\ nodes[m].fate = "unknown" => m = w[k].made
    /\ w[k].made # 0 =>
         nodes[w[k].made].owner = w[k].cr /\ nodes[w[k].made].live
           /\ nodes[w[k].made].fate \in Open
    /\ objects[w[k].cr].ext # 0 => ~Linked(objects[w[k].cr].ext)

WorkersSound == \A k \in Kinds : DecisionSound(k) /\ CreationSound(k)

(* AccessAccountedFor, node by node. *)
Accounted ==
  \A n \in DOMAIN nodes :
    nodes[n].fate = "recorded" /\ Linked(n) =>
      objects[nodes[n].owner].ext = n /\ Living(nodes[n].owner)

ProviderInv ==
  /\ TypeInv
  /\ EdgesSound
  /\ ObjectsSound
  /\ WorkersSound
  /\ UnknownOutcomeMarked
  /\ Accounted

-----------------------------------------------------------------------------
(* Kinds, numbers and sequences. *)

LEMMA KindsOfResources ==
  /\ \A c \in Users : KindOf(c) = "User"
  /\ \A c \in Personas : KindOf(c) = "Persona"
  /\ \A c \in PermissionSets : KindOf(c) = "PermissionSet"
  /\ \A c \in Managed : /\ KindOf(c) = "User" <=> c \in Users
                        /\ KindOf(c) = "Persona" <=> c \in Personas
                        /\ KindOf(c) = "PermissionSet" <=> c \in PermissionSets
BY NamesAssumption DEF KindOf, Managed

LEMMA KindsServe ==
  /\ \A k \in Kinds : Serves(k) \subseteq Managed /\ \A c \in Serves(k) : KindOf(c) = k
  /\ Serves("User") \cap Serves("Persona") = {}
  /\ \A k \in Kinds : Serves(k) \cap PermissionSets = {}
  /\ \A c \in Users \cup Personas : KindOf(c) \in Kinds /\ c \in Serves(KindOf(c))
BY NamesAssumption DEF Serves, Kinds, KindOf, Managed

LEMMA ManagedAreResources ==
  Managed \subseteq Resources /\ NoCR \notin Resources /\ Managed \cap Teams = {}
BY NamesAssumption DEF Managed, Resources

(* Nodes are appended: the old ones keep their numbers. *)
LEMMA Appended ==
  ASSUME NEW S, NEW s \in Seq(S), NEW e \in S
  PROVE  /\ Append(s, e) \in Seq(S)
         /\ Len(Append(s, e)) = Len(s) + 1 /\ Len(s) \in Nat
         /\ DOMAIN Append(s, e) = DOMAIN s \cup {Len(s) + 1}
         /\ Len(s) + 1 \notin DOMAIN s
         /\ \A i \in DOMAIN s : Append(s, e)[i] = s[i]
         /\ Append(s, e)[Len(s) + 1] = e
BY AppendProperties, LenProperties

(* ... and rewritten in place. *)
LEMMA Rewritten ==
  ASSUME NEW S, NEW s \in Seq(S), NEW t, t \in [DOMAIN s -> S]
  PROVE  t \in Seq(S) /\ DOMAIN t = DOMAIN s /\ Len(t) = Len(s)
<1>1. Len(s) \in Nat /\ DOMAIN s = 1 .. Len(s)
  BY LenProperties
<1>2. t \in Seq(S)
  BY <1>1, SeqDef
<1> QED
  BY <1>1, <1>2, LenProperties

-----------------------------------------------------------------------------
(* Type correctness. *)

LEMMA IdleType ==
  /\ Blank \in Object /\ Idle \in Worker
  /\ Idle.step = "idle" /\ Idle.made = 0
  /\ \A k : Sane(k, Idle, nodes) /\ Sane(k, Idle, nodes)'
BY BoundsAssumption DEF Blank, Object, Foreign, Idle, Worker, Sane

LEMMA InitType == Init => TypeInv
<1>1. <<>> \in Seq(Node) /\ Len(<<>>) = 0
  BY EmptySeq
<1> QED
  BY <1>1, IdleType, BoundsAssumption DEF Init, TypeInv, TypeOK, WorkerOK

LEMMA NodesType ==
  ASSUME TypeInv
  PROVE  /\ Len(nodes) \in Nat /\ DOMAIN nodes = 1 .. Len(nodes) /\ Len(nodes) <= MaxNodes
         /\ \A n \in DOMAIN nodes : nodes[n] \in Node /\ n \in Nat /\ n # 0
         /\ 0 \notin DOMAIN nodes /\ Foreign \notin DOMAIN nodes
BY BoundsAssumption, LenProperties, ElementOfSeq DEF TypeInv, TypeOK, Foreign

LEMMA WorkersContinue ==
  ASSUME TypeInv, NEW k \in Kinds, NEW x \in Worker, w' = [w EXCEPT ![k] = x],
         Sane(k, x, nodes'), Len(nodes') \in Nat, Len(nodes') >= Len(nodes)
  PROVE  w' \in [Kinds -> Worker] /\ WorkerOK'
<1>1. w' \in [Kinds -> Worker]
  BY DEF TypeInv, TypeOK
<1>2. ASSUME NEW j \in Kinds
      PROVE  Sane(j, w[j], nodes')
  BY NodesType DEF TypeInv, WorkerOK, Sane
<1>3. ASSUME NEW j \in Kinds
      PROVE  w'[j] = IF j = k THEN x ELSE w[j]
  BY DEF TypeInv, TypeOK
<1> QED
  BY <1>1, <1>2, <1>3 DEF WorkerOK

LEMMA WorkersEnd ==
  ASSUME TypeInv, NEW k \in Kinds, Quit(k), Len(nodes') \in Nat, Len(nodes') >= Len(nodes)
  PROVE  w' \in [Kinds -> Worker] /\ WorkerOK'
<1>1. Sane(k, Idle, nodes')
  BY DEF Sane, Idle
<1> QED
  BY <1>1, IdleType, WorkersContinue DEF Quit, Continue

LEMMA WorkersRestart ==
  ASSUME TypeInv, Restart, UNCHANGED nodes
  PROVE  w' \in [Kinds -> Worker] /\ WorkerOK'
BY IdleType DEF Restart, WorkerOK

LEMMA UpsetsType ==
  ASSUME TypeInv, Calmly \/ Upset
  PROVE  upsets' \in 0 .. MaxUpsets
BY BoundsAssumption DEF TypeInv, TypeOK, Calmly, Upset

LEMMA WorkerType ==
  ASSUME TypeInv, NEW k \in Kinds
  PROVE  /\ w[k] \in Worker /\ w[k].mg \in Object /\ w[k].made \in 0 .. MaxNodes
         /\ Sane(k, w[k], nodes)
         /\ w[k].step # "idle" => w[k].cr \in Managed /\ w[k].cr \in Resources
BY ManagedAreResources, KindsServe DEF TypeInv, TypeOK, WorkerOK, Worker, Sane

(* The object is written, or not, and the reconcile goes on, or not. *)
LEMMA WriteType ==
  ASSUME TypeInv, NEW k \in Kinds, w[k].step # "idle", NEW o \in Object,
         NEW x \in Worker, Sane(k, x, nodes), Write(k, o, x), UNCHANGED <<usable, nodes, edges>>
  PROVE  TypeInv'
<1>1. (Continue(k, x) \/ Quit(k)) /\ (Calmly \/ Upset)
      /\ (objects' = [objects EXCEPT ![w[k].cr] = o] \/ UNCHANGED objects)
  BY DEF Write
<1>2. objects' \in [Resources -> Object]
  BY <1>1, WorkerType DEF TypeInv, TypeOK
<1>3. w' \in [Kinds -> Worker] /\ WorkerOK'
  BY <1>1, NodesType, WorkersContinue, WorkersEnd DEF Continue
<1> QED
  BY <1>1, <1>2, <1>3, UpsetsType DEF TypeInv, TypeOK

(* A node dies, or the outcome of its creation is recorded. *)
LEMMA NodeDies ==
  ASSUME TypeInv, NEW n, nodes' = [nodes EXCEPT ![n].live = FALSE]
  PROVE  /\ nodes' \in Seq(Node) /\ DOMAIN nodes' = DOMAIN nodes /\ Len(nodes') = Len(nodes)
         /\ \A m \in DOMAIN nodes : /\ nodes'[m].owner = nodes[m].owner
                                    /\ nodes'[m].fate = nodes[m].fate
                                    /\ nodes'[m].live <=> nodes[m].live /\ m # n
<1>1. nodes' \in [DOMAIN nodes -> Node]
  BY NodesType DEF Node
<1>2. nodes \in Seq(Node)
  BY DEF TypeInv, TypeOK
<1>3. \A m \in DOMAIN nodes : /\ nodes'[m].owner = nodes[m].owner
                              /\ nodes'[m].fate = nodes[m].fate
                              /\ nodes'[m].live <=> nodes[m].live /\ m # n
  BY NodesType DEF Node
<1> QED
  BY <1>1, <1>2, <1>3, Rewritten

LEMMA FateRecorded ==
  ASSUME TypeInv, NEW n, NEW f \in {"recorded", "failed"}, nodes' = [nodes EXCEPT ![n].fate = f]
  PROVE  /\ nodes' \in Seq(Node) /\ DOMAIN nodes' = DOMAIN nodes /\ Len(nodes') = Len(nodes)
         /\ \A m \in DOMAIN nodes : /\ nodes'[m].owner = nodes[m].owner
                                    /\ nodes'[m].live = nodes[m].live
                                    /\ nodes'[m].fate = IF m = n THEN f ELSE nodes[m].fate
<1>1. nodes' \in [DOMAIN nodes -> Node]
  BY NodesType DEF Node
<1>2. nodes \in Seq(Node)
  BY DEF TypeInv, TypeOK
<1>3. \A m \in DOMAIN nodes : /\ nodes'[m].owner = nodes[m].owner
                              /\ nodes'[m].live = nodes[m].live
                              /\ nodes'[m].fate = IF m = n THEN f ELSE nodes[m].fate
  BY NodesType DEF Node
<1> QED
  BY <1>1, <1>2, <1>3, Rewritten

(* A node is made for c. *)
LEMMA NodeMade ==
  ASSUME TypeInv, NEW c \in Managed, NEW f \in Open \cup {"recorded", "failed"},
         nodes' = Append(nodes, [owner |-> c, live |-> TRUE, fate |-> f])
  PROVE  /\ nodes' \in Seq(Node) /\ Len(nodes') = Len(nodes) + 1
         /\ \A m \in DOMAIN nodes' : m <= Len(nodes')
         /\ DOMAIN nodes' = DOMAIN nodes \cup {Len(nodes')} /\ Len(nodes') \notin DOMAIN nodes
         /\ \A m \in DOMAIN nodes : nodes'[m] = nodes[m]
         /\ nodes'[Len(nodes')] = [owner |-> c, live |-> TRUE, fate |-> f]
<1>1. [owner |-> c, live |-> TRUE, fate |-> f] \in Node /\ nodes \in Seq(Node)
  BY DEF Node, Open, TypeInv, TypeOK
<1>2. DOMAIN nodes = 1 .. Len(nodes) /\ Len(nodes) \in Nat
  BY NodesType
<1> QED
  BY <1>1, <1>2, Appended

(* What the statements make of relationships between existing nodes. *)
LEMMA AddedToUser ==
  ASSUME NEW N, NEW E \in SUBSET G!Relationships(N), NEW n \in N, NEW S, NEW live \in SUBSET N
  PROVE  G!AddUserPersonaRelation(E, n, S, live) \in SUBSET G!Relationships(N)
BY DEF G!Relationships, G!AddUserPersonaRelation

LEMMA AddedToPersona ==
  ASSUME NEW N, NEW E \in SUBSET G!Relationships(N), NEW n \in N, NEW S, NEW live \in SUBSET N
  PROVE  G!AddPersonaPermissionSetRelation(E, n, S, live) \in SUBSET G!Relationships(N)
BY DEF G!Relationships, G!AddPersonaPermissionSetRelation

LEMMA UpdatedRelationships ==
  ASSUME NEW N, NEW E \in SUBSET G!Relationships(N), NEW named, NEW S, NEW live \in SUBSET N
  PROVE  /\ G!UpdateUser(E, named, S, live) \in SUBSET G!Relationships(N)
         /\ G!UpdatePersona(E, named, S, live) \in SUBSET G!Relationships(N)
BY DEF G!Relationships, G!UpdateUser, G!UpdatePersona

LEMMA LargerGraph ==
  ASSUME NEW N, NEW M, N \subseteq M
  PROVE  G!Relationships(N) \subseteq G!Relationships(M)
BY DEF G!Relationships


-----------------------------------------------------------------------------
(* Every step of the model keeps the types. *)

LEMMA ObserveType ==
  ASSUME TypeInv, NEW c \in Users \cup Personas, Observe(c)
  PROVE  /\ TypeInv'
         /\ KindOf(c) \in Kinds /\ c \in Serves(KindOf(c)) /\ c \in Managed
         /\ \E obs \in Observations(c) :
              /\ w' = [w EXCEPT ![KindOf(c)] =
                         [Idle EXCEPT !.step = "decide", !.cr = c, !.mg = objects[c], !.obs = obs]]
              /\ w'[KindOf(c)].step = "decide" /\ w'[KindOf(c)].cr = c
              /\ w'[KindOf(c)].mg = objects[c] /\ w'[KindOf(c)].obs = obs
              /\ w'[KindOf(c)].made = 0
<1>1. KindOf(c) \in Kinds /\ c \in Serves(KindOf(c)) /\ c \in Managed
  BY KindsServe
<1>2. PICK obs \in Observations(c) : Continue(KindOf(c),
          [Idle EXCEPT !.step = "decide", !.cr = c, !.mg = objects[c], !.obs = obs])
  BY DEF Observe
<1>3. obs \in {"absent", "current", "outdated"}
  BY DEF Observations, ObserveUser, ObservePersona, Compared
<1> DEFINE x == [Idle EXCEPT !.step = "decide", !.cr = c, !.mg = objects[c], !.obs = obs]
<1>4. objects[c] \in Object
  BY <1>1, ManagedAreResources DEF TypeInv, TypeOK
<1>5. x \in Worker /\ x.step = "decide" /\ x.cr = c /\ x.mg = objects[c] /\ x.obs = obs /\ x.made = 0
  BY <1>1, <1>3, <1>4, IdleType DEF Worker, Managed
<1>6. Sane(KindOf(c), x, nodes)
  BY <1>1, <1>5, NodesType DEF Sane
<1>7. w' = [w EXCEPT ![KindOf(c)] = x] /\ UNCHANGED <<objects, usable, nodes, edges, upsets>>
  BY <1>2 DEF Observe, Continue
<1>8. w'[KindOf(c)] = x
  BY <1>1, <1>7 DEF TypeInv, TypeOK
<1> HIDE DEF x
<1>9. Len(nodes') \in Nat /\ Len(nodes') >= Len(nodes)
  BY <1>7, NodesType
<1>10. Sane(KindOf(c), x, nodes')
  BY <1>6, <1>7
<1>11. w' \in [Kinds -> Worker] /\ WorkerOK'
  BY <1>1, <1>5, <1>7, <1>9, <1>10, WorkersContinue
<1>12. TypeInv'
  BY <1>7, <1>11 DEF TypeInv, TypeOK
<1> QED
  BY <1>1, <1>3, <1>5, <1>7, <1>8, <1>12 DEF x

LEMMA ResolveType ==
  ASSUME TypeInv, NEW c \in Users \cup Personas, ResolveReferences(c)
  PROVE  TypeInv'
<1> DEFINE values == {objects[d].ext : d \in objects[c].refs}
<1>1. c \in Resources /\ objects[c] \in Object
  BY ManagedAreResources DEF Managed, TypeInv, TypeOK
<1>2. values \subseteq 1 .. Foreign
  <2>1. ASSUME NEW d \in objects[c].refs
        PROVE  objects[d].ext \in 1 .. Foreign
    <3>1. d \in Resources
      BY <1>1 DEF Object, Resources, Managed
    <3>2. objects[d].ext \in 0 .. Foreign /\ objects[d].ext # 0
      BY <3>1 DEF TypeInv, TypeOK, Object, ResolveReferences
    <3> QED
      BY <3>2 DEF Foreign
  <2> QED
    BY <2>1
<1>3. objects' = [objects EXCEPT ![c].values = values]
      /\ UNCHANGED <<usable, w, nodes, edges, upsets>>
  BY DEF ResolveReferences
<1> HIDE DEF values
<1>4. objects' \in [Resources -> Object]
  BY <1>1, <1>2, <1>3 DEF TypeInv, TypeOK, Object
<1> QED
  BY <1>3, <1>4 DEF TypeInv, TypeOK, WorkerOK

LEMMA RemoveFinalizerType ==
  ASSUME TypeInv, NEW k \in Kinds, RemoveFinalizer(k)
  PROVE  TypeInv'
<1>1. [w[k].mg EXCEPT !.phase = "gone", !.finalizer = FALSE] \in Object
  BY WorkerType DEF Object
<1>2. Sane(k, Idle, nodes)
  BY IdleType
<1>3. Idle \in Worker
  BY IdleType
<1> QED
  BY <1>1, <1>2, <1>3, WriteType DEF RemoveFinalizer, Deciding

LEMMA AddFinalizerType ==
  ASSUME TypeInv, NEW k \in Kinds, AddFinalizer(k)
  PROVE  TypeInv'
<1> DEFINE o == [w[k].mg EXCEPT !.finalizer = TRUE]
           x == [w[k] EXCEPT !.mg = o]
<1>1. o \in Object
  BY WorkerType DEF Object
<1>2. x \in Worker /\ Sane(k, x, nodes)
  BY <1>1, WorkerType DEF Worker, Sane
<1>3. Write(k, o, x) /\ w[k].step # "idle" /\ UNCHANGED <<usable, nodes, edges>>
  BY DEF AddFinalizer, Deciding
<1> QED
  BY <1>1, <1>2, <1>3, WriteType

LEMMA WritePendingType ==
  ASSUME TypeInv, NEW k \in Kinds, WritePending(k)
  PROVE  TypeInv'
<1>0. PICK marked \in BOOLEAN :
        LET o == [w[k].mg EXCEPT !.incomplete = marked]
        IN  Write(k, o, [w[k] EXCEPT !.mg = o, !.step = "createNode"])
  BY DEF WritePending, Marks
<1> DEFINE o == [w[k].mg EXCEPT !.incomplete = marked]
           x == [w[k] EXCEPT !.mg = o, !.step = "createNode"]
<1>1. Write(k, o, x) /\ w[k].step = "decide" /\ UNCHANGED <<usable, nodes, edges>>
  BY <1>0 DEF WritePending, Deciding
<1>2. o \in Object
  BY WorkerType DEF Object
<1>3. x \in Worker /\ Sane(k, x, nodes)
  BY <1>1, <1>2, WorkerType DEF Worker, Sane, Creating
<1> QED
  BY <1>1, <1>2, <1>3, WriteType

(* A transaction of a creation takes the worker on, or to its failure. *)
LEMMA CommittedType ==
  ASSUME TypeInv, NEW k \in Kinds, NEW x \in Worker, x.step \in {"createEdges", "recordSucceeded"},
         Sane(k, x, nodes'), Len(nodes') \in Nat, Len(nodes') >= Len(nodes), Committed(k, x)
  PROVE  /\ w' \in [Kinds -> Worker] /\ WorkerOK' /\ upsets' \in 0 .. MaxUpsets
         /\ w'[k].step \in {x.step, "recordFailed"}
         /\ w'[k].cr = x.cr /\ w'[k].made = x.made
         /\ \A j \in Kinds \ {k} : w'[j] = w[j]
<1> DEFINE y == [x EXCEPT !.step = "recordFailed"]
<1>1. y \in Worker /\ Sane(k, y, nodes')
  BY DEF Worker, Sane, Creating
<1>2. y.step = "recordFailed" /\ y.cr = x.cr /\ y.made = x.made
  BY DEF Worker
<1>3. (Continue(k, x) \/ Continue(k, y)) /\ (Calmly \/ Upset)
  BY DEF Committed
<1> HIDE DEF y
<1>4. w' \in [Kinds -> Worker] /\ WorkerOK'
  BY <1>1, <1>3, WorkersContinue DEF Continue
<1>5. w'[k] \in {x, y} /\ \A j \in Kinds \ {k} : w'[j] = w[j]
  BY <1>3 DEF Continue, TypeInv, TypeOK
<1> QED
  BY <1>2, <1>3, <1>4, <1>5, UpsetsType

(* What AddUser and AddPersona do. *)
LEMMA AddNodeType ==
  ASSUME TypeInv, NEW k \in Kinds, AddNode(k, "createEdges")
  PROVE  /\ TypeInv'
         /\ w[k].step = "createNode" /\ UNCHANGED <<objects, usable, edges>>
         /\ w'[k].step \in {"createEdges", "recordFailed"} /\ w'[k].cr = w[k].cr
         /\ \A j \in Kinds \ {k} : w'[j] = w[j]
         /\ \/ /\ nodes' = Append(nodes, [owner |-> w[k].cr, live |-> TRUE,
                                           fate |-> Unrecorded(w[k].mg.incomplete)])
               /\ w'[k].made = Len(nodes')
            \/ UNCHANGED nodes /\ w'[k].made = 0
<1>1. w[k].step = "createNode" /\ UNCHANGED <<objects, usable, edges>>
  BY DEF AddNode
<1>2. w[k].cr \in Serves(k) /\ w[k].cr \in Managed /\ w[k].made = 0
  BY <1>1, WorkerType DEF Sane
<1>3. CASE Len(nodes) < MaxNodes
  <2> DEFINE x == [w[k] EXCEPT !.step = "createEdges", !.made = Len(nodes')]
  <2>1. nodes' = Append(nodes, [owner |-> w[k].cr, live |-> TRUE,
                                fate |-> Unrecorded(w[k].mg.incomplete)])
        /\ Committed(k, x)
    BY <1>3 DEF AddNode
  <2>2. nodes' \in Seq(Node) /\ Len(nodes') = Len(nodes) + 1 /\ DOMAIN nodes \subseteq DOMAIN nodes'
    <3>1. Unrecorded(w[k].mg.incomplete) \in Open
      BY DEF Unrecorded, Open
    <3> HIDE DEF x
    <3> QED
      BY <1>2, <2>1, <3>1, NodeMade
  <2>3. Len(nodes') \in 1 .. MaxNodes /\ Len(nodes') \in 0 .. MaxNodes
        /\ Len(nodes') >= Len(nodes) /\ Len(nodes') \in Nat
    BY <1>3, <2>2, NodesType, BoundsAssumption
  <2>4. x \in Worker /\ x.step = "createEdges" /\ x.cr = w[k].cr /\ x.made = Len(nodes')
    <3>1. ASSUME NEW n \in 0 .. MaxNodes, NEW y, y = [w[k] EXCEPT !.step = "createEdges", !.made = n]
          PROVE  y \in Worker /\ y.step = "createEdges" /\ y.cr = w[k].cr /\ y.made = n
      BY <3>1, WorkerType DEF Worker
    <3> QED
      BY <2>3, <3>1
  <2>5. Sane(k, x, nodes')
    BY <1>2, <2>3, <2>4 DEF Sane, Creating
  <2> HIDE DEF x
  <2>6. /\ w' \in [Kinds -> Worker] /\ WorkerOK' /\ upsets' \in 0 .. MaxUpsets
        /\ w'[k].step \in {x.step, "recordFailed"} /\ w'[k].cr = x.cr /\ w'[k].made = x.made
        /\ \A j \in Kinds \ {k} : w'[j] = w[j]
    BY <2>1, <2>3, <2>4, <2>5, CommittedType
  <2>7. edges' \subseteq G!Relationships(DOMAIN nodes')
    BY <1>1, <2>2, LargerGraph DEF TypeInv, TypeOK
  <2>8. TypeInv'
    BY <1>1, <2>2, <2>3, <2>6, <2>7 DEF TypeInv, TypeOK
  <2> QED
    BY <1>1, <2>1, <2>4, <2>6, <2>8
<1>4. CASE ~(Len(nodes) < MaxNodes)
  <2> DEFINE x == [w[k] EXCEPT !.step = "recordFailed"]
  <2>1. Continue(k, x) /\ Calmly /\ UNCHANGED nodes
    BY <1>4 DEF AddNode
  <2>2. x \in Worker /\ x.step = "recordFailed" /\ x.cr = w[k].cr /\ x.made = 0
    BY <1>2, WorkerType DEF Worker
  <2>3. Sane(k, x, nodes')
    BY <1>2, <2>1, <2>2, NodesType DEF Sane
  <2> HIDE DEF x
  <2>4. w' \in [Kinds -> Worker] /\ WorkerOK'
    <3>1. Len(nodes') \in Nat /\ Len(nodes') >= Len(nodes)
      BY <2>1, NodesType
    <3> QED
      BY <2>1, <2>2, <2>3, <3>1, WorkersContinue DEF Continue
  <2>5. w'[k] = x /\ \A j \in Kinds \ {k} : w'[j] = w[j]
    BY <2>1 DEF Continue, TypeInv, TypeOK
  <2>6. TypeInv'
    BY <1>1, <2>1, <2>4, UpsetsType DEF TypeInv, TypeOK
  <2> QED
    BY <1>1, <2>1, <2>2, <2>5, <2>6
<1> QED
  BY <1>3, <1>4

LEMMA RelateType ==
  ASSUME TypeInv, NEW k \in Kinds, NEW E \in SUBSET G!Relationships(DOMAIN nodes), Relate(k, E)
  PROVE  /\ TypeInv'
         /\ w[k].step = "createEdges" /\ edges' = E /\ UNCHANGED <<objects, usable, nodes>>
         /\ w'[k].step \in {"recordSucceeded", "recordFailed"}
         /\ w'[k].cr = w[k].cr /\ w'[k].made = w[k].made
         /\ \A j \in Kinds \ {k} : w'[j] = w[j]
<1> DEFINE x == [w[k] EXCEPT !.step = "recordSucceeded"]
<1>1. w[k].step = "createEdges" /\ edges' = E /\ UNCHANGED <<objects, usable, nodes>>
      /\ Committed(k, x)
  BY DEF Relate
<1>2. x \in Worker /\ x.step = "recordSucceeded" /\ x.cr = w[k].cr /\ x.made = w[k].made
  BY WorkerType DEF Worker
<1>3. Sane(k, x, nodes')
  BY <1>1, <1>2, WorkerType DEF Sane, Creating
<1> HIDE DEF x
<1>4. /\ w' \in [Kinds -> Worker] /\ WorkerOK' /\ upsets' \in 0 .. MaxUpsets
      /\ w'[k].step \in {x.step, "recordFailed"} /\ w'[k].cr = x.cr /\ w'[k].made = x.made
      /\ \A j \in Kinds \ {k} : w'[j] = w[j]
  BY <1>1, <1>2, <1>3, NodesType, CommittedType
<1>5. TypeInv'
  BY <1>1, <1>4 DEF TypeInv, TypeOK
<1> QED
  BY <1>1, <1>2, <1>4, <1>5

(* The node that a worker relates exists. *)
LEMMA MadeExists ==
  ASSUME TypeInv, NEW k \in Kinds, w[k].step \in {"createEdges", "recordSucceeded"}
  PROVE  w[k].made \in DOMAIN nodes
BY WorkerType, NodesType DEF Sane

LEMMA LabelsExist == \A k : Labelled(k) \in SUBSET (DOMAIN nodes)
BY DEF Labelled

LEMMA LabelledType ==
  ASSUME TypeInv
  PROVE  /\ \A n \in DOMAIN nodes : n \in Labelled("Persona") <=>
                                      nodes[n].live /\ nodes[n].owner \in Personas
         /\ \A n \in DOMAIN nodes : n \in Labelled("PermissionSet") <=>
                                      nodes[n].live /\ nodes[n].owner \in PermissionSets
BY NodesType, KindsOfResources DEF Labelled, Node

LEMMA CreateType ==
  ASSUME TypeInv
  PROVE  /\ CreateUser =>
              /\ G!AddUserPersonaRelation(edges, w["User"].made, w["User"].mg.values,
                   Labelled("Persona")) \in SUBSET G!Relationships(DOMAIN nodes)
              /\ TypeInv'
         /\ CreatePersona =>
              /\ G!AddPersonaPermissionSetRelation(edges, w["Persona"].made, w["Persona"].mg.values,
                   Labelled("PermissionSet")) \in SUBSET G!Relationships(DOMAIN nodes)
              /\ TypeInv'
<1>1. edges \in SUBSET G!Relationships(DOMAIN nodes)
  BY DEF TypeInv, TypeOK
<1>2. "User" \in Kinds /\ "Persona" \in Kinds
  BY DEF Kinds
<1>3. ASSUME CreateUser
      PROVE  w["User"].made \in DOMAIN nodes
  BY <1>2, <1>3, MadeExists DEF CreateUser, Relate
<1>4. ASSUME CreatePersona
      PROVE  w["Persona"].made \in DOMAIN nodes
  BY <1>2, <1>4, MadeExists DEF CreatePersona, Relate
<1>5. ASSUME CreateUser
      PROVE  G!AddUserPersonaRelation(edges, w["User"].made, w["User"].mg.values,
                   Labelled("Persona")) \in SUBSET G!Relationships(DOMAIN nodes)
  BY <1>1, <1>3, <1>5, LabelsExist, AddedToUser
<1>6. ASSUME CreatePersona
      PROVE  G!AddPersonaPermissionSetRelation(edges, w["Persona"].made, w["Persona"].mg.values,
                   Labelled("PermissionSet")) \in SUBSET G!Relationships(DOMAIN nodes)
  BY <1>1, <1>4, <1>6, LabelsExist, AddedToPersona
<1> QED
  BY <1>2, <1>5, <1>6, RelateType DEF CreateUser, CreatePersona


LEMMA RecordType ==
  ASSUME TypeInv, NEW k \in Kinds, RecordFailed(k) \/ RecordSucceeded(k)
  PROVE  /\ TypeInv'
         /\ w[k].step \in {"recordFailed", "recordSucceeded"} /\ Quit(k)
         /\ UNCHANGED <<usable, edges>>
         /\ \E f \in {"recorded", "failed"}, ext \in 0 .. Foreign, b \in BOOLEAN :
              /\ objects' = [objects EXCEPT ![w[k].cr] =
                     [objects[w[k].cr] EXCEPT !.incomplete = FALSE, !.failed = b, !.ext = ext]]
              /\ nodes' = IF w[k].made = 0 THEN nodes ELSE [nodes EXCEPT ![w[k].made].fate = f]
              /\ IF w[k].step = "recordFailed" THEN f = "failed" /\ ext = objects[w[k].cr].ext
                                               ELSE f = "recorded" /\ ext = w[k].made
<1>1. w[k].step \in {"recordFailed", "recordSucceeded"} /\ Quit(k) /\ UNCHANGED <<usable, edges, upsets>>
  BY DEF RecordFailed, RecordSucceeded, Record
<1> DEFINE c == w[k].cr
<1>2. c \in Resources /\ objects[c] \in Object /\ w[k].made \in 0 .. Foreign
  BY <1>1, WorkerType, BoundsAssumption DEF TypeInv, TypeOK, Foreign
<1>3. PICK f \in {"recorded", "failed"}, ext \in 0 .. Foreign, b \in BOOLEAN :
        /\ objects' = [objects EXCEPT ![c] =
                         [objects[c] EXCEPT !.incomplete = FALSE, !.failed = b, !.ext = ext]]
        /\ nodes' = IF w[k].made = 0 THEN nodes ELSE [nodes EXCEPT ![w[k].made].fate = f]
        /\ IF w[k].step = "recordFailed" THEN f = "failed" /\ ext = objects[c].ext
                                         ELSE f = "recorded" /\ ext = w[k].made
  <2>1. CASE RecordFailed(k)
    <3>1. objects[c].ext \in 0 .. Foreign
          /\ [objects[c] EXCEPT !.incomplete = FALSE, !.failed = TRUE, !.ext = objects[c].ext]
               = [objects[c] EXCEPT !.incomplete = FALSE, !.failed = TRUE]
      BY <1>2 DEF Object
    <3> QED
      BY <2>1, <3>1 DEF RecordFailed, Record
  <2>2. CASE RecordSucceeded(k)
    BY <1>2, <2>2 DEF RecordSucceeded, Record
  <2> QED
    BY <2>1, <2>2
<1>4. objects' \in [Resources -> Object]
  <2>1. [objects[c] EXCEPT !.incomplete = FALSE, !.failed = b, !.ext = ext] \in Object
    BY <1>2, <1>3 DEF Object
  <2> QED
    BY <1>3, <2>1 DEF TypeInv, TypeOK
<1>5. nodes' \in Seq(Node) /\ DOMAIN nodes' = DOMAIN nodes /\ Len(nodes') = Len(nodes)
  <2>1. CASE w[k].made = 0
    BY <1>3, <2>1 DEF TypeInv, TypeOK
  <2>2. CASE w[k].made # 0
    BY <1>3, <2>2, FateRecorded
  <2> QED
    BY <2>1, <2>2
<1>6. Len(nodes') \in Nat /\ Len(nodes') >= Len(nodes)
  BY <1>5, NodesType
<1>7. w' \in [Kinds -> Worker] /\ WorkerOK'
  BY <1>1, <1>6, WorkersEnd
<1>8. TypeInv'
  BY <1>1, <1>4, <1>5, <1>7 DEF TypeInv, TypeOK
<1> QED
  BY <1>1, <1>3, <1>8

(* Steps of a worker that leave objects and nodes alone. *)
LEMMA QuietType ==
  ASSUME TypeInv, UNCHANGED <<objects, nodes>>, usable' \in BOOLEAN,
         edges' \in SUBSET G!Relationships(DOMAIN nodes),
         Calmly \/ Upset, w' = w \/ Restart \/ \E k \in Kinds : Quit(k)
  PROVE  TypeInv'
<1>1. Len(nodes') \in Nat /\ Len(nodes') >= Len(nodes)
  BY NodesType
<1>2. w' \in [Kinds -> Worker] /\ WorkerOK'
  <2>1. CASE w' = w
    BY <2>1 DEF TypeInv, TypeOK, WorkerOK
  <2> QED
    BY <1>1, <2>1, WorkersEnd, WorkersRestart
<1> QED
  BY <1>2, UpsetsType DEF TypeInv, TypeOK

LEMMA UpdateType ==
  ASSUME TypeInv, UpdateUser \/ UpdatePersona
  PROVE  TypeInv'
<1>1. edges \in SUBSET G!Relationships(DOMAIN nodes) /\ usable \in BOOLEAN
  BY DEF TypeInv, TypeOK
<1>2. "User" \in Kinds /\ "Persona" \in Kinds
  BY DEF Kinds
<1>3. CASE UpdateUser
  <2>1. edges' = G!UpdateUser(edges, Named("User", w["User"].cr), w["User"].mg.values, Labelled("Persona"))
        /\ Quit("User") /\ UNCHANGED <<objects, usable, nodes, upsets>>
    BY <1>3 DEF UpdateUser, Rewire
  <2>2. edges' \in SUBSET G!Relationships(DOMAIN nodes)
    BY <1>1, <2>1, LabelsExist, UpdatedRelationships
  <2> QED
    BY <1>1, <1>2, <2>1, <2>2, QuietType DEF Calmly
<1>4. CASE UpdatePersona
  <2>1. edges' = G!UpdatePersona(edges, Named("Persona", w["Persona"].cr), w["Persona"].mg.values,
                                 Labelled("PermissionSet"))
        /\ Quit("Persona") /\ UNCHANGED <<objects, usable, nodes, upsets>>
    BY <1>4 DEF UpdatePersona, Rewire
  <2>2. edges' \in SUBSET G!Relationships(DOMAIN nodes)
    BY <1>1, <2>1, LabelsExist, UpdatedRelationships
  <2> QED
    BY <1>1, <1>2, <2>1, <2>2, QuietType DEF Calmly
<1> QED
  BY <1>3, <1>4

LEMMA DeleteType ==
  ASSUME TypeInv, NEW k \in Kinds, Delete(k)
  PROVE  TypeInv'
<1>1. /\ nodes' = [nodes EXCEPT ![w[k].mg.ext].live = FALSE]
      /\ edges' \subseteq edges /\ Quit(k) /\ UNCHANGED <<objects, usable, upsets>>
  BY DEF Delete, G!DetachDelete
<1>2. nodes' \in Seq(Node) /\ DOMAIN nodes' = DOMAIN nodes /\ Len(nodes') = Len(nodes)
  BY <1>1, NodeDies
<1>3. Len(nodes') \in Nat /\ Len(nodes') >= Len(nodes)
  BY <1>2, NodesType
<1>4. w' \in [Kinds -> Worker] /\ WorkerOK'
  BY <1>1, <1>3, WorkersEnd
<1> QED
  BY <1>1, <1>2, <1>4 DEF TypeInv, TypeOK

LEMMA FailType ==
  ASSUME TypeInv, NEW k \in Kinds, Fail(k)
  PROVE  /\ TypeInv' /\ UNCHANGED <<objects, nodes, edges>>
         /\ \A j \in Kinds \ {k} : w'[j] = w[j]
         /\ \/ w'[k] = Idle
            \/ /\ w[k].step \in {"createNode", "createEdges"} /\ w'[k].step = "recordFailed"
               /\ w'[k].cr = w[k].cr /\ w'[k].made = w[k].made
<1> DEFINE x == [w[k] EXCEPT !.step = "recordFailed"]
<1>1. Upset /\ UNCHANGED <<objects, usable, nodes, edges>>
      /\ ((w[k].step \in {"createNode", "createEdges"} /\ Continue(k, x)) \/ Quit(k))
  BY DEF Fail
<1>2. edges \in SUBSET G!Relationships(DOMAIN nodes) /\ usable \in BOOLEAN
  BY DEF TypeInv, TypeOK
<1>3. CASE Quit(k)
  <2>1. w'[k] = Idle /\ \A j \in Kinds \ {k} : w'[j] = w[j]
    BY <1>3 DEF Quit, Continue, TypeInv, TypeOK
  <2> QED
    BY <1>1, <1>2, <1>3, <2>1, QuietType
<1>4. CASE w[k].step \in {"createNode", "createEdges"} /\ Continue(k, x)
  <2>1. x \in Worker /\ x.step = "recordFailed" /\ x.cr = w[k].cr /\ x.made = w[k].made
    BY WorkerType DEF Worker
  <2>2. Sane(k, x, nodes')
    BY <1>1, <1>4, <2>1, WorkerType DEF Sane, Creating
  <2>3. Len(nodes') \in Nat /\ Len(nodes') >= Len(nodes)
    BY <1>1, NodesType
  <2>4. w' = [w EXCEPT ![k] = x]
    BY <1>4 DEF Continue
  <2>5. w'[k] = x /\ \A j \in Kinds \ {k} : w'[j] = w[j]
    BY <2>4 DEF TypeInv, TypeOK
  <2> HIDE DEF x
  <2>6. w' \in [Kinds -> Worker] /\ WorkerOK'
    BY <2>1, <2>2, <2>3, <2>4, WorkersContinue
  <2>7. TypeInv'
    BY <1>1, <2>6, UpsetsType DEF TypeInv, TypeOK
  <2> QED
    BY <1>1, <1>4, <2>1, <2>5, <2>7
<1> QED
  BY <1>1, <1>3, <1>4

(* What becomes of the object in the three outcomes of CreatePermissionSet. *)
LEMMA PermissionSetWritten ==
  ASSUME TypeInv, NEW s \in PermissionSets, CreatePermissionSet(s), Len(nodes) + 1 \in 0 .. Foreign
  PROVE  \E o \in Object, f \in Open \cup {"recorded", "failed"} :
           /\ objects' = [objects EXCEPT ![s] = o]
           /\ nodes' = Append(nodes, [owner |-> s, live |-> TRUE, fate |-> f])
           /\ o.phase = objects[s].phase /\ o.finalizer
           /\ o.ext = IF f = "recorded" THEN Len(nodes) + 1 ELSE objects[s].ext
           /\ f = "unknown" => o.incomplete
           /\ ~objects[s].incomplete /\ f # "unknown" => ~o.incomplete
<1>1. s \in Resources /\ objects[s] \in Object /\ objects \in [Resources -> Object]
  BY ManagedAreResources DEF Managed, TypeInv, TypeOK
<1>2. CASE /\ objects' = [objects EXCEPT ![s].ext = Len(nodes) + 1, ![s].failed = FALSE,
                                         ![s].finalizer = TRUE]
           /\ NewPermissionSet(s, "recorded")
  <2> DEFINE o == [objects[s] EXCEPT !.ext = Len(nodes) + 1, !.failed = FALSE, !.finalizer = TRUE]
  <2>1. objects' = [objects EXCEPT ![s] = o]
    BY <1>1, <1>2
  <2>2. /\ o \in Object /\ o.phase = objects[s].phase /\ o.finalizer /\ o.ext = Len(nodes) + 1
        /\ ~objects[s].incomplete => ~o.incomplete
    BY <1>1 DEF Object
  <2>3. "recorded" \in Open \cup {"recorded", "failed"} /\ "recorded" # "unknown"
    OBVIOUS
  <2> HIDE DEF o
  <2> QED
    BY <1>2, <2>1, <2>2, <2>3 DEF NewPermissionSet
<1>3. CASE /\ objects' = [objects EXCEPT ![s].failed = TRUE, ![s].finalizer = TRUE]
           /\ NewPermissionSet(s, "failed")
  <2> DEFINE o == [objects[s] EXCEPT !.failed = TRUE, !.finalizer = TRUE]
  <2>1. objects' = [objects EXCEPT ![s] = o]
    BY <1>1, <1>3
  <2>2. /\ o \in Object /\ o.phase = objects[s].phase /\ o.finalizer /\ o.ext = objects[s].ext
        /\ ~objects[s].incomplete => ~o.incomplete
    BY <1>1 DEF Object
  <2>3. "failed" \in Open \cup {"recorded", "failed"} /\ "failed" \notin {"unknown", "recorded"}
    OBVIOUS
  <2> HIDE DEF o
  <2> QED
    BY <1>3, <2>1, <2>2, <2>3 DEF NewPermissionSet
<1>4. ASSUME NEW b \in BOOLEAN,
             objects' = [objects EXCEPT ![s].incomplete = b, ![s].finalizer = TRUE],
             NewPermissionSet(s, Unrecorded(b))
      PROVE  \E o \in Object, f \in Open :
               /\ objects' = [objects EXCEPT ![s] = o]
               /\ nodes' = Append(nodes, [owner |-> s, live |-> TRUE, fate |-> f])
               /\ o.phase = objects[s].phase /\ o.finalizer /\ o.ext = objects[s].ext
               /\ f = "unknown" <=> o.incomplete
  <2> DEFINE o == [objects[s] EXCEPT !.incomplete = b, !.finalizer = TRUE]
  <2>1. objects' = [objects EXCEPT ![s] = o]
    BY <1>1, <1>4
  <2>2. /\ o \in Object /\ o.phase = objects[s].phase /\ o.finalizer /\ o.ext = objects[s].ext
        /\ o.incomplete = b
    BY <1>1 DEF Object
  <2>3. Unrecorded(b) \in Open /\ (Unrecorded(b) = "unknown" <=> b)
    BY DEF Unrecorded, Open
  <2> HIDE DEF o
  <2> QED
    BY <1>4, <2>1, <2>2, <2>3 DEF NewPermissionSet
<1>5. \/ /\ objects' = [objects EXCEPT ![s].ext = Len(nodes) + 1, ![s].failed = FALSE,
                                        ![s].finalizer = TRUE]
         /\ NewPermissionSet(s, "recorded")
      \/ /\ objects' = [objects EXCEPT ![s].failed = TRUE, ![s].finalizer = TRUE]
         /\ NewPermissionSet(s, "failed")
      \/ \E b \in BOOLEAN :
           /\ objects' = [objects EXCEPT ![s].incomplete = b, ![s].finalizer = TRUE]
           /\ NewPermissionSet(s, Unrecorded(b))
  BY DEF CreatePermissionSet, Marks
<1> QED
  BY <1>2, <1>3, <1>4, <1>5 DEF Open

LEMMA PermissionSetStepType ==
  ASSUME TypeInv, NEW s \in PermissionSets, PermissionSetStep(s)
  PROVE  TypeInv'
<1>1. s \in Managed /\ s \in Resources /\ objects[s] \in Object
  BY ManagedAreResources DEF Managed, TypeInv, TypeOK
<1>2. CASE CreatePermissionSet(s)
  <2>1. PICK f \in Open \cup {"recorded", "failed"} :
          nodes' = Append(nodes, [owner |-> s, live |-> TRUE, fate |-> f])
    BY <1>2 DEF CreatePermissionSet, NewPermissionSet, Unrecorded, Open
  <2>2. nodes' \in Seq(Node) /\ Len(nodes') = Len(nodes) + 1 /\ DOMAIN nodes \subseteq DOMAIN nodes'
    BY <1>1, <2>1, NodeMade
  <2>3. Len(nodes) + 1 \in 0 .. Foreign /\ Len(nodes') <= MaxNodes
        /\ Len(nodes') \in Nat /\ Len(nodes') >= Len(nodes)
    BY <1>2, <2>2, NodesType, BoundsAssumption DEF CreatePermissionSet, Foreign
  <2>4. objects' \in [Resources -> Object]
    <3>1. PICK o \in Object : objects' = [objects EXCEPT ![s] = o]
      BY <1>1, <1>2, <2>3, PermissionSetWritten
    <3> QED
      BY <3>1 DEF TypeInv, TypeOK
  <2>5. edges' \subseteq G!Relationships(DOMAIN nodes')
    BY <1>2, <2>2, LargerGraph DEF CreatePermissionSet, TypeInv, TypeOK
  <2>6. (Calmly \/ Upset) /\ UNCHANGED <<usable, w, edges>>
    BY <1>2 DEF CreatePermissionSet
  <2>7. WorkerOK'
    BY <2>3, <2>6, NodesType DEF TypeInv, WorkerOK, Sane
  <2> QED
    BY <2>2, <2>3, <2>4, <2>5, <2>6, <2>7, UpsetsType DEF TypeInv, TypeOK
<1>3. CASE DeletePermissionSet(s)
  <2>1. /\ nodes' = [nodes EXCEPT ![objects[s].ext].live = FALSE]
        /\ edges' \subseteq edges /\ UNCHANGED <<objects, usable, w, upsets>>
    BY <1>3 DEF DeletePermissionSet, G!DetachDelete
  <2>2. nodes' \in Seq(Node) /\ DOMAIN nodes' = DOMAIN nodes /\ Len(nodes') = Len(nodes)
    BY <2>1, NodeDies
  <2>3. WorkerOK'
    BY <2>1, <2>2 DEF TypeInv, WorkerOK, Sane
  <2> QED
    BY <2>1, <2>2, <2>3 DEF TypeInv, TypeOK
<1>4. CASE ReleasePermissionSet(s)
  <2>1. [objects[s] EXCEPT !.phase = "gone", !.finalizer = FALSE] \in Object
    BY <1>1 DEF Object
  <2> QED
    BY <1>1, <1>4, <2>1 DEF ReleasePermissionSet, TypeInv, TypeOK, WorkerOK
<1> QED
  BY <1>2, <1>3, <1>4 DEF PermissionSetStep

(* People write objects. *)
LEMMA ObjectWritten ==
  ASSUME TypeInv, NEW c \in Resources, NEW o \in Object, objects' = [objects EXCEPT ![c] = o],
         UNCHANGED <<usable, w, nodes, edges>>, Calmly \/ Upset
  PROVE  TypeInv'
BY UpsetsType DEF TypeInv, TypeOK, WorkerOK

LEMMA PeopleType ==
  ASSUME TypeInv,
         \/ \E c \in Managed : ApplyResource(c)
         \/ \E c \in Users \cup Personas : EditSpec(c)
         \/ \E c \in Resources : DeleteResource(c)
         \/ \E t \in Teams : ImportTeam(t)
  PROVE  TypeInv'
<1>1. ASSUME NEW c \in Managed, NEW refs \in References(c)
      PROVE  refs \in SUBSET (Personas \cup PermissionSets)
  BY DEF References, Referable
<1>2. ASSUME NEW c \in Managed, NEW p \in ProviderRefs(c)
      PROVE  p \in BOOLEAN
  BY DEF ProviderRefs
<1>3. ASSUME NEW c \in Managed, ApplyResource(c)
      PROVE  TypeInv'
  <2>1. PICK refs \in References(c), p \in ProviderRefs(c) :
          WriteSpec(c, [Blank EXCEPT !.phase = "present", !.refs = refs, !.providerRef = p])
    BY <1>3 DEF ApplyResource
  <2>2. [Blank EXCEPT !.phase = "present", !.refs = refs, !.providerRef = p] \in Object
    BY <1>1, <1>2, IdleType DEF Object
  <2> QED
    BY <1>3, <2>1, <2>2, ManagedAreResources, ObjectWritten DEF ApplyResource, WriteSpec, Calmly
<1>4. ASSUME NEW c \in Users \cup Personas, EditSpec(c)
      PROVE  TypeInv'
  <2>1. c \in Managed /\ c \in Resources /\ objects[c] \in Object
    BY ManagedAreResources DEF Managed, TypeInv, TypeOK
  <2>2. PICK refs \in References(c), values \in {{}, {Foreign}}, p \in ProviderRefs(c) :
          WriteSpec(c, [objects[c] EXCEPT !.refs = refs, !.values = values, !.providerRef = p])
    BY <1>4 DEF EditSpec
  <2>3. values \subseteq 1 .. Foreign
    BY BoundsAssumption DEF Foreign
  <2>4. [objects[c] EXCEPT !.refs = refs, !.values = values, !.providerRef = p] \in Object
    BY <1>1, <1>2, <2>1, <2>3 DEF Object
  <2> QED
    BY <1>4, <2>1, <2>2, <2>4, ObjectWritten DEF EditSpec, WriteSpec
<1>5. ASSUME NEW c \in Resources, DeleteResource(c)
      PROVE  TypeInv'
  <2>1. [objects[c] EXCEPT !.phase = IF objects[c].finalizer THEN "deleting" ELSE "gone"] \in Object
    BY DEF Object, TypeInv, TypeOK
  <2> QED
    BY <1>5, <2>1, ObjectWritten DEF DeleteResource, Calmly
<1>6. ASSUME NEW t \in Teams, ImportTeam(t)
      PROVE  TypeInv'
  <2>1. t \in Resources /\ objects[t] \in Object
    BY DEF Resources, TypeInv, TypeOK
  <2>2. [objects[t] EXCEPT !.phase = "present", !.ext = Foreign] \in Object
    <3>1. Foreign \in 0 .. Foreign
      BY BoundsAssumption DEF Foreign
    <3> QED
      BY <2>1, <3>1 DEF Object
  <2>3. objects' = [objects EXCEPT ![t] = [objects[t] EXCEPT !.phase = "present", !.ext = Foreign]]
    BY <1>6, <2>1 DEF ImportTeam, TypeInv, TypeOK
  <2> QED
    BY <1>6, <2>1, <2>2, <2>3, ObjectWritten DEF ImportTeam
<1> QED
  BY <1>3, <1>4, <1>5, <1>6

LEMMA UndisturbedType ==
  ASSUME TypeInv,
         \/ \E c \in Users : PanicInConnect(c)
         \/ \E t \in Teams : PanicInObserve(t)
         \/ \E k \in Kinds : UpToDate(k)
         \/ EditConfig \/ CrashRestart \/ UNCHANGED vars
  PROVE  TypeInv' /\ UNCHANGED <<objects, nodes, edges>> /\ (w' = w \/ Restart \/ \E k \in Kinds : Quit(k))
<1>1. UNCHANGED <<objects, nodes, edges>> /\ (Calmly \/ Upset)
  BY DEF PanicInConnect, PanicInObserve, UpToDate, EditConfig, CrashRestart, vars, Calmly
<1>2. w' = w \/ Restart \/ \E k \in Kinds : Quit(k)
  BY DEF PanicInConnect, PanicInObserve, UpToDate, EditConfig, CrashRestart, vars
<1>3. edges \in SUBSET G!Relationships(DOMAIN nodes) /\ usable' \in BOOLEAN
  BY DEF PanicInConnect, PanicInObserve, UpToDate, EditConfig, CrashRestart, vars, TypeInv, TypeOK
<1> QED
  BY <1>1, <1>2, <1>3, QuietType

LEMMA NextType == TypeInv /\ [Next]_vars => TypeInv'
<1> SUFFICES ASSUME TypeInv, [Next]_vars PROVE TypeInv'
  OBVIOUS
<1>1. "User" \in Kinds /\ "Persona" \in Kinds
  BY DEF Kinds
<1>2. ASSUME NEW c \in Users \cup Personas, Reconcile(c)
      PROVE  TypeInv'
  BY <1>2, ObserveType, ResolveType DEF Reconcile
<1>3. ASSUME NEW k \in Kinds, Step(k)
      PROVE  TypeInv'
  BY <1>3, RemoveFinalizerType, AddFinalizerType, WritePendingType, RecordType, UndisturbedType DEF Step
<1>4. CASE UserStep \/ PersonaStep
  BY <1>1, <1>4, AddNodeType, CreateType, UpdateType, DeleteType
     DEF UserStep, PersonaStep, AddUser, AddPersona, DeleteUser, DeletePersona
<1> QED
  BY <1>2, <1>3, <1>4, FailType, PermissionSetStepType, PeopleType, UndisturbedType DEF Next

(* Objects, workers, nodes and relationships are what the code can make of them, *)
(* for any number of resources of each kind that refer to each other; in        *)
(* particular every relationship joins nodes that were made.                    *)
THEOREM TypeCorrect == Spec => []TypeOK
<1>1. TypeInv => TypeOK
  BY DEF TypeInv
<1> QED
  BY <1>1, InitType, NextType, PTL DEF Spec


-----------------------------------------------------------------------------
(* What a step leaves as it is.  Nodes keep their owner, and the outcome that *)
(* was recorded of their creation; no node comes back.                      *)

NodesKept ==
  \A n \in DOMAIN nodes :
    /\ n \in DOMAIN nodes' /\ nodes'[n].owner = nodes[n].owner
    /\ nodes'[n].live => nodes[n].live
    /\ nodes[n].fate \notin Open => nodes'[n].fate = nodes[n].fate

(* A recorded node that is not linked is never linked again. *)
Revoked == \A n \in DOMAIN nodes : nodes[n].fate = "recorded" /\ ~Linked(n) => ~(Linked(n)')

LEMMA SameGraph ==
  ASSUME UNCHANGED <<nodes, edges>>
  PROVE  /\ NodesKept /\ Revoked
         /\ EdgesSound => EdgesSound'
         /\ \A n : Linked(n)' <=> Linked(n)
         /\ \A n, c : RecordedFor(n, c)' <=> RecordedFor(n, c)
BY DEF NodesKept, Revoked, EdgesSound, Linked, RecordedFor

(* Relationships only go, with the nodes they join or without. *)
LEMMA SmallerGraph ==
  ASSUME NodesKept, edges' \subseteq edges
  PROVE  Revoked
BY DEF NodesKept, Revoked, Linked

(* A recorded node stays recorded for its resource, as what is not linked *)
(* stays unlinked.                                                        *)
LEMMA StaysRecorded ==
  ASSUME NodesKept, NEW n, NEW c, RecordedFor(n, c)
  PROVE  RecordedFor(n, c)' /\ (Revoked /\ ~Linked(n) => ~(Linked(n)'))
BY DEF NodesKept, Revoked, RecordedFor, Open

(* A worker that is not disturbed: its resource, if it is creating, and the *)
(* nodes of that are as before.                                            *)
LEMMA Undisturbed ==
  ASSUME ProviderInv, NodesKept, Revoked, NEW k \in Kinds, w'[k] = w[k],
         w[k].step \in Creating =>
           /\ objects[w[k].cr].finalizer /\ Living(w[k].cr) =>
                objects'[w[k].cr].finalizer /\ Living(w[k].cr)'
           /\ objects[w[k].cr].incomplete => objects'[w[k].cr].incomplete
           /\ objects'[w[k].cr].ext = objects[w[k].cr].ext
           /\ \A n \in DOMAIN nodes' : nodes'[n].owner = w[k].cr =>
                n \in DOMAIN nodes /\ nodes'[n] = nodes[n]
  PROVE  DecisionSound(k)' /\ CreationSound(k)'
<1>1. DecisionSound(k) /\ CreationSound(k)
  BY DEF ProviderInv, WorkersSound
<1>2. DecisionSound(k)'
  BY <1>1, StaysRecorded DEF DecisionSound
<1>3. ASSUME w[k].step \in Creating
      PROVE  CreationSound(k)'
  <2> DEFINE c == w[k].cr
  <2>1. c \in Managed /\ w[k].made \in 0 .. Len(nodes)
    BY <1>3, WorkerType DEF Creating, ProviderInv, Sane
  <2>2. ASSUME w[k].made # 0
        PROVE  nodes'[w[k].made] = nodes[w[k].made] /\ w[k].made \in DOMAIN nodes
    <3>1. w[k].made \in DOMAIN nodes
      BY <2>1, <2>2, NodesType DEF ProviderInv
    <3>2. w[k].made \in DOMAIN nodes' /\ nodes'[w[k].made].owner = c
      BY <1>1, <1>3, <2>2, <3>1 DEF CreationSound, NodesKept
    <3> QED
      BY <1>3, <3>1, <3>2
  <2>3. objects[c].ext # 0 => ~(Linked(objects[c].ext)')
    BY <1>1, <1>3, <2>1, StaysRecorded DEF CreationSound, ProviderInv, ObjectsSound
  <2>4. \A m \in DOMAIN nodes' : nodes'[m].owner = c /\ nodes'[m].fate = "unknown" => m = w[k].made
    BY <1>1, <1>3 DEF CreationSound
  <2> QED
    BY <1>1, <1>3, <2>2, <2>3, <2>4 DEF CreationSound
<1>4. w[k].step \notin Creating => CreationSound(k)'
  BY DEF CreationSound
<1> QED
  BY <1>2, <1>3, <1>4

LEMMA IdleSound ==
  ASSUME NEW k, w'[k] = Idle
  PROVE  DecisionSound(k)' /\ CreationSound(k)'
BY IdleType DEF DecisionSound, CreationSound, Creating

(* Where no store changes, workers are all there is to look at. *)
LEMMA SameStores ==
  ASSUME ProviderInv, TypeInv', UNCHANGED <<objects, nodes, edges>>,
         \A k \in Kinds : w'[k] = w[k] \/ w'[k] = Idle \/ (DecisionSound(k)' /\ CreationSound(k)')
  PROVE  ProviderInv'
<1>1. ASSUME NEW k \in Kinds
      PROVE  DecisionSound(k)' /\ CreationSound(k)'
  BY SameGraph, Undisturbed, IdleSound DEF Living
<1>2. EdgesSound' /\ ObjectsSound' /\ UnknownOutcomeMarked' /\ Accounted'
  BY DEF ProviderInv, EdgesSound, ObjectsSound, UnknownOutcomeMarked, Accounted, Linked, RecordedFor, Living
<1> QED
  BY <1>1, <1>2 DEF ProviderInv, WorkersSound

LEMMA WorkersAfter ==
  ASSUME TypeInv, w' = w \/ Restart \/ \E k \in Kinds : Quit(k)
  PROVE  \A k \in Kinds : w'[k] = w[k] \/ w'[k] = Idle
BY DEF TypeInv, TypeOK, Restart, Quit, Continue

LEMMA FailSound ==
  ASSUME ProviderInv, TypeInv', NEW k \in Kinds, Fail(k)
  PROVE  ProviderInv'
<1>1. TypeInv /\ DecisionSound(k) /\ CreationSound(k)
  BY DEF ProviderInv, WorkersSound
<1>2. UNCHANGED <<objects, nodes, edges>> /\ \A j \in Kinds \ {k} : w'[j] = w[j]
  BY <1>1, FailType
<1>3. ASSUME w'[k] # Idle
      PROVE  DecisionSound(k)' /\ CreationSound(k)'
  <2>1. /\ w[k].step \in Creating /\ w'[k].step = "recordFailed"
        /\ w'[k].cr = w[k].cr /\ w'[k].made = w[k].made
    BY <1>1, <1>3, FailType DEF Creating
  <2> QED
    BY <1>1, <1>2, <2>1 DEF DecisionSound, CreationSound, Linked, Living
<1> QED
  BY <1>2, <1>3, SameStores

(* What an observation does not find is not linked. *)
LEMMA AbsentUnlinked ==
  ASSUME ProviderInv, NEW c \in Users \cup Personas, "absent" \in Observations(c),
         RecordedFor(objects[c].ext, c)
  PROVE  ~Linked(objects[c].ext)
<1> DEFINE n == objects[c].ext
<1>1. SUFFICES ASSUME Linked(n) PROVE FALSE
  OBVIOUS
<1>2. CASE c \in Users
  <2>1. PICK e \in edges : e.from = n
    BY <1>1, <1>2 DEF Linked, RecordedFor
  <2>2. e.to \in DOMAIN nodes /\ nodes[e.to].live /\ nodes[e.to].owner \in Personas
    BY DEF ProviderInv, TypeInv, TypeOK, G!Relationships, EdgesSound
  <2>3. e.to \in G!GetUserRefs(edges, n, Labelled("Persona"))
    BY <2>1, <2>2, LabelledType DEF G!GetUserRefs, ProviderInv
  <2> QED
    BY <1>2, <2>3 DEF Observations, ObserveUser, Compared
<1>3. CASE c \in Personas
  <2>1. PICK e \in edges : e.type = "ATTACHED_TO" /\ e.to = n
    BY <1>1, <1>3 DEF Linked, RecordedFor
  <2>2. e.from \in DOMAIN nodes /\ nodes[e.from].live /\ nodes[e.from].owner \in PermissionSets
    BY <2>1 DEF ProviderInv, TypeInv, TypeOK, G!Relationships, EdgesSound
  <2>3. e.from \in G!GetPersonaRefs(edges, n, Labelled("PermissionSet"))
    BY <2>1, <2>2, LabelledType DEF G!GetPersonaRefs, ProviderInv
  <2>4. c \notin Users
    BY <1>3, NamesAssumption
  <2> QED
    BY <2>3, <2>4 DEF Observations, ObservePersona, Compared
<1> QED
  BY <1>2, <1>3

LEMMA ObserveSound ==
  ASSUME ProviderInv, TypeInv', NEW c \in Users \cup Personas, Observe(c)
  PROVE  ProviderInv'
<1> DEFINE k == KindOf(c)
<1>1. TypeInv /\ k \in Kinds /\ c \in Managed
  BY ObserveType DEF ProviderInv
<1>2. PICK obs \in Observations(c) :
        /\ w' = [w EXCEPT ![k] = [Idle EXCEPT !.step = "decide", !.cr = c, !.mg = objects[c], !.obs = obs]]
        /\ w'[k].step = "decide" /\ w'[k].cr = c /\ w'[k].mg = objects[c] /\ w'[k].obs = obs
  BY <1>1, ObserveType
<1>3. UNCHANGED <<objects, nodes, edges>> /\ Living(c) /\ ~objects[c].incomplete
  BY DEF Observe, Ready
<1>4. \A j \in Kinds \ {k} : w'[j] = w[j]
  BY <1>1, <1>2 DEF TypeInv, TypeOK
<1>5. objects[c].ext # 0 => RecordedFor(objects[c].ext, c)
  BY <1>1 DEF ProviderInv, ObjectsSound
<1>6. DecisionSound(k)'
  <2>1. objects[c].ext # 0 /\ obs = "absent" => ~Linked(objects[c].ext)
    BY <1>5, AbsentUnlinked
  <2> QED
    BY <1>2, <1>3, <1>5, <2>1, SameGraph DEF DecisionSound, Living
<1>7. CreationSound(k)'
  BY <1>2 DEF CreationSound, Creating
<1> QED
  BY <1>3, <1>4, <1>6, <1>7, SameStores

LEMMA UndisturbedSound ==
  ASSUME ProviderInv, TypeInv',
         \/ \E c \in Users : PanicInConnect(c)
         \/ \E t \in Teams : PanicInObserve(t)
         \/ \E k \in Kinds : UpToDate(k)
         \/ EditConfig \/ CrashRestart \/ UNCHANGED vars
  PROVE  ProviderInv'
<1>1. UNCHANGED <<objects, nodes, edges>> /\ (w' = w \/ Restart \/ \E k \in Kinds : Quit(k))
  BY UndisturbedType DEF ProviderInv
<1>2. \A k \in Kinds : w'[k] = w[k] \/ w'[k] = Idle
  BY <1>1, WorkersAfter DEF ProviderInv
<1> QED
  BY <1>1, <1>2, SameStores

-----------------------------------------------------------------------------
(* Steps that write one object and leave the graph as it is. *)

(* Two workers are never at the same resource, nor one at a permission set. *)
LEMMA OwnResource ==
  ASSUME TypeInv, NEW j \in Kinds, w[j].step # "idle"
  PROVE  /\ w[j].cr \in Managed \ PermissionSets
         /\ \A k \in Kinds \ {j} : w[k].step # "idle" => w[k].cr # w[j].cr
<1>1. \A k \in Kinds : w[k].step # "idle" => w[k].cr \in Serves(k) /\ KindOf(w[k].cr) = k
  BY WorkerType, KindsServe DEF Sane
<1>2. w[j].cr \in Managed \ PermissionSets
  BY <1>1, KindsServe
<1> QED
  BY <1>1, <1>2

LEMMA ObjectStep ==
  ASSUME ProviderInv, TypeInv', UNCHANGED <<nodes, edges>>, NEW c \in Managed,
         \A d \in Managed \ {c} : objects'[d] = objects[d],
         objects'[c].incomplete => objects'[c].finalizer /\ Living(c)',
         objects'[c].ext # 0 =>
           objects'[c].ext = objects[c].ext /\ (Living(c)' => objects'[c].finalizer),
         objects[c].incomplete => objects'[c].incomplete,
         Living(c) =>
           /\ objects'[c].ext = objects[c].ext
           /\ Living(c)' \/ objects[c].ext = 0 \/ ~Linked(objects[c].ext),
         \/ \A k \in Kinds : w[k].step \in Creating => w[k].cr # c
         \/ objects[c].finalizer /\ Living(c) => objects'[c].finalizer /\ Living(c)',
         \A k \in Kinds : w'[k] = w[k] \/ (DecisionSound(k)' /\ CreationSound(k)')
  PROVE  ProviderInv'
<1>1. TypeInv /\ EdgesSound /\ ObjectsSound /\ UnknownOutcomeMarked /\ Accounted
  BY DEF ProviderInv
<1>2. ASSUME NEW d \in Managed, Living(d),
             \E k \in Kinds : w[k].step \in Creating /\ w[k].cr = d
      PROVE  /\ objects[d].finalizer => objects'[d].finalizer /\ Living(d)'
             /\ objects[d].incomplete => objects'[d].incomplete
             /\ objects'[d].ext = objects[d].ext
  <2>1. CASE d = c
    BY <1>2, <2>1
  <2>2. CASE d # c
    BY <1>2, <2>2 DEF Living
  <2> QED
    BY <2>1, <2>2
<1>3. ASSUME NEW k \in Kinds, w'[k] = w[k]
      PROVE  DecisionSound(k)' /\ CreationSound(k)'
  <2>1. ASSUME w[k].step \in Creating
        PROVE  w[k].cr \in Managed /\ Living(w[k].cr)
    BY <2>1, WorkerType DEF Creating, ProviderInv, WorkersSound, CreationSound
  <2> QED
    BY <1>2, <1>3, <2>1, SameGraph, Undisturbed DEF Living
<1>4. ObjectsSound'
  BY <1>1, SameGraph DEF ObjectsSound, Living
<1>5. \A n \in DOMAIN nodes : nodes[n].owner \in Managed
  BY <1>1, NodesType DEF Node
<1>6. UnknownOutcomeMarked'
  <2>1. ASSUME NEW n \in DOMAIN nodes, nodes[n].fate = "unknown"
        PROVE  LET d == nodes[n].owner IN Living(d)' /\ objects'[d].incomplete
    <3>1. nodes[n].owner \in Managed /\ Living(nodes[n].owner) /\ objects[nodes[n].owner].incomplete
      BY <1>1, <1>5, <2>1 DEF UnknownOutcomeMarked
    <3>2. CASE nodes[n].owner = c
      BY <1>1, <3>1, <3>2
    <3>3. CASE nodes[n].owner # c
      BY <3>1, <3>3 DEF Living
    <3> QED
      BY <3>2, <3>3
  <2> QED
    BY <1>1, <2>1 DEF UnknownOutcomeMarked, Living
<1>7. Accounted'
  <2>1. ASSUME NEW n \in DOMAIN nodes, nodes[n].fate = "recorded", Linked(n)
        PROVE  objects'[nodes[n].owner].ext = n /\ Living(nodes[n].owner)'
    <3>1. objects[nodes[n].owner].ext = n /\ Living(nodes[n].owner) /\ n # 0
      BY <1>1, <2>1, NodesType DEF Accounted
    <3>2. CASE nodes[n].owner = c
      BY <2>1, <3>1, <3>2
    <3>3. CASE nodes[n].owner # c
      BY <1>5, <3>1, <3>3 DEF Living
    <3> QED
      BY <3>2, <3>3
  <2> QED
    BY <2>1, SameGraph DEF Accounted, Living
<1> QED
  BY <1>1, <1>3, <1>4, <1>6, <1>7, SameGraph DEF ProviderInv, WorkersSound

(* A worker that decides writes the object it has a copy of. *)
LEMMA WriteSound ==
  ASSUME ProviderInv, TypeInv', NEW k \in Kinds, w[k].step = "decide", NEW o, NEW x,
         Write(k, o, x), UNCHANGED <<nodes, edges>>,
         o.incomplete => o.finalizer /\ o.phase \in {"present", "deleting"},
         o.ext = w[k].mg.ext,
         o.ext # 0 /\ o.phase \in {"present", "deleting"} => o.finalizer,
         o.phase \in {"present", "deleting"} \/ o.ext = 0 \/ ~Linked(o.ext),
         objects[w[k].cr] = w[k].mg /\ objects'[w[k].cr] = o /\ w'[k] = x =>
           DecisionSound(k)' /\ CreationSound(k)'
  PROVE  ProviderInv'
<1>0. PICK c : c = w[k].cr
  OBVIOUS
<1>1. TypeInv /\ DecisionSound(k) /\ c \in Managed /\ c \in Resources
  BY <1>0, WorkerType DEF ProviderInv, WorkersSound
<1>2. (w' = [w EXCEPT ![k] = x] \/ w' = [w EXCEPT ![k] = Idle])
      /\ \/ objects[c] = w[k].mg /\ objects' = [objects EXCEPT ![c] = o]
         \/ UNCHANGED objects /\ w' = [w EXCEPT ![k] = Idle]
  BY <1>0 DEF Write, Continue, Quit
<1>3. (w'[k] = x \/ w'[k] = Idle) /\ \A j \in Kinds \ {k} : w'[j] = w[j]
  BY <1>1, <1>2 DEF TypeInv, TypeOK
<1>4. CASE objects[c] = w[k].mg /\ objects' = [objects EXCEPT ![c] = o]
  <2>1. objects'[c] = o /\ \A d \in Managed \ {c} : objects'[d] = objects[d]
    BY <1>1, <1>4, ManagedAreResources DEF TypeInv, TypeOK
  <2>2. ~objects[c].incomplete
    BY <1>1, <1>4 DEF DecisionSound
  <2>3. \A j \in Kinds : w'[j] = w[j] \/ (DecisionSound(j)' /\ CreationSound(j)')
    BY <1>0, <1>3, <1>4, <2>1, IdleSound
  <2>4. Living(c)' <=> o.phase \in {"present", "deleting"}
    BY <2>1 DEF Living
  <2>5. \A j \in Kinds : w[j].step \in Creating => w[j].cr # c
    BY <1>0, <1>1, OwnResource DEF Creating
  <2> QED
    BY <1>1, <1>4, <2>1, <2>2, <2>3, <2>4, <2>5, ObjectStep
<1>5. CASE UNCHANGED objects /\ w' = [w EXCEPT ![k] = Idle]
  <2>1. \A j \in Kinds : w'[j] = w[j] \/ w'[j] = Idle
    BY <1>1, <1>5 DEF TypeInv, TypeOK
  <2> QED
    BY <1>5, <2>1, SameStores
<1> QED
  BY <1>2, <1>4, <1>5

LEMMA RemoveFinalizerSound ==
  ASSUME ProviderInv, TypeInv', NEW k \in Kinds, RemoveFinalizer(k)
  PROVE  ProviderInv'
<1> DEFINE o == [w[k].mg EXCEPT !.phase = "gone", !.finalizer = FALSE]
<1>1. Write(k, o, Idle) /\ w[k].step = "decide" /\ w[k].obs = "absent" /\ UNCHANGED <<nodes, edges>>
  BY DEF RemoveFinalizer, Deciding
<1>2. DecisionSound(k) /\ w[k].mg \in Object
  BY WorkerType DEF ProviderInv, WorkersSound
<1>3. o.phase = "gone" /\ o.ext = w[k].mg.ext /\ ~o.incomplete
  BY <1>1, <1>2 DEF Object, DecisionSound
<1>4. o.ext = 0 \/ ~Linked(o.ext)
  BY <1>1, <1>2, <1>3 DEF DecisionSound
<1> HIDE DEF o
<1> QED
  BY <1>1, <1>3, <1>4, IdleSound, WriteSound

LEMMA AddFinalizerSound ==
  ASSUME ProviderInv, TypeInv', NEW k \in Kinds, AddFinalizer(k)
  PROVE  ProviderInv'
<1> DEFINE o == [w[k].mg EXCEPT !.finalizer = TRUE]
           x == [w[k] EXCEPT !.mg = o]
<1>1. Write(k, o, x) /\ w[k].step = "decide" /\ w[k].mg.phase = "present" /\ UNCHANGED <<nodes, edges>>
  BY DEF AddFinalizer, Deciding
<1>2. DecisionSound(k) /\ w[k].mg \in Object /\ w[k] \in Worker
  BY WorkerType DEF ProviderInv, WorkersSound
<1>3. /\ o.phase = "present" /\ o.ext = w[k].mg.ext /\ o.finalizer /\ ~o.incomplete
      /\ x.step = "decide" /\ x.cr = w[k].cr /\ x.obs = w[k].obs /\ x.mg = o
  BY <1>1, <1>2 DEF Object, Worker, DecisionSound
<1> HIDE DEF o, x
<1>4. w'[k] = x => DecisionSound(k)' /\ CreationSound(k)'
  BY <1>1, <1>2, <1>3, SameGraph DEF DecisionSound, CreationSound, Creating
<1> QED
  BY <1>1, <1>3, <1>4, WriteSound

LEMMA WritePendingSound ==
  ASSUME ProviderInv, TypeInv', NEW k \in Kinds, WritePending(k)
  PROVE  ProviderInv'
<1>0. PICK marked \in BOOLEAN :
        LET o == [w[k].mg EXCEPT !.incomplete = marked]
        IN  Write(k, o, [w[k] EXCEPT !.mg = o, !.step = "createNode"])
  BY DEF WritePending, Marks
<1> DEFINE o == [w[k].mg EXCEPT !.incomplete = marked]
           x == [w[k] EXCEPT !.mg = o, !.step = "createNode"]
<1>1. /\ Write(k, o, x) /\ w[k].step = "decide" /\ UNCHANGED <<nodes, edges>>
      /\ w[k].mg.phase = "present" /\ w[k].mg.finalizer /\ w[k].obs = "absent"
  BY <1>0 DEF WritePending, Deciding
<1>2. DecisionSound(k) /\ w[k].mg \in Object /\ w[k] \in Worker /\ w[k].made = 0
  BY <1>1, WorkerType DEF ProviderInv, WorkersSound, Sane, Creating
<1>3. /\ o.phase = "present" /\ o.ext = w[k].mg.ext /\ o.finalizer
      /\ x.step = "createNode" /\ x.cr = w[k].cr /\ x.made = 0 /\ x.mg = o
  BY <1>1, <1>2 DEF Object, Worker
<1> HIDE DEF o, x
<1>4. ASSUME objects[w[k].cr] = w[k].mg, objects'[w[k].cr] = o, w'[k] = x
      PROVE  DecisionSound(k)' /\ CreationSound(k)'
  <2>1. \A m \in DOMAIN nodes : ~(nodes[m].owner = w[k].cr /\ nodes[m].fate = "unknown")
    BY <1>1, <1>2, <1>4 DEF ProviderInv, UnknownOutcomeMarked, DecisionSound
  <2>2. o.ext # 0 => ~Linked(o.ext)
    BY <1>1, <1>2, <1>3 DEF DecisionSound
  <2>3. objects'[w[k].cr].finalizer /\ Living(w[k].cr)'
    BY <1>3, <1>4 DEF Living
  <2> QED
    BY <1>1, <1>3, <1>4, <2>1, <2>2, <2>3, SameGraph DEF DecisionSound, CreationSound
<1> QED
  BY <1>1, <1>3, <1>4, WriteSound

LEMMA ResolveSound ==
  ASSUME ProviderInv, TypeInv', NEW c \in Users \cup Personas, ResolveReferences(c)
  PROVE  ProviderInv'
<1>1. c \in Managed /\ c \in Resources /\ objects[c] \in Object
  BY ManagedAreResources DEF Managed, ProviderInv, TypeInv, TypeOK
<1>2. PICK v : objects' = [objects EXCEPT ![c].values = v]
  BY DEF ResolveReferences
<1>3. UNCHANGED <<w, nodes, edges>> /\ objects \in [Resources -> Object]
  BY DEF ResolveReferences, ProviderInv, TypeInv, TypeOK
<1>4. /\ objects'[c] = [objects[c] EXCEPT !.values = v]
      /\ \A d \in Managed \ {c} : objects'[d] = objects[d]
  BY <1>1, <1>2, <1>3, ManagedAreResources
<1>5. /\ objects'[c].incomplete = objects[c].incomplete /\ objects'[c].phase = objects[c].phase
      /\ objects'[c].ext = objects[c].ext /\ objects'[c].finalizer = objects[c].finalizer
  BY <1>1, <1>4 DEF Object
<1>6. /\ objects[c].incomplete => objects[c].finalizer /\ Living(c)
      /\ objects[c].ext # 0 => (Living(c) => objects[c].finalizer)
  BY <1>1 DEF ProviderInv, ObjectsSound
<1> QED
  BY <1>1, <1>3, <1>4, <1>5, <1>6, ObjectStep DEF Living

(* Teams have no part in the graph. *)
LEMMA SameManaged ==
  ASSUME ProviderInv, TypeInv', UNCHANGED <<w, nodes, edges>>,
         \A d \in Managed : objects'[d] = objects[d]
  PROVE  ProviderInv'
<1>1. ASSUME NEW k \in Kinds
      PROVE  DecisionSound(k)' /\ CreationSound(k)'
  <2>1. w[k].step \in Creating => w[k].cr \in Managed
    BY WorkerType DEF Creating, ProviderInv
  <2> QED
    BY <2>1, SameGraph, Undisturbed DEF Living
<1>2. \A n \in DOMAIN nodes : nodes[n].owner \in Managed
  BY NodesType DEF Node, ProviderInv
<1>3. ObjectsSound' /\ UnknownOutcomeMarked' /\ Accounted'
  BY <1>2, SameGraph DEF ProviderInv, ObjectsSound, UnknownOutcomeMarked, Accounted, Living
<1> QED
  BY <1>1, <1>3, SameGraph DEF ProviderInv, WorkersSound

(* What people do to objects. *)
LEMMA PeopleSound ==
  ASSUME ProviderInv, TypeInv',
         \/ \E c \in Managed : ApplyResource(c)
         \/ \E c \in Users \cup Personas : EditSpec(c)
         \/ \E c \in Resources : DeleteResource(c)
         \/ \E t \in Teams : ImportTeam(t)
  PROVE  ProviderInv'
<1>1. PICK c \in Resources, o \in Object :
        /\ objects' = [objects EXCEPT ![c] = o] /\ UNCHANGED <<w, nodes, edges>>
        /\ c \in Managed =>
             \/ objects[c].phase = "absent" /\ o.ext = 0 /\ ~o.incomplete
             \/ /\ o.ext = objects[c].ext /\ o.incomplete = objects[c].incomplete
                /\ o.finalizer = objects[c].finalizer
                /\ \/ o.phase = objects[c].phase
                   \/ objects[c].finalizer /\ objects[c].phase = "present" /\ o.phase = "deleting"
                   \/ ~objects[c].finalizer /\ objects[c].phase = "present"
  <2>0. TypeInv /\ TypeOK
    BY DEF ProviderInv, TypeInv
  <2>1. ASSUME NEW c \in Managed, ApplyResource(c)
        PROVE  \E o : /\ objects' = [objects EXCEPT ![c] = o] /\ UNCHANGED <<w, nodes, edges>>
                      /\ objects[c].phase = "absent" /\ o.ext = 0 /\ ~o.incomplete
    <3>1. PICK r, p : WriteSpec(c, [Blank EXCEPT !.phase = "present", !.refs = r, !.providerRef = p])
      BY <2>1 DEF ApplyResource
    <3>2. PICK o : o = [Blank EXCEPT !.phase = "present", !.refs = r, !.providerRef = p]
      OBVIOUS
    <3>3. o.ext = 0 /\ ~o.incomplete
      BY <3>2 DEF Blank
    <3>4. objects' = [objects EXCEPT ![c] = o] /\ UNCHANGED <<w, nodes, edges>>
      BY <3>1, <3>2 DEF WriteSpec
    <3> QED
      BY <2>1, <3>3, <3>4 DEF ApplyResource
  <2>2. ASSUME NEW c \in Users \cup Personas, EditSpec(c)
        PROVE  \E o : /\ objects' = [objects EXCEPT ![c] = o] /\ UNCHANGED <<w, nodes, edges>>
                      /\ o.ext = objects[c].ext /\ o.incomplete = objects[c].incomplete
                      /\ o.finalizer = objects[c].finalizer /\ o.phase = objects[c].phase
    <3>1. objects[c] \in Object
      BY <2>0, ManagedAreResources DEF TypeOK, Managed
    <3>2. PICK r, v, p : WriteSpec(c, [objects[c] EXCEPT !.refs = r, !.values = v, !.providerRef = p])
      BY <2>2 DEF EditSpec
    <3>3. PICK o : o = [objects[c] EXCEPT !.refs = r, !.values = v, !.providerRef = p]
      OBVIOUS
    <3>4. /\ o.ext = objects[c].ext /\ o.incomplete = objects[c].incomplete
          /\ o.finalizer = objects[c].finalizer /\ o.phase = objects[c].phase
      BY <3>1, <3>3 DEF Object
    <3>5. objects' = [objects EXCEPT ![c] = o] /\ UNCHANGED <<w, nodes, edges>>
      BY <3>2, <3>3 DEF WriteSpec
    <3> QED
      BY <3>4, <3>5
  <2>3. ASSUME NEW c \in Resources, DeleteResource(c)
        PROVE  \E o : /\ objects' = [objects EXCEPT ![c] = o] /\ UNCHANGED <<w, nodes, edges>>
                      /\ o.ext = objects[c].ext /\ o.incomplete = objects[c].incomplete
                      /\ o.finalizer = objects[c].finalizer /\ objects[c].phase = "present"
                      /\ objects[c].finalizer => o.phase = "deleting"
    <3>1. objects[c] \in Object
      BY <2>0 DEF TypeOK
    <3>2. PICK o : o = [objects[c] EXCEPT !.phase = IF objects[c].finalizer THEN "deleting" ELSE "gone"]
      OBVIOUS
    <3>3. /\ o.ext = objects[c].ext /\ o.incomplete = objects[c].incomplete
          /\ o.finalizer = objects[c].finalizer /\ (objects[c].finalizer => o.phase = "deleting")
      BY <3>1, <3>2 DEF Object
    <3>4. objects' = [objects EXCEPT ![c] = o] /\ UNCHANGED <<w, nodes, edges>>
      BY <2>0, <2>3, <3>2 DEF DeleteResource, TypeOK
    <3> QED
      BY <2>3, <3>3, <3>4 DEF DeleteResource
  <2>4. ASSUME NEW t \in Teams, ImportTeam(t)
        PROVE  \E o : objects' = [objects EXCEPT ![t] = o] /\ UNCHANGED <<w, nodes, edges>>
    <3>1. objects' = [objects EXCEPT ![t] = [objects[t] EXCEPT !.phase = "present", !.ext = Foreign]]
      BY <2>0, <2>4 DEF ImportTeam, TypeOK, Resources
    <3> QED
      BY <2>4, <3>1 DEF ImportTeam
  <2>5. Users \cup Personas \subseteq Managed /\ Teams \subseteq Resources
    BY DEF Managed, Resources
  <2>6. ASSUME NEW c \in Resources, NEW o, objects' = [objects EXCEPT ![c] = o]
        PROVE  o \in Object /\ objects[c].finalizer \in BOOLEAN
    <3>1. objects'[c] = o /\ objects'[c] \in Object
      BY <2>0, <2>6 DEF TypeInv, TypeOK
    <3> QED
      BY <2>0, <3>1 DEF TypeOK, Object
  <2> QED
    BY <2>1, <2>2, <2>3, <2>4, <2>5, <2>6, ManagedAreResources
<1>2. objects'[c] = o /\ \A d \in Resources \ {c} : objects'[d] = objects[d]
  BY <1>1 DEF ProviderInv, TypeInv, TypeOK
<1>3. CASE c \in Managed
  <2>1. /\ objects[c].incomplete => objects[c].finalizer /\ Living(c)
        /\ objects[c].ext # 0 => (Living(c) => objects[c].finalizer)
    BY <1>3 DEF ProviderInv, ObjectsSound
  <2>2. objects[c].finalizer \in BOOLEAN
    BY <1>1 DEF ProviderInv, TypeInv, TypeOK, Object
  <2>3. \A d \in Managed \ {c} : objects'[d] = objects[d]
    BY <1>2, ManagedAreResources
  <2>4. CASE objects[c].phase = "absent" /\ o.ext = 0 /\ ~o.incomplete
    <3>1. ~Living(c) /\ ~objects[c].incomplete
      BY <2>1, <2>4 DEF Living
    <3> QED
      BY <1>1, <1>2, <1>3, <2>3, <2>4, <3>1, ObjectStep
  <2>5. CASE /\ o.ext = objects[c].ext /\ o.incomplete = objects[c].incomplete
             /\ o.finalizer = objects[c].finalizer
             /\ \/ o.phase = objects[c].phase
                \/ objects[c].finalizer /\ objects[c].phase = "present" /\ o.phase = "deleting"
                \/ ~objects[c].finalizer /\ objects[c].phase = "present"
    <3>1. o.phase = objects[c].phase => (Living(c)' <=> Living(c))
      BY <1>2 DEF Living
    <3>2. objects[c].finalizer /\ o.phase = "deleting" => Living(c)'
      BY <1>2 DEF Living
    <3>3. ~objects[c].finalizer /\ objects[c].phase = "present" => ~objects[c].incomplete /\ objects[c].ext = 0
      BY <2>1 DEF Living
    <3> QED
      BY <1>1, <1>2, <1>3, <2>1, <2>2, <2>3, <2>5, <3>1, <3>2, <3>3, ObjectStep
  <2> QED
    BY <1>1, <1>3, <2>4, <2>5
<1>4. CASE c \notin Managed
  <2>1. \A d \in Managed : objects'[d] = objects[d]
    BY <1>2, <1>4, ManagedAreResources
  <2> QED
    BY <1>1, <2>1, SameManaged
<1> QED
  BY <1>3, <1>4

-----------------------------------------------------------------------------
(* Steps that leave the objects as they are, and remove nodes or rewire them. *)

LEMMA GraphStep ==
  ASSUME ProviderInv, TypeInv', UNCHANGED objects, DOMAIN nodes' = DOMAIN nodes,
         \A n \in DOMAIN nodes : /\ nodes'[n].owner = nodes[n].owner
                                 /\ nodes'[n].fate = nodes[n].fate
                                 /\ nodes'[n].live => nodes[n].live,
         Revoked, EdgesSound',
         \A k \in Kinds :
           \/ /\ w'[k] = w[k]
              /\ w[k].step \in Creating =>
                   \A n \in DOMAIN nodes : nodes[n].owner = w[k].cr => nodes'[n] = nodes[n]
           \/ DecisionSound(k)' /\ CreationSound(k)'
  PROVE  ProviderInv'
<1>1. NodesKept
  BY DEF NodesKept
<1>2. \A k \in Kinds : DecisionSound(k)' /\ CreationSound(k)'
  BY <1>1, Undisturbed DEF Living
<1>3. ObjectsSound'
  BY <1>1, StaysRecorded DEF ProviderInv, ObjectsSound, Living
<1>4. UnknownOutcomeMarked'
  BY DEF ProviderInv, UnknownOutcomeMarked, Living
<1>5. Accounted'
  BY DEF ProviderInv, Accounted, Revoked, Living
<1> QED
  BY <1>2, <1>3, <1>4, <1>5 DEF ProviderInv, WorkersSound

(* The node that a worker relates is of its own creation. *)
LEMMA MadeOpen ==
  ASSUME ProviderInv, NEW k \in Kinds, w[k].step \in {"createEdges", "recordSucceeded"}
  PROVE  /\ w[k].made \in DOMAIN nodes /\ w[k].made # 0
         /\ nodes[w[k].made].live /\ nodes[w[k].made].fate \in Open
         /\ nodes[w[k].made].owner = w[k].cr /\ w[k].cr \in Serves(k)
BY MadeExists, WorkerType DEF ProviderInv, WorkersSound, CreationSound, Creating, Sane

LEMMA RelateSound ==
  ASSUME ProviderInv, TypeInv', NEW k \in Kinds,
         NEW E \in SUBSET G!Relationships(DOMAIN nodes), Relate(k, E), EdgesSound',
         \A e \in E \ edges :
           /\ nodes[e.from].owner \in Users => e.from = w[k].made
           /\ e.type = "ATTACHED_TO" => e.to = w[k].made
  PROVE  ProviderInv'
<1>1. /\ w[k].step = "createEdges" /\ edges' = E /\ UNCHANGED <<objects, usable, nodes>>
      /\ w'[k].step \in {"recordSucceeded", "recordFailed"}
      /\ w'[k].cr = w[k].cr /\ w'[k].made = w[k].made
      /\ \A j \in Kinds \ {k} : w'[j] = w[j]
  BY RelateType DEF ProviderInv, Creating
<1>2. Revoked
  <2>1. SUFFICES ASSUME NEW n \in DOMAIN nodes, nodes[n].fate = "recorded", Linked(n)'
                 PROVE  Linked(n)
    BY DEF Revoked
  <2>2. n # w[k].made
    BY <1>1, <2>1, MadeOpen DEF Open
  <2> QED
    BY <1>1, <2>1, <2>2 DEF Linked
<1>3. DecisionSound(k)' /\ CreationSound(k)'
  <2>1. CreationSound(k) /\ w[k].step \in Creating
    BY <1>1 DEF ProviderInv, WorkersSound, Creating
  <2>2. w[k].cr \in Managed
    BY <1>1, WorkerType DEF ProviderInv
  <2>3. objects[w[k].cr].ext # 0 => ~(Linked(objects[w[k].cr].ext)')
    BY <1>1, <1>2, <2>1, <2>2 DEF CreationSound, ProviderInv, ObjectsSound, RecordedFor, Revoked
  <2> QED
    BY <1>1, <2>1, <2>3 DEF DecisionSound, CreationSound, Creating, Living
<1> QED
  BY <1>1, <1>2, <1>3, GraphStep

LEMMA CreateUserSound ==
  ASSUME ProviderInv, TypeInv', CreateUser
  PROVE  ProviderInv'
<1> DEFINE m == w["User"].made
           E == G!AddUserPersonaRelation(edges, m, w["User"].mg.values, Labelled("Persona"))
<1>1. Relate("User", E) /\ E \in SUBSET G!Relationships(DOMAIN nodes) /\ "User" \in Kinds
  BY CreateType DEF CreateUser, ProviderInv, Kinds
<1>2. m \in DOMAIN nodes /\ nodes[m].live /\ nodes[m].owner \in Users
  BY <1>1, MadeOpen DEF Relate, Serves
<1>3. \A e \in E \ edges : e.from = m /\ e.type = "GRANTED" /\ e.to \in Labelled("Persona")
  BY DEF G!AddUserPersonaRelation
<1>4. Labelled("Persona") \subseteq {n \in DOMAIN nodes : nodes[n].live /\ nodes[n].owner \in Personas}
  BY LabelledType, LabelsExist DEF ProviderInv
<1>5. edges' = E /\ UNCHANGED nodes
  BY <1>1 DEF Relate
<1>6. \A e \in E \ edges : e.from = m /\ e.type # "ATTACHED_TO"
  BY <1>3
<1> HIDE DEF E
<1>7. EdgesSound'
  BY <1>2, <1>3, <1>4, <1>5 DEF ProviderInv, EdgesSound
<1> QED
  BY <1>1, <1>6, <1>7, RelateSound

LEMMA CreatePersonaSound ==
  ASSUME ProviderInv, TypeInv', CreatePersona
  PROVE  ProviderInv'
<1> DEFINE m == w["Persona"].made
           E == G!AddPersonaPermissionSetRelation(edges, m, w["Persona"].mg.values,
                                                  Labelled("PermissionSet"))
<1>1. Relate("Persona", E) /\ E \in SUBSET G!Relationships(DOMAIN nodes) /\ "Persona" \in Kinds
  BY CreateType DEF CreatePersona, ProviderInv, Kinds
<1>2. m \in DOMAIN nodes /\ nodes[m].live /\ nodes[m].owner \in Personas
  BY <1>1, MadeOpen DEF Relate, Serves
<1>3. \A e \in E \ edges : e.to = m /\ e.type = "ATTACHED_TO" /\ e.from \in Labelled("PermissionSet")
  BY DEF G!AddPersonaPermissionSetRelation
<1>4. Labelled("PermissionSet")
        \subseteq {n \in DOMAIN nodes : nodes[n].live /\ nodes[n].owner \in PermissionSets}
  BY LabelledType, LabelsExist DEF ProviderInv
<1>5. edges' = E /\ UNCHANGED nodes
  BY <1>1 DEF Relate
<1> HIDE DEF E
<1>6. \A e \in E \ edges : nodes[e.from].owner \notin Users /\ e.to = m
  BY <1>3, <1>4, NamesAssumption
<1>7. EdgesSound'
  BY <1>2, <1>3, <1>4, <1>5 DEF ProviderInv, EdgesSound
<1> QED
  BY <1>1, <1>6, <1>7, RelateSound

(* No relationship is of the type that UpdateUser replaces. *)
LEMMA UpdateUserSound ==
  ASSUME ProviderInv, TypeInv', UpdateUser
  PROVE  ProviderInv'
<1>1. /\ edges' = G!UpdateUser(edges, Named("User", w["User"].cr), w["User"].mg.values, Labelled("Persona"))
      /\ Quit("User") /\ UNCHANGED <<objects, nodes>> /\ "User" \in Kinds
  BY DEF UpdateUser, Rewire, Kinds
<1>2. \A e \in edges : e.type # "DESIGNATED"
  BY DEF ProviderInv, EdgesSound
<1>3. UNCHANGED edges
  BY <1>1, <1>2 DEF G!UpdateUser
<1>4. \A k \in Kinds : w'[k] = w[k] \/ w'[k] = Idle
  BY <1>1, WorkersAfter DEF ProviderInv
<1> QED
  BY <1>1, <1>3, <1>4, SameStores

(* Only Personas that have permission sets are given others. *)
LEMMA UpdatePersonaSound ==
  ASSUME ProviderInv, TypeInv', UpdatePersona
  PROVE  ProviderInv'
<1> DEFINE live == Labelled("PermissionSet")
<1>1. /\ edges' = G!UpdatePersona(edges, Named("Persona", w["Persona"].cr), w["Persona"].mg.values, live)
      /\ Quit("Persona") /\ UNCHANGED <<objects, nodes>> /\ "Persona" \in Kinds
  BY DEF UpdatePersona, Rewire, Kinds
<1>2. live \subseteq {n \in DOMAIN nodes : nodes[n].live /\ nodes[n].owner \in PermissionSets}
  BY LabelledType, LabelsExist DEF ProviderInv
<1>3. \A e \in edges' : \/ e \in edges
                        \/ /\ e.type = "ATTACHED_TO" /\ e.from \in live
                           /\ \E d \in edges : d.type = "ATTACHED_TO" /\ d.to = e.to
  BY <1>1 DEF G!UpdatePersona
<1> HIDE DEF live
<1>4. EdgesSound'
  <2>1. ASSUME NEW e \in edges', e \notin edges
        PROVE  nodes[e.to].live /\ nodes[e.to].owner \in Personas /\ e.type = "ATTACHED_TO"
               /\ nodes[e.from].live /\ nodes[e.from].owner \in PermissionSets
    BY <1>2, <1>3, <2>1 DEF ProviderInv, EdgesSound
  <2> QED
    BY <1>1, <2>1 DEF ProviderInv, EdgesSound
<1>5. Revoked
  <2>1. SUFFICES ASSUME NEW n \in DOMAIN nodes, Linked(n)'
                 PROVE  Linked(n)
    BY DEF Revoked
  <2>2. ASSUME nodes[n].owner \in Users
        PROVE  \E e \in edges : e.from = n
    <3>1. PICK e \in edges' : e.from = n
      BY <1>1, <2>1, <2>2 DEF Linked
    <3>2. n \notin live
      BY <1>2, <2>2, NamesAssumption
    <3> QED
      BY <1>3, <3>1, <3>2
  <2>3. ASSUME nodes[n].owner \in Personas
        PROVE  \E e \in edges : e.type = "ATTACHED_TO" /\ e.to = n
    BY <1>1, <1>3, <2>1, <2>3 DEF Linked
  <2> QED
    BY <1>1, <2>1, <2>2, <2>3 DEF Linked
<1>6. \A k \in Kinds : w'[k] = w[k] \/ w'[k] = Idle
  BY <1>1, WorkersAfter DEF ProviderInv
<1> QED
  BY <1>1, <1>4, <1>5, <1>6, IdleSound, GraphStep

(* A node goes with its relationships. *)
LEMMA NodeRemoved ==
  ASSUME ProviderInv, TypeInv', NEW n, nodes' = [nodes EXCEPT ![n].live = FALSE],
         edges' = G!DetachDelete(edges, n), UNCHANGED objects,
         \A k \in Kinds :
           \/ /\ w'[k] = w[k]
              /\ w[k].step \in Creating /\ n \in DOMAIN nodes => nodes[n].owner # w[k].cr
           \/ w'[k] = Idle
  PROVE  ProviderInv'
<1>1. /\ DOMAIN nodes' = DOMAIN nodes
      /\ \A m \in DOMAIN nodes : /\ nodes'[m].owner = nodes[m].owner
                                 /\ nodes'[m].fate = nodes[m].fate
                                 /\ nodes'[m].live <=> nodes[m].live /\ m # n
  BY NodeDies DEF ProviderInv
<1>2. \A m \in DOMAIN nodes : m # n => nodes'[m] = nodes[m]
  OBVIOUS
<1>3. edges' \subseteq edges /\ \A e \in edges' : e.from # n /\ e.to # n
  BY DEF G!DetachDelete
<1>4. Revoked
  BY <1>1, <1>3, SmallerGraph DEF NodesKept
<1>5. EdgesSound'
  <2>1. \A e \in edges : e.from \in DOMAIN nodes /\ e.to \in DOMAIN nodes
    BY DEF ProviderInv, TypeInv, TypeOK, G!Relationships
  <2> QED
    BY <1>1, <1>3, <2>1 DEF ProviderInv, EdgesSound
<1>6. \A k \in Kinds :
        \/ /\ w'[k] = w[k]
           /\ w[k].step \in Creating =>
                \A m \in DOMAIN nodes : nodes[m].owner = w[k].cr => nodes'[m] = nodes[m]
        \/ DecisionSound(k)' /\ CreationSound(k)'
  BY <1>2, IdleSound
<1> QED
  BY <1>1, <1>4, <1>5, <1>6, GraphStep

LEMMA DeleteSound ==
  ASSUME ProviderInv, TypeInv', NEW k \in Kinds, Delete(k)
  PROVE  ProviderInv'
<1>1. PICK n : n = w[k].mg.ext
  OBVIOUS
<1>2. /\ nodes' = [nodes EXCEPT ![n].live = FALSE] /\ edges' = G!DetachDelete(edges, n)
      /\ Quit(k) /\ UNCHANGED objects /\ w[k].step = "decide"
  BY <1>1 DEF Delete, Deciding
<1>3. n \in DOMAIN nodes => nodes[n].owner = w[k].cr
  <2>1. n = 0 => n \notin DOMAIN nodes
    BY NodesType DEF ProviderInv
  <2> QED
    BY <1>1, <1>2, <2>1 DEF ProviderInv, WorkersSound, DecisionSound, RecordedFor
<1>4. w'[k] = Idle /\ \A j \in Kinds \ {k} : w'[j] = w[j]
  BY <1>2 DEF Quit, Continue, ProviderInv, TypeInv, TypeOK
<1>5. \A j \in Kinds \ {k} : w[j].step \in Creating => w[j].cr # w[k].cr
  BY <1>2, OwnResource DEF ProviderInv, Creating
<1> QED
  BY <1>2, <1>3, <1>4, <1>5, NodeRemoved

-----------------------------------------------------------------------------
(* Steps that make a node, or record what became of one. *)

LEMMA NodeAdded ==
  ASSUME ProviderInv, NEW c \in Managed, NEW f \in Open \cup {"recorded", "failed"},
         nodes' = Append(nodes, [owner |-> c, live |-> TRUE, fate |-> f]), UNCHANGED edges
  PROVE  /\ DOMAIN nodes' = DOMAIN nodes \cup {Len(nodes')} /\ Len(nodes') \notin DOMAIN nodes
         /\ \A m \in DOMAIN nodes' : m <= Len(nodes')
         /\ Len(nodes') # 0
         /\ \A n \in DOMAIN nodes : nodes'[n] = nodes[n] /\ (Linked(n)' <=> Linked(n))
         /\ nodes'[Len(nodes')] = [owner |-> c, live |-> TRUE, fate |-> f]
         /\ NodesKept /\ Revoked /\ EdgesSound'
<1>1. /\ Len(nodes') = Len(nodes) + 1 /\ Len(nodes) \in Nat
      /\ DOMAIN nodes' = DOMAIN nodes \cup {Len(nodes')} /\ Len(nodes') \notin DOMAIN nodes
      /\ \A m \in DOMAIN nodes' : m <= Len(nodes')
      /\ \A m \in DOMAIN nodes : nodes'[m] = nodes[m]
      /\ nodes'[Len(nodes')] = [owner |-> c, live |-> TRUE, fate |-> f]
  BY NodeMade, NodesType DEF ProviderInv
<1>2. \A n \in DOMAIN nodes : Linked(n)' <=> Linked(n)
  BY <1>1 DEF Linked
<1>3. EdgesSound'
  <2>1. \A e \in edges : e.from \in DOMAIN nodes /\ e.to \in DOMAIN nodes
    BY DEF ProviderInv, TypeInv, TypeOK, G!Relationships
  <2> QED
    BY <1>1, <2>1 DEF ProviderInv, EdgesSound
<1>4. NodesKept /\ Revoked
  BY <1>1, <1>2 DEF NodesKept, Revoked
<1> QED
  BY <1>1, <1>2, <1>3, <1>4

LEMMA AddNodeSound ==
  ASSUME ProviderInv, TypeInv', NEW k \in Kinds, AddNode(k, "createEdges")
  PROVE  ProviderInv'
<1>0. PICK c, f : c = w[k].cr /\ f = Unrecorded(w[k].mg.incomplete)
  OBVIOUS
<1>1. /\ w[k].step = "createNode" /\ UNCHANGED <<objects, edges>>
      /\ w'[k].step \in {"createEdges", "recordFailed"} /\ w'[k].cr = c
      /\ \A j \in Kinds \ {k} : w'[j] = w[j]
      /\ \/ /\ nodes' = Append(nodes, [owner |-> c, live |-> TRUE, fate |-> f])
            /\ w'[k].made = Len(nodes')
         \/ UNCHANGED nodes /\ w'[k].made = 0
  BY <1>0, AddNodeType DEF ProviderInv
<1>2. w[k].made = 0 /\ c \in Managed
  BY <1>0, <1>1, WorkerType DEF ProviderInv, Sane
<1>3. /\ f \in Open /\ (f = "unknown" => objects[c].incomplete)
      /\ \A m \in DOMAIN nodes : ~(nodes[m].owner = c /\ nodes[m].fate = "unknown")
      /\ objects[c].ext # 0 => RecordedFor(objects[c].ext, c) /\ ~Linked(objects[c].ext)
      /\ Living(c) /\ objects[c].finalizer
  <2>1. \A m \in DOMAIN nodes : m # 0
    BY NodesType DEF ProviderInv
  <2> QED
    BY <1>0, <1>1, <1>2, <2>1
       DEF ProviderInv, WorkersSound, CreationSound, Creating, ObjectsSound, Unrecorded, Open
<1>4. CASE UNCHANGED nodes /\ w'[k].made = 0
  <2>1. DecisionSound(k)' /\ CreationSound(k)'
    BY <1>1, <1>3, <1>4, SameGraph DEF DecisionSound, CreationSound, Living
  <2> QED
    BY <1>1, <1>4, <2>1, SameStores
<1>5. CASE /\ nodes' = Append(nodes, [owner |-> c, live |-> TRUE, fate |-> f])
           /\ w'[k].made = Len(nodes')
  <2>1. /\ DOMAIN nodes' = DOMAIN nodes \cup {Len(nodes')} /\ Len(nodes') \notin DOMAIN nodes
        /\ \A m \in DOMAIN nodes' : m <= Len(nodes')
        /\ \A n \in DOMAIN nodes : nodes'[n] = nodes[n] /\ (Linked(n)' <=> Linked(n))
        /\ nodes'[Len(nodes')] = [owner |-> c, live |-> TRUE, fate |-> f]
        /\ NodesKept /\ Revoked /\ EdgesSound'
    BY <1>1, <1>2, <1>3, <1>5, NodeAdded
  <2>2. PICK new : new = Len(nodes')
    OBVIOUS
  <2>3. /\ DOMAIN nodes' = DOMAIN nodes \cup {new} /\ new \notin DOMAIN nodes
        /\ nodes'[new].owner = c /\ nodes'[new].live /\ nodes'[new].fate = f
        /\ w'[k].made = new /\ \A m \in DOMAIN nodes' : m <= new
    BY <1>5, <2>1, <2>2
  <2>4. DecisionSound(k)'
    BY <1>1 DEF DecisionSound
  <2>5. CreationSound(k)'
    <3>1. objects[c].ext # 0 => ~(Linked(objects[c].ext)')
      BY <1>1, <1>3, <2>1 DEF RecordedFor
    <3> QED
      BY <1>1, <1>3, <2>1, <2>3, <3>1 DEF CreationSound, Living
  <2>6. ASSUME NEW j \in Kinds \ {k}
        PROVE  DecisionSound(j)' /\ CreationSound(j)'
    <3>1. w[j].step \in Creating => w[j].cr # c
      BY <1>0, <1>1, OwnResource DEF ProviderInv, Creating
    <3>2. \A n \in DOMAIN nodes' : nodes'[n].owner # c => n \in DOMAIN nodes /\ nodes'[n] = nodes[n]
      BY <2>1, <2>3
    <3> QED
      BY <1>1, <2>1, <3>1, <3>2, Undisturbed DEF Living
  <2>7. ObjectsSound'
    BY <1>1, <2>1, StaysRecorded DEF ProviderInv, ObjectsSound, Living
  <2>8. UnknownOutcomeMarked'
    <3>1. ASSUME NEW n \in DOMAIN nodes', nodes'[n].fate = "unknown"
          PROVE  /\ Living(nodes[n].owner)' /\ objects'[nodes'[n].owner].incomplete
                 /\ \A m \in DOMAIN nodes' : nodes'[m].owner = nodes'[n].owner => m <= n
      <4>1. CASE n = new
        BY <1>1, <1>3, <2>3, <3>1, <4>1 DEF Living
      <4>2. CASE n # new
        <5>1. n \in DOMAIN nodes /\ nodes'[n] = nodes[n] /\ nodes[n].owner # c
          BY <1>3, <2>1, <2>3, <3>1, <4>2
        <5>2. /\ Living(nodes[n].owner) /\ objects[nodes[n].owner].incomplete
              /\ \A m \in DOMAIN nodes : nodes[m].owner = nodes[n].owner => m <= n
          BY <3>1, <5>1 DEF ProviderInv, UnknownOutcomeMarked
        <5>3. \A m \in DOMAIN nodes' : m = new \/ (m \in DOMAIN nodes /\ nodes'[m] = nodes[m])
          BY <2>1, <2>3
        <5> QED
          BY <1>1, <2>3, <5>1, <5>2, <5>3 DEF Living
      <4> QED
        BY <4>1, <4>2
    <3> QED
      BY <3>1 DEF UnknownOutcomeMarked
  <2>9. Accounted'
    <3>1. \A n \in DOMAIN nodes' : nodes'[n].fate = "recorded" => n \in DOMAIN nodes
      BY <1>3, <2>3 DEF Open
    <3> QED
      BY <1>1, <2>1, <3>1 DEF ProviderInv, Accounted, Living
  <2> QED
    BY <2>1, <2>4, <2>5, <2>6, <2>7, <2>8, <2>9 DEF ProviderInv, WorkersSound
<1> QED
  BY <1>1, <1>4, <1>5

(* The outcome of a creation is recorded: its node was the only unknown one of *)
(* its resource, and the one that the resource names so far grants nothing.    *)
LEMMA RecordSound ==
  ASSUME ProviderInv, TypeInv', NEW k \in Kinds, RecordFailed(k) \/ RecordSucceeded(k)
  PROVE  ProviderInv'
<1>0. PICK c, made : c = w[k].cr /\ made = w[k].made
  OBVIOUS
<1>1. PICK f \in {"recorded", "failed"}, ext \in 0 .. Foreign, b \in BOOLEAN :
        /\ objects' = [objects EXCEPT ![c] =
                         [objects[c] EXCEPT !.incomplete = FALSE, !.failed = b, !.ext = ext]]
        /\ nodes' = IF made = 0 THEN nodes ELSE [nodes EXCEPT ![made].fate = f]
        /\ IF w[k].step = "recordFailed" THEN f = "failed" /\ ext = objects[c].ext
                                         ELSE f = "recorded" /\ ext = made
  BY <1>0, RecordType DEF ProviderInv
<1>2. w[k].step \in {"recordFailed", "recordSucceeded"} /\ Quit(k) /\ UNCHANGED edges
  BY RecordType DEF ProviderInv
<1>3. w'[k] = Idle /\ \A j \in Kinds \ {k} : w'[j] = w[j]
  BY <1>2 DEF Quit, Continue, ProviderInv, TypeInv, TypeOK
<1>4. /\ c \in Managed /\ c \in Resources /\ objects[c] \in Object
      /\ made = 0 \/ made \in DOMAIN nodes
      /\ w[k].step = "recordSucceeded" => made # 0
  BY <1>0, <1>2, WorkerType, NodesType DEF ProviderInv, TypeInv, TypeOK, Sane
<1>5. /\ objects'[c].incomplete = FALSE /\ objects'[c].ext = ext
      /\ objects'[c].phase = objects[c].phase /\ objects'[c].finalizer = objects[c].finalizer
      /\ \A d \in Managed \ {c} : objects'[d] = objects[d]
  <2>1. objects'[c] = [objects[c] EXCEPT !.incomplete = FALSE, !.failed = b, !.ext = ext]
        /\ \A d \in Managed \ {c} : objects'[d] = objects[d]
    BY <1>1, <1>4, ManagedAreResources DEF ProviderInv, TypeInv, TypeOK
  <2> QED
    BY <1>4, <2>1 DEF Object
<1>6. /\ objects[c].finalizer /\ Living(c)
      /\ \A m \in DOMAIN nodes : nodes[m].owner = c /\ nodes[m].fate = "unknown" => m = made
      /\ made # 0 => nodes[made].owner = c /\ nodes[made].live /\ nodes[made].fate \in Open
      /\ objects[c].ext # 0 => RecordedFor(objects[c].ext, c) /\ ~Linked(objects[c].ext)
  BY <1>0, <1>2, <1>4 DEF ProviderInv, WorkersSound, CreationSound, Creating, ObjectsSound
<1>7. /\ DOMAIN nodes' = DOMAIN nodes
      /\ \A m \in DOMAIN nodes : /\ nodes'[m].owner = nodes[m].owner
                                 /\ nodes'[m].live = nodes[m].live
                                 /\ nodes'[m].fate = IF m = made THEN f ELSE nodes[m].fate
                                 /\ m # made => nodes'[m] = nodes[m]
  <2>1. CASE made = 0
    BY <1>1, <2>1, NodesType DEF ProviderInv
  <2>2. CASE made # 0
    <3>1. nodes' = [nodes EXCEPT ![made].fate = f]
      BY <1>1, <2>2
    <3>2. \A m \in DOMAIN nodes : m # made => nodes'[m] = nodes[m]
      BY <3>1
    <3> QED
      BY <3>1, <3>2, FateRecorded DEF ProviderInv
  <2> QED
    BY <2>1, <2>2
<1>8. \A n \in DOMAIN nodes : Linked(n)' <=> Linked(n)
  BY <1>2, <1>7 DEF Linked
<1>9. NodesKept /\ Revoked
  <2>1. \A n \in DOMAIN nodes : nodes[n].fate \notin Open => n # made
    BY <1>4, <1>6, NodesType DEF ProviderInv
  <2> QED
    BY <1>7, <1>8, <2>1 DEF NodesKept, Revoked
<1>10. EdgesSound'
  <2>1. \A e \in edges : e.from \in DOMAIN nodes /\ e.to \in DOMAIN nodes
    BY DEF ProviderInv, TypeInv, TypeOK, G!Relationships
  <2> QED
    BY <1>2, <1>7, <2>1 DEF ProviderInv, EdgesSound
<1>11. ObjectsSound'
  <2>1. ASSUME NEW d \in Managed, d # c
        PROVE  /\ objects'[d].incomplete => objects'[d].finalizer /\ Living(d)'
               /\ objects'[d].ext # 0 =>
                    RecordedFor(objects[d].ext, d)' /\ (Living(d)' => objects'[d].finalizer)
    <3>1. objects'[d] = objects[d]
      BY <1>5, <2>1
    <3>2. /\ objects[d].incomplete => objects[d].finalizer /\ Living(d)
          /\ objects[d].ext # 0 => RecordedFor(objects[d].ext, d) /\ (Living(d) => objects[d].finalizer)
      BY DEF ProviderInv, ObjectsSound
    <3>3. objects[d].ext # 0 => RecordedFor(objects[d].ext, d)'
      BY <1>9, <3>1, <3>2, StaysRecorded DEF RecordedFor
    <3> QED
      BY <3>1, <3>2, <3>3 DEF Living
  <2>2. ext # 0 => RecordedFor(ext, c)'
    BY <1>1, <1>2, <1>4, <1>6, <1>7, <1>9, StaysRecorded DEF RecordedFor
  <2>3. objects'[c].ext # 0 => RecordedFor(objects[c].ext, c)'
    BY <1>5, <2>2 DEF RecordedFor
  <2>4. /\ objects'[c].incomplete => objects'[c].finalizer /\ Living(c)'
        /\ Living(c)' => objects'[c].finalizer
    BY <1>5, <1>6
  <2> QED
    BY <2>1, <2>3, <2>4 DEF ObjectsSound
<1>12. \A n \in DOMAIN nodes : nodes[n].owner \in Managed /\ n # 0
  BY NodesType DEF ProviderInv, Node
<1>13. UnknownOutcomeMarked'
  <2>1. ASSUME NEW n \in DOMAIN nodes', nodes'[n].fate = "unknown"
        PROVE  n \in DOMAIN nodes /\ nodes[n].fate = "unknown" /\ nodes[n].owner \in Managed \ {c}
               /\ nodes'[n].owner = nodes[n].owner
    BY <1>1, <1>6, <1>7, <1>12, <2>1
  <2>2. ASSUME NEW n \in DOMAIN nodes', nodes'[n].fate = "unknown"
        PROVE  Living(nodes[n].owner)' /\ objects'[nodes'[n].owner].incomplete
    <3>1. Living(nodes[n].owner) /\ objects[nodes[n].owner].incomplete
      BY <2>1, <2>2 DEF ProviderInv, UnknownOutcomeMarked
    <3> QED
      BY <1>5, <2>1, <2>2, <3>1 DEF Living
  <2>3. ASSUME NEW n \in DOMAIN nodes', nodes'[n].fate = "unknown",
               NEW m \in DOMAIN nodes', nodes'[m].owner = nodes'[n].owner
        PROVE  m <= n
    <3>1. m \in DOMAIN nodes /\ nodes[m].owner = nodes[n].owner
      BY <1>7, <2>1, <2>3
    <3> QED
      BY <2>1, <2>3, <3>1 DEF ProviderInv, UnknownOutcomeMarked
  <2> QED
    BY <2>2, <2>3 DEF UnknownOutcomeMarked
<1>14. Accounted'
  <2>1. ASSUME NEW n \in DOMAIN nodes, nodes'[n].fate = "recorded", Linked(n)
        PROVE  objects'[nodes[n].owner].ext = n
               /\ objects'[nodes[n].owner].phase \in {"present", "deleting"}
    <3>1. CASE n = made
      BY <1>1, <1>2, <1>5, <1>6, <1>7, <1>12, <2>1, <3>1 DEF Living
    <3>2. CASE n # made
      <4>1. objects[nodes[n].owner].ext = n /\ Living(nodes[n].owner)
        BY <1>7, <2>1, <3>2 DEF ProviderInv, Accounted
      <4>2. nodes[n].owner # c
        BY <1>6, <1>12, <2>1, <4>1
      <4> QED
        BY <1>5, <1>12, <4>1, <4>2 DEF Living
    <3> QED
      BY <3>1, <3>2
  <2> QED
    BY <1>7, <1>8, <2>1 DEF Accounted, Living
<1>15. ASSUME NEW j \in Kinds \ {k}
       PROVE  DecisionSound(j)' /\ CreationSound(j)'
  <2>1. w[j].step \in Creating => w[j].cr \in Managed \ {c}
    BY <1>0, <1>2, OwnResource DEF ProviderInv, Creating
  <2>2. \A n \in DOMAIN nodes : nodes[n].owner # c => nodes'[n] = nodes[n]
    BY <1>6, <1>7, <1>12
  <2> QED
    BY <1>3, <1>5, <1>7, <1>9, <2>1, <2>2, Undisturbed DEF Living
<1>16. DecisionSound(k)' /\ CreationSound(k)'
  BY <1>3, IdleSound
<1> QED
  BY <1>10, <1>11, <1>13, <1>14, <1>15, <1>16 DEF ProviderInv, WorkersSound

LEMMA PermissionSetStepSound ==
  ASSUME ProviderInv, TypeInv', NEW s \in PermissionSets, PermissionSetStep(s)
  PROVE  ProviderInv'
<1>1. s \in Managed /\ s \in Resources /\ objects[s] \in Object /\ UNCHANGED w
  BY ManagedAreResources DEF Managed, ProviderInv, TypeInv, TypeOK, PermissionSetStep,
     CreatePermissionSet, DeletePermissionSet, ReleasePermissionSet
<1>2. \A k \in Kinds : w[k].step \in Creating => w[k].cr \in Managed \ {s}
  BY OwnResource DEF ProviderInv, Creating
<1>3. CASE CreatePermissionSet(s)
  <2>0. Len(nodes) + 1 \in Nat \ {0} /\ Len(nodes) + 1 \in 0 .. Foreign
    BY <1>3, NodesType, BoundsAssumption DEF ProviderInv, CreatePermissionSet, Foreign
  <2>1. PICK o \in Object, f \in Open \cup {"recorded", "failed"}, new \in Nat \ {0} :
          /\ new = Len(nodes) + 1
          /\ objects' = [objects EXCEPT ![s] = o]
          /\ nodes' = Append(nodes, [owner |-> s, live |-> TRUE, fate |-> f])
          /\ o.phase = objects[s].phase /\ o.finalizer
          /\ o.ext = IF f = "recorded" THEN new ELSE objects[s].ext
          /\ f = "unknown" => o.incomplete
          /\ ~objects[s].incomplete /\ f # "unknown" => ~o.incomplete
    BY <1>3, <2>0, PermissionSetWritten DEF ProviderInv
  <2>2. /\ objects[s].phase = "present" /\ ~objects[s].incomplete /\ objects[s].ext = 0 /\ UNCHANGED edges
    BY <1>3 DEF CreatePermissionSet, Ready
  <2>3. new = Len(nodes')
    BY <1>1, <2>1, NodeMade DEF ProviderInv
  <2>4. /\ DOMAIN nodes' = DOMAIN nodes \cup {new} /\ new \notin DOMAIN nodes
        /\ \A n \in DOMAIN nodes : nodes'[n] = nodes[n] /\ (Linked(n)' <=> Linked(n))
        /\ nodes'[new].owner = s /\ nodes'[new].live /\ nodes'[new].fate = f
        /\ NodesKept /\ Revoked /\ EdgesSound' /\ \A m \in DOMAIN nodes' : m <= new
    <3>1. /\ DOMAIN nodes' = DOMAIN nodes \cup {Len(nodes')} /\ Len(nodes') \notin DOMAIN nodes
          /\ \A m \in DOMAIN nodes' : m <= Len(nodes')
          /\ \A n \in DOMAIN nodes : nodes'[n] = nodes[n] /\ (Linked(n)' <=> Linked(n))
          /\ nodes'[Len(nodes')] = [owner |-> s, live |-> TRUE, fate |-> f]
          /\ NodesKept /\ Revoked /\ EdgesSound'
      BY <1>1, <2>1, <2>2, NodeAdded
    <3> QED
      BY <2>3, <3>1
  <2>5. /\ objects'[s].phase = "present" /\ objects'[s].finalizer
        /\ objects'[s].ext = IF f = "recorded" THEN new ELSE 0
        /\ f = "unknown" <=> objects'[s].incomplete
        /\ \A d \in Managed \ {s} : objects'[d] = objects[d]
    <3>1. objects'[s] = o /\ \A d \in Managed \ {s} : objects'[d] = objects[d]
      BY <1>1, <2>1, ManagedAreResources DEF ProviderInv, TypeInv, TypeOK
    <3> QED
      BY <2>1, <2>2, <3>1
  <2>6. WorkersSound'
    <3>1. \A n \in DOMAIN nodes' : nodes'[n].owner # s => n \in DOMAIN nodes /\ nodes'[n] = nodes[n]
      BY <2>4
    <3>2. ASSUME NEW k \in Kinds
          PROVE  DecisionSound(k)' /\ CreationSound(k)'
      BY <1>1, <1>2, <2>4, <2>5, <3>1, Undisturbed DEF Living
    <3> QED
      BY <3>2 DEF WorkersSound
  <2>7. ObjectsSound'
    <3>1. ASSUME NEW d \in Managed \ {s}
          PROVE  /\ objects'[d].incomplete => objects'[d].finalizer /\ Living(d)'
                 /\ objects'[d].ext # 0 =>
                      RecordedFor(objects[d].ext, d)' /\ (Living(d)' => objects'[d].finalizer)
      <4>1. objects'[d] = objects[d]
        BY <2>5
      <4>2. /\ objects[d].incomplete => objects[d].finalizer /\ Living(d)
            /\ objects[d].ext # 0 => RecordedFor(objects[d].ext, d) /\ (Living(d) => objects[d].finalizer)
        BY DEF ProviderInv, ObjectsSound
      <4>3. objects[d].ext # 0 => RecordedFor(objects[d].ext, d)'
        BY <2>4, <4>1, <4>2 DEF RecordedFor
      <4> QED
        BY <4>1, <4>2, <4>3 DEF Living
    <3>2. objects'[s].ext # 0 => RecordedFor(objects[s].ext, s)'
      BY <2>1, <2>4, <2>5 DEF RecordedFor
    <3>3. Living(s)'
      BY <2>5 DEF Living
    <3> QED
      BY <2>5, <3>1, <3>2, <3>3 DEF ObjectsSound
  <2>8. \A n \in DOMAIN nodes : nodes[n].owner \in Managed /\ n # 0
    BY NodesType DEF ProviderInv, Node
  <2>9. \A n \in DOMAIN nodes' : n = new \/ (n \in DOMAIN nodes /\ nodes'[n] = nodes[n])
    BY <2>4
  <2>10. UnknownOutcomeMarked'
    <3>1. ASSUME NEW n \in DOMAIN nodes', nodes'[n].fate = "unknown"
          PROVE  /\ Living(nodes[n].owner)' /\ objects'[nodes'[n].owner].incomplete
                 /\ \A m \in DOMAIN nodes' : nodes'[m].owner = nodes'[n].owner => m <= n
      <4>1. CASE n = new
        BY <2>4, <2>5, <3>1, <4>1 DEF Living
      <4>2. CASE n # new
        <5>1. n \in DOMAIN nodes /\ nodes'[n] = nodes[n]
          BY <2>9, <4>2
        <5>2. /\ Living(nodes[n].owner) /\ objects[nodes[n].owner].incomplete
              /\ \A m \in DOMAIN nodes : nodes[m].owner = nodes[n].owner => m <= n
          BY <3>1, <5>1 DEF ProviderInv, UnknownOutcomeMarked
        <5>3. nodes[n].owner \in Managed \ {s}
          BY <2>2, <2>8, <5>1, <5>2
        <5> QED
          BY <2>4, <2>5, <2>9, <5>1, <5>2, <5>3 DEF Living
      <4> QED
        BY <4>1, <4>2
    <3> QED
      BY <3>1 DEF UnknownOutcomeMarked
  <2>11. Accounted'
    <3>1. \A n \in DOMAIN nodes : nodes[n].fate = "recorded" /\ Linked(n) =>
            /\ objects[nodes[n].owner].ext = n /\ Living(nodes[n].owner)
            /\ nodes[n].owner \in Managed \ {s}
      BY <2>2, <2>8 DEF ProviderInv, Accounted
    <3>2. ASSUME NEW n \in DOMAIN nodes', nodes'[n].fate = "recorded", Linked(n)'
          PROVE  objects'[nodes'[n].owner].ext = n
                 /\ objects'[nodes'[n].owner].phase \in {"present", "deleting"}
      BY <2>4, <2>5, <2>9, <3>1, <3>2 DEF Living
    <3> QED
      BY <3>2 DEF Accounted, Living
  <2> QED
    BY <2>4, <2>6, <2>7, <2>10, <2>11 DEF ProviderInv
<1>4. CASE DeletePermissionSet(s)
  <2>1. PICK n : n = objects[s].ext
    OBVIOUS
  <2>2. /\ nodes' = [nodes EXCEPT ![n].live = FALSE] /\ edges' = G!DetachDelete(edges, n)
        /\ UNCHANGED <<objects, w>> /\ n \in Labelled("PermissionSet")
    BY <1>4, <2>1 DEF DeletePermissionSet
  <2>3. n \in DOMAIN nodes /\ nodes[n].owner \in PermissionSets
    BY <2>2, LabelledType, LabelsExist DEF ProviderInv
  <2>4. \A k \in Kinds : w[k].step \in Creating => nodes[n].owner # w[k].cr
    BY <2>3, OwnResource DEF ProviderInv, Creating
  <2> QED
    BY <2>2, <2>4, NodeRemoved
<1>5. CASE ReleasePermissionSet(s)
  <2>1. /\ objects[s].phase = "deleting" /\ objects[s].ext \notin Labelled("PermissionSet")
        /\ ~objects[s].incomplete /\ UNCHANGED <<nodes, edges>>
        /\ objects' = [objects EXCEPT ![s].phase = "gone", ![s].finalizer = FALSE]
    BY <1>5 DEF ReleasePermissionSet, Ready
  <2>2. PICK o : o = [objects[s] EXCEPT !.phase = "gone", !.finalizer = FALSE]
    OBVIOUS
  <2>3. objects'[s] = o /\ \A d \in Managed \ {s} : objects'[d] = objects[d]
    BY <1>1, <2>1, <2>2, ManagedAreResources DEF ProviderInv, TypeInv, TypeOK
  <2>4. o.phase = "gone" /\ o.ext = objects[s].ext /\ ~o.incomplete
    BY <1>1, <2>1, <2>2 DEF Object
  <2>5. objects[s].ext # 0 => ~Linked(objects[s].ext)
    BY <1>1, <2>1, LabelledType DEF ProviderInv, ObjectsSound, RecordedFor, Linked
  <2>6. ~Living(s)'
    BY <2>3, <2>4 DEF Living
  <2> QED
    BY <1>1, <1>2, <2>1, <2>3, <2>4, <2>5, <2>6, ObjectStep
<1> QED
  BY <1>3, <1>4, <1>5 DEF PermissionSetStep

-----------------------------------------------------------------------------
(* The theorems. *)

LEMMA InitSound == Init => ProviderInv
<1> SUFFICES ASSUME Init PROVE ProviderInv
  OBVIOUS
<1>1. TypeInv /\ nodes = <<>> /\ edges = {} /\ DOMAIN nodes = {}
  BY InitType, EmptySeq DEF Init
<1>2. ObjectsSound
  BY ManagedAreResources DEF Init, ObjectsSound, Blank
<1>3. WorkersSound
  BY IdleType DEF Init, WorkersSound, DecisionSound, CreationSound, Creating
<1> QED
  BY <1>1, <1>2, <1>3 DEF ProviderInv, EdgesSound, UnknownOutcomeMarked, Accounted

LEMMA NextSound == ProviderInv /\ [Next]_vars => ProviderInv'
<1> SUFFICES ASSUME ProviderInv, [Next]_vars PROVE ProviderInv'
  OBVIOUS
<1>1. TypeInv'
  BY NextType DEF ProviderInv
<1>2. "User" \in Kinds /\ "Persona" \in Kinds
  BY DEF Kinds
<1>3. ASSUME NEW c \in Users \cup Personas, Reconcile(c)
      PROVE  ProviderInv'
  BY <1>1, <1>3, ObserveSound, ResolveSound DEF Reconcile
<1>4. ASSUME NEW k \in Kinds, Step(k)
      PROVE  ProviderInv'
  BY <1>1, <1>4, RemoveFinalizerSound, AddFinalizerSound, WritePendingSound, RecordSound,
     UndisturbedSound DEF Step
<1>5. CASE UserStep
  BY <1>1, <1>2, <1>5, AddNodeSound, CreateUserSound, UpdateUserSound, DeleteSound
     DEF UserStep, AddUser, DeleteUser
<1>6. CASE PersonaStep
  BY <1>1, <1>2, <1>6, AddNodeSound, CreatePersonaSound, UpdatePersonaSound, DeleteSound
     DEF PersonaStep, AddPersona, DeletePersona
<1> QED
  BY <1>1, <1>3, <1>4, <1>5, <1>6, FailSound, PermissionSetStepSound, PeopleSound, UndisturbedSound
     DEF Next

LEMMA ProviderInductive == Spec => []ProviderInv
BY InitSound, NextSound, PTL DEF Spec

(* Whatever panics, crashes and lost answers end a creation between its two     *)
(* transactions: the resource of a node of unknown outcome is still there, and   *)
(* taken for incomplete, and no node was made for it since.  Not so of the nodes *)
(* of fate hidden, of a creation that began in the second of a failure.          *)
THEOREM UnknownMarked == Spec => []UnknownOutcomeMarked
<1>1. ProviderInv => UnknownOutcomeMarked
  BY DEF ProviderInv
<1> QED
  BY <1>1, ProviderInductive, PTL

(* However the three controllers interleave: a node on an access path whose      *)
(* creation was recorded is the one that its resource names, and the resource is  *)
(* there.  A resource gives up such a node, by its finalizer or for another one,  *)
(* after an observation that did not find it; what was not found is never linked  *)
(* again (Revoked).  Nothing is said of nodes whose creation was recorded as      *)
(* failed, or not at all: they may outlive their resource, and give access.       *)
THEOREM AccessAccounted == Spec => []AccessAccountedFor
<1>1. ASSUME ProviderInv
      PROVE  AccessAccountedFor
  <2>1. ASSUME NEW e \in edges, NEW f \in edges, e.type = "GRANTED", f.type = "ATTACHED_TO",
               e.to = f.to, NEW n \in {e.from, e.to, f.from}, nodes[n].fate = "recorded"
        PROVE  objects[nodes[n].owner].ext = n /\ Living(nodes[n].owner)
    <3>1. /\ nodes[e.from].live /\ nodes[e.from].owner \in Users
          /\ nodes[e.to].live /\ nodes[e.to].owner \in Personas
          /\ nodes[f.from].live /\ nodes[f.from].owner \in PermissionSets
      BY <1>1, <2>1 DEF ProviderInv, EdgesSound
    <3>2. e.from \in DOMAIN nodes /\ e.to \in DOMAIN nodes /\ f.from \in DOMAIN nodes
      BY <1>1 DEF ProviderInv, TypeInv, TypeOK, G!Relationships
    <3>3. Linked(n)
      BY <2>1, <3>1, NamesAssumption DEF Linked
    <3> QED
      BY <1>1, <2>1, <3>2, <3>3 DEF ProviderInv, Accounted
  <2>2. ASSUME NEW path \in AccessPaths, NEW i \in 1 .. 3, nodes[path[i]].fate = "recorded"
        PROVE  objects[nodes[path[i]].owner].ext = path[i] /\ Living(nodes[path[i]].owner)
    <3>1. PICK e \in edges, f \in edges :
            /\ e.type = "GRANTED" /\ f.type = "ATTACHED_TO" /\ e.to = f.to
            /\ path = <<e.from, e.to, f.from>>
      BY <2>2 DEF AccessPaths
    <3>2. path[i] \in {e.from, e.to, f.from}
      BY <3>1
    <3> QED
      BY <2>1, <2>2, <3>1, <3>2
  <2> QED
    BY <2>2 DEF AccessAccountedFor
<1> QED
  BY <1>1, ProviderInductive, PTL

=============================================================================
